----------------------------- MODULE ServerProofs -----------------------------
(***************************************************************************)
(* Theorems about Server: its types, the order in which the talker hears   *)
(* of users, the order in which the clients hear of events, and that each  *)
(* request with an id is in one place until it is answered.                *)
(*                                                                         *)
(* What is on its way lies in several channels, and in the hands of the    *)
(* tasks between them.  The invariant speaks of each such leg apart, and   *)
(* says how far the leg goes: a message that moves on is the first of one  *)
(* leg and becomes the last of the next.                                   *)
(***************************************************************************)
EXTENDS ServerProperties, SequenceTheorems, FiniteSetTheorems, WellFoundedInduction, TLAPS

\* What the talker knows of a user: 0, nothing; 1, that it is there; 2, that it
\* is gone.  A message m takes this from x to y.
Says(m, sid, x, y) ==
    IF m \in Ops /\ m.sid = sid
    THEN \/ m.op = "Connect"    /\ x = 0 /\ y = 1
         \/ m.op = "Request"    /\ x = 1 /\ y = 1
         \/ m.op = "Disconnect" /\ x = 1 /\ y = 2
    ELSE y = x

Told(s, sid, x, y) ==
    \E known \in [0 .. Len(s) -> 0 .. 2] :
        /\ known[0] = x /\ known[Len(s)] = y
        /\ \A i, j \in 0 .. Len(s) : i <= j => known[i] <= known[j]
        /\ \A i \in 1 .. Len(s) : Says(s[i], sid, known[i - 1], known[i])

\* What it will know when all that the handler has sent has arrived.
Stage(sid) == CASE conn[sid].pc \in {"none", "connect"} -> 0
                [] conn[sid].pc \in {"run", "request", "write", "leaving"} -> 1
                [] conn[sid].pc = "gone" -> 2

UpOrder(sid) ==
    \E u, v, w \in 0 .. 2 :
        /\ u = 1 <=> sid \in talker.users
        /\ Told(talker_c2s, sid, u, v) /\ Told(AtRouter("to_talker"), sid, v, w)
        /\ Told(listener_c2s, sid, w, Stage(sid))

DownOrder(sid) ==
    \E a, b, c, d \in 0 .. sent[sid] :
        /\ InOrder(tx2[sid], sid, consumed[sid], a) /\ InOrder(AtListener(sid), sid, a, b)
        /\ InOrder(listener_s2c, sid, b, c) /\ InOrder(AtRouter("to_listener"), sid, c, d)
        /\ InOrder(talker_s2c, sid, d, sent[sid])

\* Underway(sid), leg by leg.
Load(sid) ==
    One(conn[sid].rid) + One(talker.reply = [sid |-> sid, kind |-> "answer"])
    + Count(talker_c2s, sid) + Count(AtRouter("to_talker"), sid) + Count(listener_c2s, sid)
    + Count(tx2[sid], sid) + Count(AtListener(sid), sid) + Count(listener_s2c, sid)
    + Count(AtRouter("to_listener"), sid) + Count(talker_s2c, sid)

Unclosed(sid) == conn[sid].pc \in {"none", "connect", "run", "request", "write"}

\* The tasks, between their steps.
TasksOK ==
    /\ router.pc = "to_listener" => router.msg \in Events
    /\ router.pc = "to_talker" => router.msg \in Ops
    /\ router.pc \in {"await_listener", "done"} => ~ TalkerRuns
    /\ router.pc = "done" => ~ ListenerRuns
    /\ talker.out \subseteq talker.users
    /\ talker.reply # NoReply => talker.reply.sid \in talker.users
    /\ listener.pc = "send" => listener.msg \in Events
    /\ listener.pc # "send" => listener.pending = {}
    /\ listener.msg.op = "Event" => listener.pending \subseteq {listener.msg.sid}

\* A handler that is not at a request has the id of none, unless the request
\* waits for its data; a connection that is not there is owed nothing.
HandlerOK(sid) ==
    /\ conn[sid].pc \in {"none", "connect", "leaving", "gone"} => ~ conn[sid].waits /\ ~ conn[sid].rid
    /\ conn[sid].pc = "request" => ~ conn[sid].waits
    /\ conn[sid].pc \in {"run", "write"} /\ ~ conn[sid].waits => ~ conn[sid].rid
    /\ conn[sid].waits => Protocol[sid] = "json-v2"
    /\ conn[sid].data # "null"
    /\ conn[sid].pc = "none" => sent[sid] = 0 /\ consumed[sid] = 0 /\ owed[sid] = 0
    /\ \A i \in DOMAIN tx2[sid] : tx2[sid][i].op = "Event" => tx2[sid][i].sid = sid

\* What the client has written, as far as its handler has not sent it up.
SaidOK(sid) ==
    /\ conn[sid].waits => said[sid] = [rid |-> conn[sid].rid, data |-> "null"]
    /\ conn[sid].pc = "request" => said[sid] = [rid |-> conn[sid].rid, data |-> conn[sid].data]

Kept(sid) ==
    Unclosed(sid) => /\ Load(sid) <= owed[sid]
                     /\ TalkerRuns /\ ListenerRuns => Load(sid) = owed[sid]

Inv1 == TypeOK /\ TasksOK /\ NoNull /\ \A sid \in UserID : HandlerOK(sid) /\ SaidOK(sid)
Inv2 == TalkerRuns => \A sid \in UserID : UpOrder(sid)
Inv3 == ListenerRuns => \A sid \in UserID : Unclosed(sid) => DownOrder(sid)
Inv4 == \A sid \in UserID : Kept(sid)
IInv == Inv1 /\ Inv2 /\ Inv3 /\ Inv4 /\ NeverSurprised
------------------------------------------------------------------------------
(* One leg. *)

LEMMA HeadOf ==
    ASSUME NEW S, NEW s \in Seq(S), s # <<>>
    PROVE  /\ Len(s) \in Nat \ {0} /\ Head(s) = s[1] /\ Head(s) \in S
           /\ Tail(s) \in Seq(S) /\ Len(Tail(s)) = Len(s) - 1
           /\ \A i \in 1 .. Len(s) - 1 : Tail(s)[i] = s[i + 1]
  OBVIOUS

LEMMA PushOn ==
    ASSUME NEW S, NEW s \in Seq(S), NEW m \in S
    PROVE  /\ Len(s) \in Nat
           /\ Append(s, m) \in Seq(S) /\ Len(Append(s, m)) = Len(s) + 1
           /\ Append(s, m)[Len(s) + 1] = m
           /\ \A i \in 1 .. Len(s) : Append(s, m)[i] = s[i]
  OBVIOUS

\* The number up to which a message m takes a client that is at x.
IsMine(m, sid)   == m.op = "Event" /\ m.sid = sid
After(m, sid, x) == IF IsMine(m, sid) THEN x + 1 ELSE x

LEMMA OrderMeans ==
    ASSUME NEW s, NEW sid, NEW a, NEW b
    PROVE  InOrder(s, sid, a, b) <=>
             /\ a <= b
             /\ \A i \in Mine(s, sid) : s[i].n \in a + 1 .. b
             /\ \A x \in a + 1 .. b : \E i \in Mine(s, sid) : s[i].n = x
             /\ \A i, j \in Mine(s, sid) : i < j => s[i].n < s[j].n
<1>1. {s[i].n : i \in Mine(s, sid)} = a + 1 .. b <=>
        /\ \A i \in Mine(s, sid) : s[i].n \in a + 1 .. b
        /\ \A x \in a + 1 .. b : \E i \in Mine(s, sid) : s[i].n = x
  <2> DEFINE T == a + 1 .. b
  <2> HIDE DEF T
  <2>1. {s[i].n : i \in Mine(s, sid)} = T <=>
          /\ \A i \in Mine(s, sid) : s[i].n \in T
          /\ \A x \in T : \E i \in Mine(s, sid) : s[i].n = x
    BY Zenon
  <2> QED
    BY <2>1 DEF T
<1> QED
  BY <1>1, Zenon DEF InOrder

LEMMA OrderEmpty ==
    ASSUME NEW sid, NEW a \in Nat, NEW b \in Nat
    PROVE  InOrder(<<>>, sid, a, b) <=> a = b
<1>1. Mine(<<>>, sid) = {}
  BY DEF Mine
<1>2. b \in a + 1 .. b <=> a # b /\ a <= b
  OBVIOUS
<1> QED
  BY <1>1, <1>2, OrderMeans

LEMMA OrderPush ==
    ASSUME NEW S, NEW s \in Seq(S), NEW m \in S, NEW sid, NEW a \in Nat, NEW b \in Nat,
           InOrder(s, sid, a, b), IsMine(m, sid) => m.n = b + 1
    PROVE  InOrder(Append(s, m), sid, a, After(m, sid, b))
<1> DEFINE t == Append(s, m)
           n == Len(s)
           c == After(m, sid, b)
<1>1. n \in Nat /\ t \in Seq(S) /\ DOMAIN t = 1 .. n + 1 /\ DOMAIN s = 1 .. n
  BY PushOn
<1>2. t[n + 1] = m /\ \A i \in 1 .. n : t[i] = s[i]
  BY PushOn
<1>3. c = IF IsMine(m, sid) THEN b + 1 ELSE b
  BY DEF After
<1> HIDE DEF t, n, c
<1>4. Mine(t, sid) = Mine(s, sid) \cup IF IsMine(m, sid) THEN {n + 1} ELSE {}
  BY <1>1, <1>2 DEF Mine, IsMine
<1>5. Mine(s, sid) \subseteq 1 .. n
  BY <1>1 DEF Mine
<1>6. /\ a <= b
      /\ \A i \in Mine(s, sid) : t[i].n \in a + 1 .. b
      /\ \A x \in a + 1 .. b : \E i \in Mine(s, sid) : t[i].n = x
      /\ \A i, j \in Mine(s, sid) : i < j => t[i].n < t[j].n
  BY <1>2, <1>5, OrderMeans
<1>7. a <= c
  BY <1>3, <1>6
<1>8. \A i \in Mine(t, sid) : t[i].n \in a + 1 .. c
  BY <1>2, <1>3, <1>4, <1>6
<1>9. \A x \in a + 1 .. c : \E i \in Mine(t, sid) : t[i].n = x
  BY <1>2, <1>3, <1>4, <1>6
<1>10. ASSUME NEW i \in Mine(t, sid), NEW j \in Mine(t, sid), i < j PROVE t[i].n < t[j].n
  <2>1. i \in Mine(s, sid) /\ t[i].n \in a + 1 .. b
    BY <1>1, <1>4, <1>5, <1>6, <1>10
  <2>2. CASE j = n + 1 /\ IsMine(m, sid)
    BY <1>2, <2>1, <2>2
  <2>3. CASE j \in Mine(s, sid)
    BY <1>6, <1>10, <2>1, <2>3
  <2> QED
    BY <1>4, <2>2, <2>3
<1>11. InOrder(t, sid, a, c)
  BY <1>7, <1>8, <1>9, <1>10, OrderMeans
<1> QED
  BY <1>11 DEF t, c

LEMMA OrderHead ==
    ASSUME NEW S, NEW s \in Seq(S), s # <<>>, NEW sid, NEW a \in Nat, NEW b \in Nat,
           InOrder(s, sid, a, b)
    PROVE  /\ IsMine(Head(s), sid) => Head(s).n = a + 1
           /\ After(Head(s), sid, a) \in a .. b
           /\ InOrder(Tail(s), sid, After(Head(s), sid, a), b)
<1> DEFINE t == Tail(s)
           n == Len(s)
           c == After(Head(s), sid, a)
<1>1. n \in Nat \ {0} /\ DOMAIN s = 1 .. n /\ DOMAIN t = 1 .. n - 1 /\ Head(s) = s[1]
  BY HeadOf
<1>2. \A i \in 1 .. n - 1 : t[i] = s[i + 1]
  BY HeadOf
<1>3. c = IF 1 \in Mine(s, sid) THEN a + 1 ELSE a
  BY <1>1 DEF Mine, IsMine, After
<1>4. 1 \in Mine(s, sid) <=> IsMine(Head(s), sid)
  BY <1>1 DEF Mine, IsMine
<1> HIDE DEF t, n, c
<1>5. Mine(t, sid) \subseteq 1 .. n - 1 /\ Mine(s, sid) \subseteq 1 .. n
  BY <1>1 DEF Mine
<1>6. \A i \in 1 .. n - 1 : i \in Mine(t, sid) <=> i + 1 \in Mine(s, sid)
  BY <1>1, <1>2 DEF Mine
<1>7. /\ a <= b
      /\ \A i \in Mine(s, sid) : s[i].n \in a + 1 .. b
      /\ \A x \in a + 1 .. b : \E i \in Mine(s, sid) : s[i].n = x
      /\ \A i, j \in Mine(s, sid) : i < j => s[i].n < s[j].n
  BY OrderMeans
<1>8. ASSUME 1 \in Mine(s, sid) PROVE s[1].n = a + 1
  <2>1. s[1].n \in a + 1 .. b
    BY <1>7, <1>8
  <2>2. PICK j \in Mine(s, sid) : s[j].n = a + 1
    BY <1>7, <2>1
  <2>3. j = 1 \/ 1 < j
    BY <1>5
  <2>4. 1 < j => s[1].n < s[j].n
    BY <1>7, <1>8
  <2> QED
    BY <2>1, <2>2, <2>3, <2>4
<1>9. c \in a .. b
  BY <1>3, <1>7, <1>8
<1>10. ASSUME NEW i \in Mine(t, sid), NEW j \in Mine(t, sid), i < j PROVE t[i].n < t[j].n
  <2>1. i + 1 \in Mine(s, sid) /\ j + 1 \in Mine(s, sid) /\ i + 1 < j + 1
    BY <1>5, <1>6, <1>10
  <2> QED
    BY <1>2, <1>5, <1>7, <2>1
<1>11. ASSUME NEW i \in Mine(t, sid) PROVE t[i].n \in c + 1 .. b
  <2>1. i + 1 \in Mine(s, sid) /\ t[i] = s[i + 1] /\ 1 < i + 1
    BY <1>2, <1>5, <1>6
  <2>2. s[i + 1].n \in a + 1 .. b
    BY <1>7, <2>1
  <2>3. 1 \in Mine(s, sid) => s[1].n < s[i + 1].n
    BY <1>7, <2>1
  <2> QED
    BY <1>3, <1>8, <2>1, <2>2, <2>3
<1>12. ASSUME NEW x \in c + 1 .. b PROVE \E i \in Mine(t, sid) : t[i].n = x
  <2>1. x \in a + 1 .. b /\ (1 \in Mine(s, sid) => x # a + 1)
    BY <1>3, <1>9
  <2>2. PICK j \in Mine(s, sid) : s[j].n = x
    BY <1>7, <2>1
  <2>3. j # 1 /\ j \in 1 .. n
    BY <1>5, <1>8, <2>1, <2>2
  <2>4. j - 1 \in 1 .. n - 1 /\ (j - 1) + 1 = j
    BY <1>1, <2>3
  <2>5. j - 1 \in Mine(t, sid) /\ t[j - 1] = s[j]
    BY <1>2, <1>6, <2>2, <2>4
  <2> QED
    BY <2>2, <2>5
<1>13. c <= b
  BY <1>9
<1>14. InOrder(t, sid, c, b)
  BY <1>10, <1>11, <1>12, <1>13, OrderMeans
<1> QED
  BY <1>4, <1>1, <1>8, <1>9, <1>14 DEF t, c

LEMMA OrderOne ==
    ASSUME NEW m, NEW sid, NEW a \in Nat, NEW b \in Nat
    PROVE  InOrder(<<m>>, sid, a, b)
             <=> b = After(m, sid, a) /\ (IsMine(m, sid) => m.n = a + 1)
<1>1. <<m>> \in Seq({m}) /\ <<m>> # <<>> /\ Head(<<m>>) = m /\ Tail(<<m>>) = <<>>
      /\ <<m>> = Append(<<>>, m) /\ <<>> \in Seq({m})
  OBVIOUS
<1>2. After(m, sid, a) \in Nat
  BY DEF After
<1>3. ASSUME InOrder(<<m>>, sid, a, b)
      PROVE  b = After(m, sid, a) /\ (IsMine(m, sid) => m.n = a + 1)
  <2>1. InOrder(<<>>, sid, After(m, sid, a), b) /\ (IsMine(m, sid) => m.n = a + 1)
    BY <1>1, <1>3, OrderHead
  <2> QED
    BY <1>2, <2>1, OrderEmpty
<1>4. ASSUME b = After(m, sid, a), IsMine(m, sid) => m.n = a + 1
      PROVE  InOrder(<<m>>, sid, a, b)
  <2>1. InOrder(<<>>, sid, a, a)
    BY OrderEmpty
  <2>2. InOrder(Append(<<>>, m), sid, a, After(m, sid, a))
    BY <1>1, <1>4, <2>1, OrderPush
  <2> QED
    BY <1>1, <1>4, <2>2
<1> QED
  BY <1>3, <1>4

\* Of two legs that meet, the one that arrives later goes on from where the
\* earlier ends.
LEMMA OrderJoin ==
    ASSUME NEW S, NEW s \in Seq(S), NEW t \in Seq(S), NEW sid,
           NEW a \in Nat, NEW b \in Nat, NEW c \in Nat,
           InOrder(s, sid, a, b), InOrder(t, sid, b, c)
    PROVE  InOrder(s \o t, sid, a, c)
<1> DEFINE st == s \o t
           n == Len(s)
           k == Len(t)
<1>1. /\ n \in Nat /\ k \in Nat /\ DOMAIN s = 1 .. n /\ DOMAIN t = 1 .. k
      /\ DOMAIN st = 1 .. n + k
  OBVIOUS
<1>2. (\A i \in 1 .. n : st[i] = s[i]) /\ (\A i \in 1 .. k : st[n + i] = t[i])
  OBVIOUS
<1> HIDE DEF st, n, k
<1>3. Mine(s, sid) \subseteq 1 .. n /\ Mine(t, sid) \subseteq 1 .. k
  BY <1>1 DEF Mine
<1>4. \A i \in 1 .. n : i \in Mine(st, sid) <=> i \in Mine(s, sid)
  BY <1>1, <1>2 DEF Mine
<1>5. \A i \in 1 .. k : n + i \in Mine(st, sid) <=> i \in Mine(t, sid)
  BY <1>1, <1>2 DEF Mine
<1>6. /\ a <= b
      /\ \A i \in Mine(s, sid) : s[i].n \in a + 1 .. b
      /\ \A x \in a + 1 .. b : \E i \in Mine(s, sid) : s[i].n = x
      /\ \A i, j \in Mine(s, sid) : i < j => s[i].n < s[j].n
  BY OrderMeans
<1>7. /\ b <= c
      /\ \A i \in Mine(t, sid) : t[i].n \in b + 1 .. c
      /\ \A x \in b + 1 .. c : \E i \in Mine(t, sid) : t[i].n = x
      /\ \A i, j \in Mine(t, sid) : i < j => t[i].n < t[j].n
  BY OrderMeans
<1>8. ASSUME NEW i \in Mine(st, sid)
      PROVE  \/ i \in Mine(s, sid) /\ st[i] = s[i]
             \/ i > n /\ i - n \in Mine(t, sid) /\ st[i] = t[i - n]
  <2>1. i \in 1 .. n + k
    BY <1>1 DEF Mine
  <2>2. CASE i \in 1 .. n
    BY <1>2, <1>4, <2>2
  <2>3. CASE i \notin 1 .. n
    <3>1. i - n \in 1 .. k /\ n + (i - n) = i /\ i > n
      BY <1>1, <2>1, <2>3
    <3> QED
      BY <1>2, <1>5, <3>1
  <2> QED
    BY <2>2, <2>3
<1>9. \A i \in Mine(st, sid) : st[i].n \in a + 1 .. c
  BY <1>6, <1>7, <1>8
<1>10. ASSUME NEW x \in a + 1 .. c PROVE \E i \in Mine(st, sid) : st[i].n = x
  <2>1. CASE x <= b
    BY <1>2, <1>3, <1>4, <1>6, <2>1
  <2>2. CASE x > b
    <3>1. PICK i \in Mine(t, sid) : t[i].n = x
      BY <1>7, <2>2
    <3> QED
      BY <1>2, <1>3, <1>5, <3>1
  <2> QED
    BY <2>1, <2>2
<1>11. ASSUME NEW i \in Mine(st, sid), NEW j \in Mine(st, sid), i < j PROVE st[i].n < st[j].n
  <2>1. i \in 1 .. n + k /\ j \in 1 .. n + k
    BY <1>1 DEF Mine
  <2>2. CASE i \in Mine(s, sid) /\ j \in Mine(s, sid)
    BY <1>2, <1>3, <1>6, <1>11, <2>2
  <2>3. CASE i \in Mine(s, sid) /\ j > n /\ j - n \in Mine(t, sid) /\ st[j] = t[j - n]
    <3>1. st[i].n \in a + 1 .. b /\ st[j].n \in b + 1 .. c
      BY <1>2, <1>3, <1>6, <1>7, <2>3
    <3> QED
      BY <3>1
  <2>4. CASE /\ i > n /\ i - n \in Mine(t, sid) /\ st[i] = t[i - n]
             /\ j > n /\ j - n \in Mine(t, sid) /\ st[j] = t[j - n]
    <3>1. i - n < j - n
      BY <1>1, <1>11, <2>1
    <3> QED
      BY <1>7, <2>4, <3>1
  <2>5. ~ (i > n /\ j \in Mine(s, sid))
    BY <1>1, <1>3, <1>11, <2>1
  <2> QED
    BY <1>8, <2>2, <2>3, <2>4, <2>5
<1>12. a <= c
  BY <1>6, <1>7
<1>13. InOrder(st, sid, a, c)
  BY <1>9, <1>10, <1>11, <1>12, OrderMeans
<1> QED
  BY <1>13 DEF st

LEMMA SaysMore ==
    ASSUME NEW m, NEW sid, NEW x \in 0 .. 2, NEW y \in 0 .. 2, Says(m, sid, x, y)
    PROVE  x <= y
  BY DEF Says

LEMMA ToldEmpty ==
    ASSUME NEW sid, NEW x, NEW y
    PROVE  Told(<<>>, sid, x, y) <=> x = y /\ x \in 0 .. 2
<1>1. Len(<<>>) = 0 /\ 0 .. 0 = {0} /\ 1 .. 0 = {}
  OBVIOUS
<1>2. ASSUME Told(<<>>, sid, x, y) PROVE x = y /\ x \in 0 .. 2
  BY <1>1, <1>2 DEF Told
<1>3. ASSUME x = y, x \in 0 .. 2 PROVE Told(<<>>, sid, x, y)
  <2> DEFINE known == [i \in 0 .. 0 |-> x]
  <2>1. /\ known \in [0 .. Len(<<>>) -> 0 .. 2]
        /\ known[0] = x /\ known[Len(<<>>)] = y
        /\ \A i, j \in 0 .. Len(<<>>) : i <= j => known[i] <= known[j]
        /\ \A i \in 1 .. Len(<<>>) : Says(<<>>[i], sid, known[i - 1], known[i])
    BY <1>1, <1>3
  <2> QED
    BY <2>1, Zenon DEF Told
<1> QED
  BY <1>2, <1>3

LEMMA ToldPush ==
    ASSUME NEW S, NEW s \in Seq(S), NEW m \in S, NEW sid, NEW x, NEW y,
           NEW z \in 0 .. 2, Told(s, sid, x, y), Says(m, sid, y, z)
    PROVE  Told(Append(s, m), sid, x, z)
<1> DEFINE t == Append(s, m)
           n == Len(s)
<1>1. PICK f \in [0 .. Len(s) -> 0 .. 2] :
        /\ f[0] = x /\ f[Len(s)] = y
        /\ \A i, j \in 0 .. Len(s) : i <= j => f[i] <= f[j]
        /\ \A i \in 1 .. Len(s) : Says(s[i], sid, f[i - 1], f[i])
  BY DEF Told
<1>2. n \in Nat /\ Len(t) = n + 1 /\ t[n + 1] = m /\ \A i \in 1 .. n : t[i] = s[i]
  BY PushOn
<1> DEFINE g == [i \in 0 .. n + 1 |-> IF i <= n THEN f[i] ELSE z]
<1>3. y <= z /\ y \in 0 .. 2
  BY <1>1, <1>2, SaysMore
<1> HIDE DEF t
<1>4. g \in [0 .. Len(t) -> 0 .. 2] /\ g[0] = x /\ g[Len(t)] = z
  BY <1>1, <1>2
<1>5. (\A i \in 0 .. n : g[i] = f[i]) /\ g[n + 1] = z
  BY <1>2
<1>6. \A i \in 0 .. n : f[i] \in 0 .. 2 /\ f[i] <= y
  BY <1>1, <1>2
<1> HIDE DEF g
<1>7. ASSUME NEW i \in 0 .. Len(t), NEW j \in 0 .. Len(t), i <= j PROVE g[i] <= g[j]
  <2>1. CASE j = n + 1
    <3>1. i \in 0 .. n \/ i = n + 1
      BY <1>2
    <3>2. g[i] \in 0 .. 2 /\ g[i] <= z
      BY <1>3, <1>5, <1>6, <3>1
    <3> QED
      BY <1>5, <2>1, <3>2
  <2>2. CASE j # n + 1
    <3>1. i \in 0 .. n /\ j \in 0 .. n
      BY <1>2, <1>7, <2>2
    <3> QED
      BY <1>1, <1>5, <1>7, <3>1
  <2> QED
    BY <2>1, <2>2
<1>8. ASSUME NEW i \in 1 .. Len(t) PROVE Says(t[i], sid, g[i - 1], g[i])
  <2>1. CASE i = n + 1
    <3>1. i - 1 = n /\ n \in 0 .. n /\ g[i - 1] = y
      BY <1>1, <1>2, <1>5, <2>1
    <3> QED
      BY <1>2, <1>5, <2>1, <3>1
  <2>2. CASE i # n + 1
    <3>1. i \in 1 .. n /\ i \in 0 .. n /\ i - 1 \in 0 .. n
      BY <1>2, <2>2
    <3>2. t[i] = s[i] /\ g[i - 1] = f[i - 1] /\ g[i] = f[i]
      BY <1>2, <1>5, <3>1
    <3> QED
      BY <1>1, <3>1, <3>2
  <2> QED
    BY <2>1, <2>2
<1>9. Told(t, sid, x, z)
  BY <1>4, <1>7, <1>8, Zenon DEF Told
<1> QED
  BY <1>9 DEF t

LEMMA ToldHead ==
    ASSUME NEW S, NEW s \in Seq(S), s # <<>>, NEW sid, NEW x, NEW y, Told(s, sid, x, y)
    PROVE  /\ x \in 0 .. 2
           /\ \E z \in 0 .. 2 : Says(Head(s), sid, x, z) /\ Told(Tail(s), sid, z, y)
<1> DEFINE t == Tail(s)
           n == Len(s)
<1>1. PICK f \in [0 .. Len(s) -> 0 .. 2] :
        /\ f[0] = x /\ f[Len(s)] = y
        /\ \A i, j \in 0 .. Len(s) : i <= j => f[i] <= f[j]
        /\ \A i \in 1 .. Len(s) : Says(s[i], sid, f[i - 1], f[i])
  BY DEF Told
<1>2. /\ n \in Nat \ {0} /\ Head(s) = s[1] /\ Len(t) = n - 1
      /\ \A i \in 1 .. n - 1 : t[i] = s[i + 1]
  BY HeadOf
<1> DEFINE g == [i \in 0 .. n - 1 |-> f[i + 1]]
<1> HIDE DEF t
<1>3. g \in [0 .. Len(t) -> 0 .. 2] /\ g[0] = f[1] /\ g[Len(t)] = y
  BY <1>1, <1>2
<1>4. \A i \in 0 .. n - 1 : g[i] = f[i + 1] /\ i + 1 \in 0 .. n
  BY <1>2
<1> HIDE DEF g
<1>5. \A i, j \in 0 .. Len(t) : i <= j => g[i] <= g[j]
  BY <1>1, <1>2, <1>4
<1>6. ASSUME NEW i \in 1 .. Len(t) PROVE Says(t[i], sid, g[i - 1], g[i])
  <2>1. i \in 1 .. n - 1 /\ i - 1 \in 0 .. n - 1 /\ (i - 1) + 1 = i /\ i \in 0 .. n - 1
        /\ i + 1 \in 1 .. n /\ (i + 1) - 1 = i
    BY <1>2
  <2>2. t[i] = s[i + 1] /\ g[i - 1] = f[i] /\ g[i] = f[i + 1]
    BY <1>2, <1>4, <2>1
  <2>3. Says(s[i + 1], sid, f[(i + 1) - 1], f[i + 1])
    BY <1>1, <2>1
  <2> QED
    BY <2>1, <2>2, <2>3
<1>7. Told(t, sid, f[1], y)
  BY <1>3, <1>5, <1>6, Zenon DEF Told
<1>8. f[1] \in 0 .. 2 /\ f[0] \in 0 .. 2 /\ Says(s[1], sid, f[1 - 1], f[1])
  BY <1>1, <1>2
<1> QED
  BY <1>1, <1>2, <1>7, <1>8 DEF t

LEMMA ToldMore ==
    ASSUME NEW S, NEW s \in Seq(S), NEW sid, NEW x, NEW y, Told(s, sid, x, y)
    PROVE  x \in 0 .. 2 /\ y \in 0 .. 2 /\ x <= y
<1>1. Len(s) \in Nat /\ 0 \in 0 .. Len(s) /\ Len(s) \in 0 .. Len(s)
  OBVIOUS
<1> QED
  BY <1>1 DEF Told

LEMMA ToldOne ==
    ASSUME NEW m, NEW sid, NEW x \in 0 .. 2, NEW y \in 0 .. 2
    PROVE  Told(<<m>>, sid, x, y) <=> Says(m, sid, x, y)
<1>1. <<m>> \in Seq({m}) /\ <<m>> # <<>> /\ Head(<<m>>) = m /\ Tail(<<m>>) = <<>>
      /\ <<m>> = Append(<<>>, m) /\ <<>> \in Seq({m}) /\ m \in {m}
  OBVIOUS
<1>2. ASSUME Told(<<m>>, sid, x, y) PROVE Says(m, sid, x, y)
  <2>1. PICK z \in 0 .. 2 : Says(Head(<<m>>), sid, x, z) /\ Told(Tail(<<m>>), sid, z, y)
    BY <1>1, <1>2, ToldHead, Zenon
  <2>2. z = y
    BY <1>1, <2>1, ToldEmpty
  <2> QED
    BY <1>1, <2>1, <2>2
<1>3. ASSUME Says(m, sid, x, y) PROVE Told(<<m>>, sid, x, y)
  <2>1. Told(<<>>, sid, x, x)
    BY ToldEmpty
  <2>2. Told(Append(<<>>, m), sid, x, y)
    BY <1>1, <1>3, <2>1, ToldPush, Zenon
  <2> QED
    BY <1>1, <2>2
<1> QED
  BY <1>2, <1>3

LEMMA OneIs == \A test : One(test) \in {0, 1}
  BY DEF One

LEMMA CountFinite ==
    ASSUME NEW S, NEW s \in Seq(S), NEW sid
    PROVE  /\ IsFiniteSet({i \in DOMAIN s : HasId(s[i], sid)}) /\ Count(s, sid) \in Nat
<1>1. Len(s) \in Nat /\ DOMAIN s = 1 .. Len(s)
  OBVIOUS
<1>2. IsFiniteSet(DOMAIN s)
  BY <1>1, FS_Interval
<1>3. IsFiniteSet({i \in DOMAIN s : HasId(s[i], sid)})
  BY <1>2, FS_Subset
<1> QED
  BY <1>3, FS_CardinalityType DEF Count

LEMMA CountEmpty == \A sid : Count(<<>>, sid) = 0
  BY FS_EmptySet DEF Count

LEMMA CountJoin ==
    ASSUME NEW S, NEW s \in Seq(S), NEW t \in Seq(S), NEW sid
    PROVE  Count(s \o t, sid) = Count(s, sid) + Count(t, sid)
<1> DEFINE st == s \o t
           n == Len(s)
           k == Len(t)
           A == {i \in DOMAIN s : HasId(s[i], sid)}
           B == {i \in DOMAIN t : HasId(t[i], sid)}
           C == {i \in DOMAIN st : HasId(st[i], sid)}
           D == {i \in C : i > n}
           f == [i \in B |-> n + i]
<1>1. /\ n \in Nat /\ k \in Nat /\ DOMAIN s = 1 .. n /\ DOMAIN t = 1 .. k
      /\ DOMAIN st = 1 .. n + k
  OBVIOUS
<1>2. (\A i \in 1 .. n : st[i] = s[i]) /\ (\A i \in 1 .. k : st[n + i] = t[i])
  OBVIOUS
<1>3. IsFiniteSet(A) /\ IsFiniteSet(B) /\ Cardinality(A) = Count(s, sid)
      /\ Cardinality(B) = Count(t, sid) /\ Cardinality(C) = Count(st, sid)
  BY CountFinite DEF Count
<1> HIDE DEF st, n, k
<1>4. A = C \cap (1 .. n)
  BY <1>1, <1>2
<1>5. B \subseteq 1 .. k /\ \A i \in 1 .. k : i \in B <=> n + i \in D
  BY <1>1, <1>2
<1>6. D \subseteq n + 1 .. n + k /\ C = A \cup D /\ A \cap D = {}
  BY <1>1, <1>4
<1> HIDE DEF A, B, C, D
<1>7. f \in Bijection(B, D)
  <2>1. f \in [B -> D]
    BY <1>5
  <2>2. \A i, j \in B : f[i] = f[j] => i = j
    BY <1>1, <1>5
  <2>3. \A d \in D : \E i \in B : f[i] = d
    <3> SUFFICES ASSUME NEW d \in D PROVE \E i \in B : f[i] = d
      OBVIOUS
    <3>1. d - n \in 1 .. k /\ n + (d - n) = d
      BY <1>1, <1>6
    <3>2. d - n \in B
      BY <1>5, <3>1
    <3> QED
      BY <3>1, <3>2
  <2> QED
    BY <2>1, <2>2, <2>3 DEF Bijection, Injection, Surjection, IsInjective
<1>8. IsFiniteSet(D) /\ Cardinality(D) = Cardinality(B)
  BY <1>3, <1>7, FS_Bijection DEF ExistsBijection
<1>9. Cardinality(C) = Cardinality(A) + Cardinality(D) - Cardinality(A \cap D)
  BY <1>3, <1>6, <1>8, FS_Union
<1>10. Cardinality(A \cap D) = 0
  BY <1>6, FS_EmptySet
<1>11. Cardinality(A) \in Nat /\ Cardinality(B) \in Nat
  BY <1>3, FS_CardinalityType
<1> QED
  BY <1>3, <1>8, <1>9, <1>10, <1>11 DEF st

LEMMA CountOne ==
    ASSUME NEW m, NEW sid
    PROVE  Count(<<m>>, sid) = One(HasId(m, sid))
<1>1. DOMAIN <<m>> = {1} /\ <<m>>[1] = m
  OBVIOUS
<1>2. {i \in DOMAIN <<m>> : HasId(<<m>>[i], sid)} = IF HasId(m, sid) THEN {1} ELSE {}
  BY <1>1
<1>3. Cardinality({1}) = 1 /\ Cardinality({}) = 0
  BY FS_Singleton, FS_EmptySet
<1> QED
  BY <1>2, <1>3 DEF Count, One

LEMMA CountPush ==
    ASSUME NEW S, NEW s \in Seq(S), NEW m \in S, NEW sid
    PROVE  Count(Append(s, m), sid) = Count(s, sid) + One(HasId(m, sid))
<1>1. Append(s, m) = s \o <<m>> /\ <<m>> \in Seq(S)
  OBVIOUS
<1>2. Count(s \o <<m>>, sid) = Count(s, sid) + Count(<<m>>, sid)
  BY <1>1, CountJoin, Zenon
<1> QED
  BY <1>1, <1>2, CountOne, Zenon

LEMMA CountHead ==
    ASSUME NEW S, NEW s \in Seq(S), s # <<>>, NEW sid
    PROVE  Count(s, sid) = One(HasId(Head(s), sid)) + Count(Tail(s), sid)
<1>1. s = <<Head(s)>> \o Tail(s) /\ <<Head(s)>> \in Seq(S) /\ Tail(s) \in Seq(S)
  OBVIOUS
<1>2. Count(<<Head(s)>> \o Tail(s), sid) = Count(<<Head(s)>>, sid) + Count(Tail(s), sid)
  BY <1>1, CountJoin, Zenon
<1> QED
  BY <1>1, <1>2, CountOne, Zenon
------------------------------------------------------------------------------
(* Helpers of the model. *)

LEMMA Least == ASSUME NEW T, T \subseteq Nat, T # {}
               PROVE  \E x \in T : \A y \in T : x <= y
<1> DEFINE R == OpToRel(<, Nat)
<1>1. IsWellFoundedOn(R, Nat)
  BY NatLessThanWellFounded, Zenon
<1>2. ASSUME NEW x \in Nat, NEW y \in Nat, x < y PROVE <<x, y>> \in R
  BY <1>2, Zenon DEF OpToRel
<1> HIDE DEF R
<1>3. PICK x \in T : \A y \in T : ~ (<<y, x>> \in R)
  BY <1>1, WFMin, Zenon
<1>4. ASSUME NEW y \in T PROVE x <= y
  <2>1. ~ (y < x)
    BY <1>2, <1>3
  <2> QED
    BY <2>1
<1> QED
  BY <1>4

\* The sid of a new connection is one that no connection has.
LEMMA NextSidIsFree ==
    ASSUME next_sid \in UserID, FreeSids # {}
    PROVE  NextSid \in FreeSids
<1> DEFINE after(k) == (next_sid + k) % SidCount
           T == {k \in UserID : after(k) \in FreeSids}
<1>1. SidCount \in Nat \ {0} /\ UserID = 0 .. SidCount - 1 /\ FreeSids \subseteq UserID
  BY ServerAssumption DEF UserID, FreeSids
<1>2. PICK sid \in FreeSids : TRUE
  OBVIOUS
<1>3. \E k \in UserID : after(k) = sid
  <2>1. CASE sid >= next_sid
    <3>1. sid - next_sid \in UserID /\ next_sid + (sid - next_sid) = sid
      BY <1>1, <2>1
    <3>2. sid % SidCount = sid
      BY <1>1
    <3> QED
      BY <3>1, <3>2
  <2>2. CASE sid < next_sid
    <3>1. SidCount + sid - next_sid \in UserID
          /\ next_sid + (SidCount + sid - next_sid) = SidCount + sid
      BY <1>1, <2>2
    <3>2. (SidCount + sid) % SidCount = sid
      BY <1>1
    <3> QED
      BY <3>1, <3>2
  <2> QED
    BY <1>1, <2>1, <2>2
<1> HIDE DEF after
<1>4. T \subseteq Nat /\ T # {}
  BY <1>1, <1>2, <1>3
<1> USE DEF after
<1>5. PICK k \in T : \A j \in T : k <= j
  BY <1>4, Least
<1>6. ASSUME NEW j \in 0 .. k - 1 PROVE after(j) \notin FreeSids
  <2>1. j \in UserID /\ j < k
    BY <1>1
  <2> QED
    BY <1>5, <2>1
<1> DEFINE P(n) == after(n) \in FreeSids /\ \A j \in 0 .. n - 1 : after(j) \notin FreeSids
<1>7. k \in UserID /\ P(k)
  BY <1>6
<1> HIDE DEF P
<1>8. P(CHOOSE n \in UserID : P(n))
  BY <1>7
<1> QED
  BY <1>8 DEF P, NextSid

Handlers == [pc : {"none", "connect", "run", "request", "write", "leaving", "gone"},
             waits : BOOLEAN, rid : BOOLEAN, data : {"whole", "bytes", "null"}]

\* What a frame leaves of a handler that runs, and the requests it adds.
LEMMA AfterFrameIs ==
    ASSUME NEW protocol \in PROTOCOLS, NEW h \in Handlers, NEW f \in Frames(protocol),
           h.pc = "run", h.data # "null", h.waits => protocol = "json-v2",
           ~ h.waits => ~ h.rid, AfterFrame(protocol, h, f) # Left
    PROVE  LET g == AfterFrame(protocol, h, f)
           IN  /\ g \in Handlers /\ g.pc \in {"run", "request", "write"} /\ g.data # "null"
               /\ g.waits => protocol = "json-v2"
               /\ g.pc = "request" => ~ g.waits
               /\ g.pc \in {"run", "write"} /\ ~ g.waits => ~ g.rid
               /\ One(g.rid) = One(h.rid) + One(f.head = "rid" /\ f.body # "bad")
<1>1. CASE protocol = "json-v2"
  <2>1. f.kind \in {"text", "binary"}
    BY <1>1 DEF Frames, Carrier
  <2>2. CASE f.kind = "binary"
    <3>1. f.head = "none"
      BY <1>1, <2>2 DEF Frames, Carrier
    <3>2. h.waits /\ AfterFrame(protocol, h, f) = Forward(h, "bytes", h.rid)
      BY <1>1, <2>2 DEF AfterFrame, JsonFrame
    <3>3. h.rid \in BOOLEAN
      BY DEF Handlers
    <3> DEFINE g == AfterFrame(protocol, h, f)
    <3>4. /\ g \in Handlers /\ g.pc = "request" /\ g.waits = FALSE
          /\ g.rid = h.rid /\ g.data = "bytes"
      BY <3>2, <3>3 DEF Forward, Handlers
    <3>5. One(f.head = "rid" /\ f.body # "bad") = 0 /\ One(h.rid) \in {0, 1}
      BY <3>1 DEF One
    <3> HIDE DEF g
    <3> QED
      BY <3>4, <3>5 DEF g
  <2>3. CASE f.kind = "text"
    <3>1. /\ ~ h.waits
          /\ AfterFrame(protocol, h, f)
               = Decode(h, f, [h EXCEPT !.waits = TRUE, !.rid = f.head = "rid"])
      BY <1>1, <2>3 DEF AfterFrame, JsonFrame
    <3>2. f.head \in {"rid", "plain", "bad"} /\ f.body \in {"request", "null", "bad"}
      BY <1>1, <2>3 DEF Frames, Carrier
    <3>3. f.head # "bad"
      BY <3>1 DEF Decode
    <3>4. CASE f.body = "bad"
      BY <1>1, <3>1, <3>3, <3>4 DEF Decode, Refuse, Handlers, One
    <3>5. CASE f.body = "null"
      <4> DEFINE g == AfterFrame(protocol, h, f)
                 rid == f.head = "rid"
      <4>1. g = [h EXCEPT !.waits = TRUE, !.rid = rid]
        BY <3>1, <3>3, <3>5 DEF Decode
      <4>2. rid \in BOOLEAN
        OBVIOUS
      <4> HIDE DEF g, rid
      <4>3. g \in Handlers /\ g.pc = "run" /\ g.waits = TRUE /\ g.rid = rid /\ g.data = h.data
        BY <4>1, <4>2 DEF Handlers
      <4>4. rid <=> f.head = "rid" /\ f.body # "bad"
        BY <3>5 DEF rid
      <4>5. ~ h.rid
        BY <3>1
      <4>6. One(h.rid) = 0 /\ One(g.rid) = One(f.head = "rid" /\ f.body # "bad")
        BY <4>3, <4>4, <4>5 DEF One
      <4> QED
        BY <1>1, <4>3, <4>6, OneIs DEF g
    <3>6. CASE f.body = "request"
      <4> DEFINE g == AfterFrame(protocol, h, f)
                 rid == f.head = "rid"
      <4>1. PICK k \in Handlers : g = Forward(k, "whole", rid)
        BY <3>1, <3>3, <3>6 DEF Decode, Handlers
      <4>2. rid \in BOOLEAN /\ (rid <=> f.head = "rid" /\ f.body # "bad")
        BY <3>6
      <4> HIDE DEF g, rid
      <4>3. g \in Handlers /\ g.pc = "request" /\ g.waits = FALSE /\ g.rid = rid /\ g.data = "whole"
        BY <4>1, <4>2 DEF Forward, Handlers
      <4>4. One(h.rid) = 0 /\ One(g.rid) = One(f.head = "rid" /\ f.body # "bad")
        BY <3>1, <4>2, <4>3 DEF One
      <4> QED
        BY <4>3, <4>4, OneIs DEF g
    <3> QED
      BY <3>2, <3>4, <3>5, <3>6
  <2> QED
    BY <2>1, <2>2, <2>3
<1>2. CASE protocol = "msgpack-v1"
  <2>1. f.kind \in {"text", "binary"}
    BY <1>2 DEF Frames, Carrier
  <2>2. f.kind = "binary" /\ AfterFrame(protocol, h, f) = Decode(h, f, Left) /\ ~ h.waits
    BY <1>2, <2>1 DEF AfterFrame, MsgpackFrame
  <2>3. f.head \in {"rid", "plain", "bad"} /\ f.body \in {"request", "null", "bad"}
    BY <1>2, <2>2 DEF Frames, Carrier
  <2>4. f.head # "bad" /\ f.body # "null"
    BY <2>2, <2>3 DEF Decode
  <2>5. CASE f.body = "bad"
    BY <1>2, <2>2, <2>4, <2>5 DEF Decode, Refuse, Handlers, One
  <2>6. CASE f.body = "request"
    <3> DEFINE g == AfterFrame(protocol, h, f)
               rid == f.head = "rid"
    <3>1. PICK k \in Handlers : g = Forward(k, "whole", rid)
      BY <2>2, <2>4, <2>6 DEF Decode, Handlers
    <3>2. rid \in BOOLEAN /\ (rid <=> f.head = "rid" /\ f.body # "bad")
      BY <2>6
    <3> HIDE DEF g, rid
    <3>3. g \in Handlers /\ g.pc = "request" /\ g.waits = FALSE /\ g.rid = rid /\ g.data = "whole"
      BY <3>1, <3>2 DEF Forward, Handlers
    <3>4. One(h.rid) = 0 /\ One(g.rid) = One(f.head = "rid" /\ f.body # "bad")
      BY <2>2, <3>2, <3>3 DEF One
    <3> QED
      BY <3>3, <3>4, OneIs DEF g
  <2> QED
    BY <2>3, <2>4, <2>5, <2>6
<1> QED
  BY <1>1, <1>2 DEF PROTOCOLS

\* What the handler makes of a frame is what the client means by it.
LEMMA MeantIs ==
    ASSUME NEW protocol \in PROTOCOLS, NEW h \in Handlers, NEW f \in Frames(protocol),
           NEW s \in Sayings, h.pc = "run", h.waits => protocol = "json-v2",
           h.waits => s = [rid |-> h.rid, data |-> "null"],
           AfterFrame(protocol, h, f) # Left
    PROVE  LET g == AfterFrame(protocol, h, f)
               t == Meant(protocol, s, f)
           IN  /\ t \in Sayings
               /\ g.waits => t = [rid |-> g.rid, data |-> "null"]
               /\ g.pc = "request" => t = [rid |-> g.rid, data |-> g.data]
<1> DEFINE g == AfterFrame(protocol, h, f)
           t == Meant(protocol, s, f)
<1>1. CASE f.kind # Carrier(protocol)
  <2>1. f.kind \in {"text", "binary"}
    BY DEF Frames, Carrier
  <2>2. h.waits /\ g = Forward(h, "bytes", h.rid)
    BY <1>1, <2>1 DEF AfterFrame, JsonFrame, MsgpackFrame, Carrier, PROTOCOLS
  <2>3. t = [s EXCEPT !.data = "bytes"]
    BY <1>1 DEF Meant
  <2> HIDE DEF g, t
  <2>4. h.rid \in BOOLEAN /\ s = [rid |-> h.rid, data |-> "null"]
    BY <2>2 DEF Handlers
  <2>5. t = [rid |-> h.rid, data |-> "bytes"]
    BY <2>3, <2>4
  <2>6. g.waits = FALSE /\ g.rid = h.rid /\ g.data = "bytes"
    BY <2>2 DEF Forward, Handlers
  <2> QED
    BY <2>4, <2>5, <2>6 DEF g, t, Sayings
<1>2. CASE f.kind = Carrier(protocol)
  <2> DEFINE rid == f.head = "rid"
  <2>1. f.head \in {"rid", "plain", "bad"} /\ f.body \in {"request", "null", "bad"}
    BY <1>2 DEF Frames, Carrier
  <2>2. ~ h.waits
    BY <1>2 DEF AfterFrame, JsonFrame, Carrier
  <2>3. PICK k \in {[h EXCEPT !.waits = TRUE, !.rid = rid], Left} : g = Decode(h, f, k)
    BY <1>2, <2>2 DEF AfterFrame, JsonFrame, MsgpackFrame, Carrier, PROTOCOLS
  <2>4. f.head # "bad"
    BY <2>3 DEF Decode
  <2>5. rid \in BOOLEAN
    OBVIOUS
  <2> HIDE DEF g
  <2>6. CASE f.body = "bad"
    <3>1. t = Unsaid
      BY <1>2, <2>6 DEF Meant
    <3>2. g = [h EXCEPT !.pc = "write"]
      BY <2>3, <2>4, <2>6 DEF Decode, Refuse, g
    <3> QED
      BY <2>2, <3>1, <3>2 DEF Unsaid, Sayings, Handlers, g
  <2>7. CASE f.body = "null"
    <3>1. t = [rid |-> rid, data |-> "null"]
      BY <1>2, <2>7 DEF Meant
    <3>2. g = [h EXCEPT !.waits = TRUE, !.rid = rid]
      BY <2>3, <2>4, <2>7 DEF Decode, g
    <3> HIDE DEF rid, t
    <3>3. g.rid = rid /\ g.pc = "run"
      BY <3>2 DEF Handlers
    <3> QED
      BY <2>5, <3>1, <3>3 DEF Sayings, g, t
  <2>8. CASE f.body = "request"
    <3>1. t = [rid |-> rid, data |-> "whole"]
      BY <1>2, <2>8 DEF Meant
    <3>2. g = Forward(h, "whole", rid)
      BY <2>3, <2>4, <2>8 DEF Decode
    <3> HIDE DEF rid, t
    <3>3. g.rid = rid /\ g.waits = FALSE /\ g.data = "whole"
      BY <3>2 DEF Forward, Handlers
    <3> QED
      BY <2>5, <3>1, <3>3 DEF Sayings, g, t
  <2> QED
    BY <2>1, <2>6, <2>7, <2>8
<1> QED
  BY <1>1, <1>2

\* What a message leaves of a handler that runs.
LEMMA WrittenIs ==
    ASSUME NEW h \in Handlers, NEW m \in Events, h.pc = "run"
    PROVE  \/ Written(h, m) = Left
           \/ /\ Written(h, m) = h /\ h # Left
              /\ m.op = "Event" /\ m.kind = "silence"
           \/ /\ Written(h, m) = [h EXCEPT !.pc = "write"] /\ Written(h, m) # Left
              /\ m.op = "Event" => m.kind \in {"broadcast", "answer"}
<1>1. h # Left /\ [h EXCEPT !.pc = "write"] # Left
  BY DEF Left, NewHandler, Handlers
<1>2. m.op \in {"Event", "Shutdown", "Keepalive"} /\ (m.op = "Event" => m.kind \in Kinds)
  BY DEF Events, Shutdown, Keepalive
<1> QED
  BY <1>1, <1>2 DEF Written, Kinds
------------------------------------------------------------------------------
(* Types. *)

LEMMA MessageTypes ==
    /\ \A sid \in UserID, n \in Nat, kind \in Kinds : Event(sid, n, kind) \in Events
    /\ Shutdown \in Events /\ Keepalive \in Events
    /\ \A op \in {"Connect", "Request", "Disconnect"}, sid \in UserID, h \in Handlers :
           Op(op, sid, h) \in Ops
    /\ \A m \in Events : /\ m.op \in {"Event", "Shutdown", "Keepalive"}
                         /\ m.op = "Event" => /\ m.sid \in UserID /\ m.n \in Nat
                                              /\ m.kind \in Kinds
    /\ \A m \in Ops : m.op \in {"Connect", "Request", "Disconnect"} /\ m.sid \in UserID
                      /\ m.rid \in BOOLEAN
    /\ Nothing.op = "None"
    /\ NewHandler \in Handlers
  BY DEF Event, Events, Shutdown, Keepalive, Op, Ops, Handlers, Nothing, NewHandler

LEMMA Channels ==
    ASSUME TypeOK
    PROVE  /\ listener_c2s \in Seq(Ops) /\ talker_c2s \in Seq(Ops \cup {Shutdown})
           /\ talker_s2c \in Seq(Events) /\ listener_s2c \in Seq(Events)
           /\ \A sid \in UserID : tx2[sid] \in Seq(Events)
  BY DEF TypeOK, Bounded

LEMMA BoundedPush ==
    ASSUME NEW M, NEW s, NEW k \in Nat, Bounded(s, M, k), HasRoom(s, k), NEW m \in M
    PROVE  Bounded(Append(s, m), M, k)
  BY PushOn DEF Bounded, HasRoom

LEMMA BoundedTail ==
    ASSUME NEW M, NEW s, NEW k \in Nat, Bounded(s, M, k), s # <<>>
    PROVE  Bounded(Tail(s), M, k) /\ Head(s) \in M
  BY HeadOf DEF Bounded

LEMMA BoundedEmpty == ASSUME NEW M, NEW k \in Nat PROVE Bounded(<<>>, M, k)
  BY DEF Bounded

LEMMA Capacities ==
    /\ ListenerC2S \in Nat /\ ListenerS2C \in Nat /\ TalkerS2C \in Nat
    /\ TalkerC2S \in Nat /\ Tx2 \in Nat /\ MaxAccepts \in Nat /\ Budget \in Nat
  BY ServerAssumption

------------------------------------------------------------------------------
(* TypeOK, part by part. *)

RouterT == router \in [pc : {"select", "to_listener", "to_talker", "stop_listener", "stop_talker",
                             "await_talker", "await_listener", "done"},
                       msg : Ops \cup Events \cup {Nothing}]
TalkerT == talker \in [pc : {"recv", "exited"}, users : SUBSET UserID, out : SUBSET UserID,
                       reply : [sid : UserID, kind : Kinds] \cup {NoReply}]
ListenerT == listener \in [pc : {"bind", "select", "send", "exited"}, msg : Events \cup {Nothing},
                           pending : SUBSET connections]
ConnT == /\ conn \in [UserID -> Handlers]
         /\ connections = {sid \in UserID : conn[sid].pc # "none"}
CountT == /\ accepting \in 0 .. accepts /\ accepts \in 0 .. MaxAccepts /\ budget \in 0 .. Budget
          /\ next_sid \in UserID /\ spinning \in BOOLEAN
          /\ pinging \in BOOLEAN /\ said \in [UserID -> Sayings]
UpT   == Bounded(listener_c2s, Ops, ListenerC2S) /\ Bounded(talker_c2s, Ops \cup {Shutdown}, TalkerC2S)
DownT == Bounded(talker_s2c, Events, TalkerS2C) /\ Bounded(listener_s2c, Events, ListenerS2C)
TxT   == tx2 \in [UserID -> Seq(Events)] /\ \A sid \in UserID : Len(tx2[sid]) <= Tx2
HistoryT == /\ sent \in [UserID -> Nat] /\ consumed \in [UserID -> Nat] /\ owed \in [UserID -> Nat]
            /\ surprised \in BOOLEAN

LEMMA TypesInParts ==
    TypeOK <=> RouterT /\ TalkerT /\ ListenerT /\ ConnT /\ CountT /\ UpT /\ DownT /\ TxT /\ HistoryT
  BY Zenon DEF TypeOK, RouterT, TalkerT, ListenerT, ConnT, CountT, UpT, DownT, TxT, HistoryT, Handlers

LEMMA TypesInit == Init => TypeOK
<1> SUFFICES ASSUME Init PROVE TypeOK
  OBVIOUS
<1>1. SidCount \in Nat \ {0} /\ MaxAccepts \in Nat /\ Budget \in Nat
  BY ServerAssumption
<1>2. \A M, k : k \in Nat => Bounded(<<>>, M, k)
  BY BoundedEmpty
<1>3. 0 \in UserID
  BY <1>1 DEF UserID
<1>4. RouterT /\ TalkerT /\ ListenerT
  BY DEF Init, RouterT, TalkerT, ListenerT, Nothing, NoReply
<1>5. ConnT
  <2>1. \A sid \in UserID : conn[sid] = NewHandler
    BY DEF Init
  <2>2. NewHandler \in Handlers /\ NewHandler.pc = "none"
    BY MessageTypes DEF NewHandler
  <2>3. conn \in [UserID -> Handlers] /\ connections = {}
    BY <2>2 DEF Init
  <2> QED
    BY <2>1, <2>2, <2>3 DEF ConnT
<1>7. CountT
  BY <1>1, <1>3 DEF Init, CountT
<1>6. UpT /\ DownT /\ TxT /\ HistoryT
  <2>1. <<>> \in Seq(Events) /\ Len(<<>>) = 0 /\ 0 <= Tx2
    BY Capacities
  <2>2. TxT
    BY <2>1 DEF Init, TxT
  <2>3. HistoryT
    BY DEF Init, HistoryT
  <2> QED
    BY <1>2, <2>2, <2>3, Capacities DEF Init, UpT, DownT
<1> QED
  BY <1>4, <1>5, <1>6, <1>7, TypesInParts

LEMMA TypesInPartsNext ==
    TypeOK' <=> RouterT' /\ TalkerT' /\ ListenerT' /\ ConnT' /\ CountT' /\ UpT' /\ DownT' /\ TxT' /\ HistoryT'
  BY Zenon DEF TypeOK, RouterT, TalkerT, ListenerT, ConnT, CountT, UpT, DownT, TxT, HistoryT, Handlers

LEMMA InHand == \A m : <<m>> \in Seq({m}) /\ <<>> \in Seq({m})
  OBVIOUS

\* The terms of the load are natural numbers.
LEMMA LoadTerms ==
    ASSUME TypeOK, NEW sid \in UserID
    PROVE  /\ Count(talker_c2s, sid) \in Nat /\ Count(AtRouter("to_talker"), sid) \in Nat
           /\ Count(listener_c2s, sid) \in Nat /\ Count(tx2[sid], sid) \in Nat
           /\ Count(AtListener(sid), sid) \in Nat /\ Count(listener_s2c, sid) \in Nat
           /\ Count(AtRouter("to_listener"), sid) \in Nat /\ Count(talker_s2c, sid) \in Nat
           /\ One(conn[sid].rid) \in {0, 1}
           /\ One(talker.reply = [sid |-> sid, kind |-> "answer"]) \in {0, 1}
<1>1. /\ AtRouter("to_talker") \in Seq({router.msg}) /\ AtRouter("to_listener") \in Seq({router.msg})
      /\ AtListener(sid) \in Seq({listener.msg})
  BY InHand DEF AtRouter, AtListener
<1> QED
  BY <1>1, Channels, CountFinite, OneIs

LEMMA LoadAtLeast ==
    ASSUME TypeOK, NEW sid \in UserID
    PROVE  Load(sid) \in Nat /\ Load(sid) >= Count(tx2[sid], sid)
  BY LoadTerms DEF Load

\* An answer that a handler takes is owed.
LEMMA TakenIsOwed ==
    ASSUME IInv, NEW sid \in UserID, HandlerRecv(sid)
    PROVE  owed' \in [UserID -> Nat]
<1> DEFINE m == Head(tx2[sid])
<1>1. TypeOK /\ HandlerOK(sid) /\ Kept(sid)
  BY DEF IInv, Inv1, Inv4
<1>2. m \in Events /\ tx2[sid] \in Seq(Events) /\ tx2[sid] # <<>> /\ tx2[sid][1] = m
  BY <1>1, HeadOf, Channels DEF HandlerRecv
<1>3. Load(sid) <= owed[sid] /\ owed \in [UserID -> Nat]
  BY <1>1 DEF Kept, Unclosed, HandlerRecv, TypeOK
<1>4. owed' = owed \/ (owed' = [owed EXCEPT ![sid] = @ - 1] /\ m.op = "Event" /\ m.kind = "answer")
  BY DEF HandlerRecv
<1>5. ASSUME m.op = "Event", m.kind = "answer" PROVE owed[sid] >= 1
  <2>1. m.sid = sid
    <3>1. 1 \in DOMAIN tx2[sid]
      BY <1>2, HeadOf
    <3> QED
      BY <1>1, <1>2, <1>5, <3>1 DEF HandlerOK
  <2>2. HasId(m, sid)
    BY <1>5, <2>1 DEF HasId
  <2>3. One(HasId(m, sid)) = 1
    BY <2>2 DEF One
  <2>4. Tail(tx2[sid]) \in Seq(Events)
    BY <1>2, HeadOf
  <2>5. Count(tx2[sid], sid) = One(HasId(m, sid)) + Count(Tail(tx2[sid]), sid)
    BY <1>2, CountHead
  <2>6. Count(Tail(tx2[sid]), sid) \in Nat
    BY <2>4, CountFinite
  <2>7. Load(sid) \in Nat /\ Load(sid) >= Count(tx2[sid], sid) /\ owed[sid] \in Nat
    BY <1>1, <1>3, LoadAtLeast
  <2> QED
    BY <1>3, <2>3, <2>5, <2>6, <2>7
<1> QED
  BY <1>3, <1>4, <1>5

LEMMA TypesNext == ASSUME IInv, Next PROVE TypeOK'
<1> USE Capacities
<1>1. /\ RouterT /\ TalkerT /\ ListenerT /\ ConnT /\ CountT /\ UpT /\ DownT /\ TxT /\ HistoryT
      /\ TasksOK /\ \A sid \in UserID : HandlerOK(sid) /\ SaidOK(sid)
  BY TypesInParts DEF IInv, Inv1
<1>2. CASE RouterFromTalker
  <2>1. RouterT'
    BY <1>1, <1>2, BoundedTail DEF RouterT, RouterFromTalker, DownT, accepter, upward, history
  <2>2. DownT'
    BY <1>1, <1>2, BoundedTail DEF DownT, RouterFromTalker, accepter, upward, history
  <2>3. TalkerT' /\ ListenerT' /\ ConnT' /\ CountT' /\ UpT' /\ TxT' /\ HistoryT'
    BY <1>1, <1>2 DEF TalkerT, ListenerT, ConnT, CountT, outside, UpT, TxT, HistoryT, RouterFromTalker, accepter, upward, history
  <2> QED
    BY <2>1, <2>2, <2>3, TypesInPartsNext
<1>3. CASE RouterFromListener
  <2>1. RouterT'
    BY <1>1, <1>3, BoundedTail DEF RouterT, RouterFromListener, UpT, accepter, downward, history
  <2>2. UpT'
    BY <1>1, <1>3, BoundedTail DEF UpT, RouterFromListener, accepter, downward, history
  <2>3. TalkerT' /\ ListenerT' /\ ConnT' /\ CountT' /\ DownT' /\ TxT' /\ HistoryT'
    BY <1>1, <1>3 DEF TalkerT, ListenerT, ConnT, CountT, outside, DownT, TxT, HistoryT, RouterFromListener, accepter, downward, history
  <2> QED
    BY <2>1, <2>2, <2>3, TypesInPartsNext
<1>4. CASE RouterSends
  <2>1. RouterT'
    BY <1>1, <1>4 DEF RouterT, RouterSends, Nothing, accepter, history
  <2>2. UpT'
    <3>1. CASE router.pc = "to_talker" /\ TalkerRuns
      <4>1. router.msg \in Ops \cup {Shutdown} /\ HasRoom(talker_c2s, TalkerC2S)
            /\ talker_c2s' = Append(talker_c2s, router.msg)
        BY <1>1, <1>4, <3>1 DEF TasksOK, RouterSends
      <4> QED
        BY <1>1, <1>4, <4>1, BoundedPush DEF UpT, RouterSends
    <3>2. CASE ~ (router.pc = "to_talker" /\ TalkerRuns)
      BY <1>1, <1>4, <3>2 DEF UpT, RouterSends
    <3> QED
      BY <3>1, <3>2
  <2>3. DownT'
    BY <1>1, <1>4, BoundedPush DEF DownT, RouterSends, TasksOK, accepter, history
  <2>4. TalkerT' /\ ListenerT' /\ ConnT' /\ CountT' /\ TxT' /\ HistoryT'
    BY <1>1, <1>4 DEF TalkerT, ListenerT, ConnT, CountT, outside, TxT, HistoryT, RouterSends, accepter, history
  <2> QED
    BY <2>1, <2>2, <2>3, <2>4, TypesInPartsNext
<1>5. CASE RouterBreaks
  <2>1. RouterT'
    BY <1>1, <1>5 DEF RouterT, RouterBreaks, accepter, upward, downward, history
  <2>2. TalkerT' /\ ListenerT' /\ ConnT' /\ CountT' /\ UpT' /\ DownT' /\ TxT' /\ HistoryT'
    BY <1>1, <1>5 DEF TalkerT, ListenerT, ConnT, CountT, outside, UpT, DownT, TxT, HistoryT, RouterBreaks, accepter, upward, downward, history
  <2> QED
    BY <2>1, <2>2, TypesInPartsNext
<1>6. CASE RouterStops
  <2>1. RouterT'
    BY <1>1, <1>6 DEF RouterT, RouterStops, accepter, history
  <2>2. UpT'
    <3>1. CASE router.pc = "stop_talker" /\ TalkerRuns
      <4>1. HasRoom(talker_c2s, TalkerC2S) /\ talker_c2s' = Append(talker_c2s, Shutdown)
        BY <1>6, <3>1 DEF RouterStops
      <4>2. Shutdown \in Events /\ Shutdown \in Ops \cup {Shutdown}
        BY MessageTypes
      <4> QED
        BY <1>1, <1>6, <4>1, <4>2, BoundedPush DEF UpT, RouterStops
    <3>2. CASE ~ (router.pc = "stop_talker" /\ TalkerRuns)
      BY <1>1, <1>6, <3>2 DEF UpT, RouterStops
    <3> QED
      BY <3>1, <3>2
  <2>3. DownT'
    <3>1. CASE router.pc = "stop_listener" /\ ListenerRuns
      <4>1. HasRoom(listener_s2c, ListenerS2C) /\ listener_s2c' = Append(listener_s2c, Shutdown)
        BY <1>6, <3>1 DEF RouterStops
      <4>2. Shutdown \in Events /\ Shutdown \in Ops \cup {Shutdown}
        BY MessageTypes
      <4> QED
        BY <1>1, <1>6, <4>1, <4>2, BoundedPush DEF DownT, RouterStops
    <3>2. CASE ~ (router.pc = "stop_listener" /\ ListenerRuns)
      BY <1>1, <1>6, <3>2 DEF DownT, RouterStops
    <3> QED
      BY <3>1, <3>2
  <2>4. TalkerT' /\ ListenerT' /\ ConnT' /\ CountT' /\ TxT' /\ HistoryT'
    BY <1>1, <1>6 DEF TalkerT, ListenerT, ConnT, CountT, outside, TxT, HistoryT, RouterStops, accepter, history
  <2> QED
    BY <2>1, <2>2, <2>3, <2>4, TypesInPartsNext
<1>7. CASE RouterDone
  <2>1. RouterT'
    BY <1>1, <1>7 DEF RouterT, RouterDone, upward, history
  <2>2. ListenerT'
    BY <1>1, <1>7 DEF ListenerT, RouterDone, TasksOK, upward, history
  <2>3. ConnT'
    BY <1>1, <1>7 DEF ConnT, RouterDone, NewHandler, Handlers, upward, history
  <2>4. CountT'
    BY <1>1, <1>7 DEF CountT, outside, RouterDone, upward, history
  <2>5. TxT'
    BY <1>1, <1>7 DEF TxT, RouterDone, upward, history
  <2>6. TalkerT' /\ UpT' /\ DownT' /\ HistoryT'
    BY <1>1, <1>7 DEF TalkerT, UpT, DownT, HistoryT, RouterDone, upward, history
  <2> QED
    BY <2>1, <2>2, <2>3, <2>4, <2>5, <2>6, TypesInPartsNext
<1>8. CASE TalkerRecv
  <2>1. TalkerT'
    <3> DEFINE m == Head(talker_c2s)
    <3>1. m \in Ops \cup {Shutdown}
      BY <1>1, <1>8, BoundedTail DEF UpT, TalkerRecv
    <3>2. CASE m.op = "Connect" /\ TalkerConnect(m.sid)
      <4>1. m.sid \in UserID
        BY <3>1, <3>2, MessageTypes DEF Shutdown
      <4> QED
        BY <1>1, <3>2, <4>1 DEF TalkerT, TalkerConnect
    <3>3. CASE m.op = "Request" /\ TalkerRequest(m.sid, m.rid)
      <4>1. m.sid \in UserID
        BY <3>1, <3>3, MessageTypes DEF Shutdown
      <4> HIDE DEF m
      <4>2. CASE talker' = [talker EXCEPT !.pc = "exited"]
        BY <1>1, <4>2 DEF TalkerT
      <4>3. CASE \E out \in SUBSET (talker.users \ {m.sid}), kind \in Kinds :
                   talker' = [talker EXCEPT !.out = out, !.reply = [sid |-> m.sid, kind |-> kind]]
        <5>1. PICK out \in SUBSET (talker.users \ {m.sid}), kind \in Kinds :
                     talker' = [talker EXCEPT !.out = out, !.reply = [sid |-> m.sid, kind |-> kind]]
          BY <4>3
        <5>2. [sid |-> m.sid, kind |-> kind] \in [sid : UserID, kind : Kinds]
          BY <4>1
        <5> QED
          BY <1>1, <5>1, <5>2 DEF TalkerT
      <4> QED
        BY <3>3, <4>2, <4>3 DEF TalkerRequest, Kinds
    <3>4. CASE m.op = "Disconnect" /\ TalkerDisconnect(m.sid)
      BY <1>1, <3>4 DEF TalkerT, TalkerDisconnect
    <3>5. CASE talker' = [talker EXCEPT !.pc = "exited"]
      BY <1>1, <3>5 DEF TalkerT
    <3> QED
      BY <1>8, <3>2, <3>3, <3>4, <3>5 DEF TalkerRecv
  <2>2. UpT'
    BY <1>1, <1>8, BoundedTail DEF UpT, TalkerRecv, accepter, downward
  <2>3. HistoryT'
    BY <1>1, <1>8, BoundedTail DEF HistoryT, TalkerRecv, UpT, TalkerConnect, TalkerRequest, TalkerDisconnect, accepter, downward
  <2>4. RouterT' /\ ListenerT' /\ ConnT' /\ CountT' /\ DownT' /\ TxT'
    BY <1>1, <1>8 DEF RouterT, ListenerT, ConnT, CountT, outside, DownT, TxT, TalkerRecv, accepter, downward
  <2> QED
    BY <2>1, <2>2, <2>3, <2>4, TypesInPartsNext
<1>9. CASE TalkerSends
  <2>1. TalkerT'
    BY <1>1, <1>9 DEF TalkerT, TalkerSends, SendUni, NoReply, accepter, upward
  <2>2. DownT'
    <3>1. PICK sid \in UserID, kind \in Kinds : SendUni(sid, kind)
      BY <1>1, <1>9 DEF TalkerSends, TalkerT, NoReply, Kinds
    <3>2. Event(sid, sent[sid] + 1, kind) \in Events
      BY <1>1, MessageTypes DEF HistoryT
    <3> QED
      BY <1>1, <3>1, <3>2, BoundedPush DEF DownT, SendUni
  <2>3. HistoryT'
    <3>1. PICK sid \in UserID, kind \in Kinds : SendUni(sid, kind)
      BY <1>1, <1>9 DEF TalkerSends, TalkerT, NoReply, Kinds
    <3> QED
      BY <1>1, <3>1 DEF HistoryT, SendUni
  <2>4. RouterT' /\ ListenerT' /\ ConnT' /\ CountT' /\ UpT' /\ TxT'
    BY <1>1, <1>9 DEF RouterT, ListenerT, ConnT, CountT, outside, UpT, TxT, TalkerSends, accepter, upward, SendUni
  <2> QED
    BY <2>1, <2>2, <2>3, <2>4, TypesInPartsNext
<1>10. CASE ListenerBinds
  <2>1. ListenerT'
    BY <1>1, <1>10 DEF ListenerT, ListenerBinds, accepter, upward, downward, history
  <2>2. RouterT' /\ TalkerT' /\ ConnT' /\ CountT' /\ UpT' /\ DownT' /\ TxT' /\ HistoryT'
    BY <1>1, <1>10 DEF RouterT, TalkerT, ConnT, CountT, outside, UpT, DownT, TxT, HistoryT, ListenerBinds, accepter, upward, downward, history
  <2> QED
    BY <2>1, <2>2, TypesInPartsNext
<1>11. CASE ListenerRecv
  <2>1. ListenerT'
    BY <1>1, <1>11, BoundedTail DEF ListenerT, ListenerRecv, DownT, ListenerSending, accepter, upward, history
  <2>2. DownT'
    BY <1>1, <1>11, BoundedTail DEF DownT, ListenerRecv, accepter, upward, history
  <2>3. RouterT' /\ TalkerT' /\ ConnT' /\ CountT' /\ UpT' /\ TxT' /\ HistoryT'
    BY <1>1, <1>11 DEF RouterT, TalkerT, ConnT, CountT, outside, UpT, TxT, HistoryT, ListenerRecv, accepter, upward, history
  <2> QED
    BY <2>1, <2>2, <2>3, TypesInPartsNext
<1>12. ASSUME NEW sid \in UserID, ListenerSends(sid) PROVE TypeOK'
  <2>1. ListenerT'
    BY <1>1, <1>12 DEF ListenerT, ListenerSends, ListenerSending, accepter, upward, history
  <2>2. TxT'
    <3>1. CASE Open(sid)
      <4>1. listener.msg \in Events /\ tx2[sid] \in Seq(Events)
        BY <1>1, <1>12 DEF TasksOK, ListenerSends, TxT
      <4> DEFINE t == Append(tx2[sid], listener.msg)
      <4>2. t \in Seq(Events) /\ Len(t) <= Tx2
        BY <4>1, <1>12, <3>1, PushOn DEF ListenerSends, HasRoom
      <4>3. tx2' = [tx2 EXCEPT ![sid] = t]
        BY <1>12, <3>1 DEF ListenerSends
      <4> HIDE DEF t
      <4> QED
        BY <1>1, <4>2, <4>3 DEF TxT
    <3>2. CASE ~ Open(sid)
      BY <1>1, <1>12, <3>2 DEF TxT, ListenerSends
    <3> QED
      BY <3>1, <3>2
  <2>3. RouterT' /\ TalkerT' /\ ConnT' /\ CountT' /\ UpT' /\ DownT' /\ HistoryT'
    BY <1>1, <1>12 DEF RouterT, TalkerT, ConnT, CountT, outside, UpT, DownT, HistoryT, ListenerSends, accepter, upward, history
  <2> QED
    BY <2>1, <2>2, <2>3, TypesInPartsNext
<1>13. CASE Register
  <2>1. ConnT'
    <3>1. CASE FreeSids = {}
      BY <1>1, <1>13, <3>1 DEF ConnT, Register
    <3>2. CASE FreeSids # {}
      <4> DEFINE n == NextSid
      <4>1. n \in UserID \ connections
        BY <1>1, <3>2, NextSidIsFree DEF CountT, outside, FreeSids
      <4>2. connections' = connections \cup {n} /\ conn' = [conn EXCEPT ![n].pc = "connect"]
        BY <1>13, <3>2 DEF Register
      <4> HIDE DEF n
      <4>3. conn'[n].pc = "connect" /\ \A sid \in UserID \ {n} : conn'[sid] = conn[sid]
        BY <1>1, <4>1, <4>2 DEF ConnT, Handlers
      <4>4. conn' \in [UserID -> Handlers]
        BY <1>1, <4>1, <4>2 DEF ConnT, Handlers
      <4> QED
        BY <1>1, <4>1, <4>2, <4>3, <4>4 DEF ConnT
    <3> QED
      BY <3>1, <3>2
  <2>2. ListenerT'
    BY <1>1, <1>13 DEF ListenerT, Register, ConnT, upward, downward, history
  <2>3. CountT'
    <3>1. FreeSids # {} => NextSid \in UserID
      BY <1>1, NextSidIsFree DEF CountT, outside, FreeSids
    <3>2. SidCount \in Nat \ {0}
      BY ServerAssumption
    <3>3. FreeSids # {} => (NextSid + 1) % SidCount \in UserID
      BY <3>1, <3>2 DEF UserID
    <3>4. accepting' \in 0 .. accepts' /\ accepts' = accepts /\ outside' = outside
      BY <1>1, <1>13 DEF CountT, Register
    <3>5. next_sid' \in UserID /\ spinning' \in BOOLEAN
      BY <1>1, <1>13, <3>3 DEF CountT, Register
    <3> QED
      BY <1>1, <3>4, <3>5 DEF CountT, outside
  <2>4. RouterT' /\ TalkerT' /\ UpT' /\ DownT' /\ TxT' /\ HistoryT'
    BY <1>1, <1>13 DEF RouterT, TalkerT, UpT, DownT, TxT, HistoryT, Register, upward, downward, history
  <2> QED
    BY <2>1, <2>2, <2>3, <2>4, TypesInPartsNext
<1>14. ASSUME NEW sid \in UserID, ConnSends(sid) PROVE TypeOK'
  <2>1. ConnT'
    BY <1>1, <1>14 DEF ConnT, ConnSends, NewHandler, Handlers, connUnchanged, accepter, history
  <2>2. UpT'
    BY <1>1, <1>14, BoundedPush, MessageTypes DEF UpT, ConnSends, ConnT, connUnchanged, accepter, history
  <2>3. RouterT' /\ TalkerT' /\ ListenerT' /\ CountT' /\ DownT' /\ TxT' /\ HistoryT'
    <3>1. UNCHANGED <<router, talker, listener, connections, accepting, accepts, budget, next_sid,
                      spinning, pinging, talker_s2c, listener_s2c, tx2, sent, consumed, owed, surprised>>
      BY <1>14 DEF ConnSends, connUnchanged, accepter, history
    <3>2. RouterT' /\ TalkerT' /\ ListenerT'
      BY <1>1, <3>1 DEF RouterT, TalkerT, ListenerT
    <3>3. DownT' /\ TxT' /\ HistoryT'
      BY <1>1, <3>1 DEF DownT, TxT, HistoryT
    <3>4. said' \in [UserID -> Sayings]
      BY <1>1, <1>14 DEF ConnSends, CountT, Unsaid, Sayings
    <3>5. CountT'
      BY <1>1, <3>1, <3>4 DEF CountT
    <3> QED
      BY <3>2, <3>3, <3>5
  <2> QED
    BY <2>1, <2>2, <2>3, TypesInPartsNext
<1>15. ASSUME NEW sid \in UserID, HandlerRecv(sid) PROVE TypeOK'
  <2>1. ConnT'
    <3> DEFINE h == Written(conn[sid], Head(tx2[sid]))
    <3>1. Head(tx2[sid]) \in Events /\ conn[sid] \in Handlers /\ conn[sid].pc = "run"
      BY <1>1, <1>15, HeadOf DEF TxT, ConnT, HandlerRecv
    <3>2. h \in Handlers /\ h.pc # "none"
      <4>1. \/ h = Left \/ h = conn[sid] \/ h = [conn[sid] EXCEPT !.pc = "write"]
        BY <3>1, WrittenIs, Zenon
      <4>2. Left \in Handlers /\ Left.pc = "leaving"
        BY DEF Left, NewHandler, Handlers
      <4> HIDE DEF h
      <4> QED
        BY <3>1, <4>1, <4>2 DEF Handlers
    <3>3. conn' = [conn EXCEPT ![sid] = h]
      BY <1>15 DEF HandlerRecv
    <3> HIDE DEF h
    <3> QED
      BY <1>1, <1>15, <3>1, <3>2, <3>3 DEF ConnT, HandlerRecv, connUnchanged, accepter
  <2>2. TxT'
    BY <1>1, <1>15, HeadOf DEF TxT, HandlerRecv, connUnchanged, accepter
  <2>3. HistoryT'
    <3> DEFINE m == Head(tx2[sid])
    <3>1. m \in Events
      BY <1>1, <1>15, HeadOf DEF TxT, HandlerRecv
    <3>2. m.op = "Event" => m.n \in Nat
      BY <3>1, MessageTypes
    <3>3. consumed' \in [UserID -> Nat]
      BY <1>1, <1>15, <3>2 DEF HistoryT, HandlerRecv
    <3>4. owed' \in [UserID -> Nat]
      BY <1>1, <1>15, TakenIsOwed DEF HistoryT
    <3> QED
      BY <1>1, <1>15, <3>3, <3>4 DEF HistoryT, HandlerRecv
  <2>4. RouterT' /\ TalkerT' /\ ListenerT' /\ CountT' /\ UpT' /\ DownT'
    BY <1>1, <1>15 DEF RouterT, TalkerT, ListenerT, CountT, outside, UpT, DownT, HandlerRecv, connUnchanged, accepter
  <2> QED
    BY <2>1, <2>2, <2>3, <2>4, TypesInPartsNext
<1>16. ASSUME NEW sid \in UserID, WriteDone(sid) PROVE TypeOK'
  <2>1. ConnT'
    BY <1>1, <1>16 DEF ConnT, WriteDone, Handlers, connUnchanged, accepter, history
  <2>2. RouterT' /\ TalkerT' /\ ListenerT' /\ CountT' /\ UpT' /\ DownT' /\ TxT' /\ HistoryT'
    <3>1. UNCHANGED <<router, talker, listener, connections, accepting, accepts, budget, next_sid,
                      spinning, pinging, said, talker_s2c, listener_s2c, tx2, sent, consumed, owed, surprised>>
      BY <1>16 DEF WriteDone, connUnchanged, accepter, outside, history
    <3>2. RouterT' /\ TalkerT' /\ ListenerT' /\ CountT'
      BY <1>1, <3>1 DEF RouterT, TalkerT, ListenerT, CountT
    <3>3. DownT' /\ TxT' /\ HistoryT'
      BY <1>1, <3>1 DEF DownT, TxT, HistoryT
    <3>4. UpT'
      BY <1>1, <1>16 DEF UpT, WriteDone, connUnchanged
    <3> QED
      BY <3>2, <3>3, <3>4
  <2> QED
    BY <2>1, <2>2, TypesInPartsNext
<1>17. CASE TalkerTick
  <2>1. TalkerT'
    BY <1>1, <1>17 DEF TalkerT, TalkerTick, accepter, upward, downward, history
  <2>2. CountT'
    BY <1>1, <1>17 DEF CountT, outside, TalkerTick, Spend, accepter, upward, downward, history
  <2>3. RouterT' /\ ListenerT' /\ ConnT' /\ UpT' /\ DownT' /\ TxT' /\ HistoryT'
    BY <1>1, <1>17 DEF RouterT, ListenerT, ConnT, UpT, DownT, TxT, HistoryT, TalkerTick, accepter, upward, downward, history
  <2> QED
    BY <2>1, <2>2, <2>3, TypesInPartsNext
<1>18. CASE ListenerPings
  <2>1. ListenerT'
    <3>1. Keepalive \in Events /\ connections' = connections
      BY <1>18, MessageTypes DEF ListenerPings, accepter
    <3>2. CASE connections # {}
      <4>1. listener' = [pc |-> "send", msg |-> Keepalive, pending |-> connections]
        BY <1>18, <3>2 DEF ListenerPings, ListenerSending
      <4> QED
        BY <3>1, <4>1 DEF ListenerT
    <3>3. CASE connections = {}
      <4>1. listener' = [pc |-> "select", msg |-> Nothing, pending |-> {}]
        BY <1>18, <3>3 DEF ListenerPings, ListenerSending, Keepalive, Shutdown
      <4> QED
        BY <3>1, <4>1 DEF ListenerT
    <3> QED
      BY <3>2, <3>3
  <2>2. CountT'
    BY <1>1, <1>18 DEF CountT, outside, ListenerPings, Spend, accepter, upward, downward, history
  <2>3. RouterT' /\ TalkerT' /\ ConnT' /\ UpT' /\ DownT' /\ TxT' /\ HistoryT'
    BY <1>1, <1>18 DEF RouterT, TalkerT, ConnT, UpT, DownT, TxT, HistoryT, ListenerPings, accepter, upward, downward, history
  <2> QED
    BY <2>1, <2>2, <2>3, TypesInPartsNext
<1>19. CASE ListenerAccepts
  <2>1. CountT'
    BY <1>1, <1>19 DEF CountT, outside, ListenerAccepts, upward, downward, history
  <2>2. RouterT' /\ TalkerT' /\ ListenerT' /\ ConnT' /\ UpT' /\ DownT' /\ TxT' /\ HistoryT'
    BY <1>1, <1>19 DEF RouterT, TalkerT, ListenerT, ConnT, UpT, DownT, TxT, HistoryT, ListenerAccepts, upward, downward, history
  <2> QED
    BY <2>1, <2>2, TypesInPartsNext
<1>20. CASE HandshakeFails
  <2>1. CountT'
    BY <1>1, <1>20 DEF CountT, outside, HandshakeFails, upward, downward, history
  <2>2. RouterT' /\ TalkerT' /\ ListenerT' /\ ConnT' /\ UpT' /\ DownT' /\ TxT' /\ HistoryT'
    BY <1>1, <1>20 DEF RouterT, TalkerT, ListenerT, ConnT, UpT, DownT, TxT, HistoryT, HandshakeFails, upward, downward, history
  <2> QED
    BY <2>1, <2>2, TypesInPartsNext
<1>21. ASSUME NEW sid \in UserID, ClientLeaves(sid) PROVE TypeOK'
  <2>1. ConnT'
    BY <1>1, <1>21 DEF ConnT, ClientLeaves, Becomes, Left, NewHandler, Handlers, connUnchanged, accepter, history
  <2>2. TxT'
    BY <1>1, <1>21 DEF TxT, ClientLeaves, Becomes, connUnchanged, accepter, history
  <2>3. RouterT' /\ TalkerT' /\ ListenerT' /\ CountT' /\ UpT' /\ DownT' /\ HistoryT'
    BY <1>1, <1>21 DEF RouterT, TalkerT, ListenerT, CountT, outside, UpT, DownT, HistoryT, ClientLeaves, connUnchanged, accepter, history, Becomes
  <2> QED
    BY <2>1, <2>2, <2>3, TypesInPartsNext
<1>22. ASSUME NEW sid \in UserID, HandlerReads(sid) PROVE TypeOK'
  <2>1. ConnT'
    <3>1. PICK f \in Frames(Protocol[sid]) :
            LET h == AfterFrame(Protocol[sid], conn[sid], f) IN h # Left /\ Becomes(sid, h)
      BY <1>22 DEF HandlerReads
    <3> DEFINE h == AfterFrame(Protocol[sid], conn[sid], f)
    <3>2. conn[sid] \in Handlers /\ conn[sid].pc = "run" /\ Protocol[sid] \in PROTOCOLS
      BY <1>1, <1>22, ServerAssumption DEF ConnT, HandlerReads
    <3>3. h \in Handlers /\ h.pc # "none"
      BY <1>1, <3>1, <3>2, AfterFrameIs DEF HandlerOK
    <3>4. conn' = [conn EXCEPT ![sid] = h]
      BY <3>1 DEF Becomes
    <3> HIDE DEF h
    <3> QED
      BY <1>1, <1>22, <3>2, <3>3, <3>4 DEF ConnT, HandlerReads, connUnchanged, accepter
  <2>2. TxT'
    BY <1>1, <1>22 DEF TxT, HandlerReads, Becomes, connUnchanged, accepter
  <2>3. CountT'
    <3>1. PICK f \in Frames(Protocol[sid]) :
            /\ AfterFrame(Protocol[sid], conn[sid], f) # Left
            /\ said' = [said EXCEPT ![sid] = Meant(Protocol[sid], said[sid], f)]
      BY <1>22 DEF HandlerReads
    <3>2. /\ Protocol[sid] \in PROTOCOLS /\ conn[sid].pc = "run" /\ conn[sid] \in Handlers
          /\ said[sid] \in Sayings
      BY <1>1, <1>22, ServerAssumption DEF ConnT, CountT, HandlerReads
    <3>3. Meant(Protocol[sid], said[sid], f) \in Sayings
      BY <1>1, <3>1, <3>2, MeantIs DEF HandlerOK, SaidOK
    <3>4. said' \in [UserID -> Sayings]
      BY <1>1, <3>1, <3>3 DEF CountT
    <3> QED
      BY <1>1, <1>22, <3>4 DEF CountT, HandlerReads, Spend, connUnchanged, accepter
  <2>4. HistoryT'
    BY <1>1, <1>22 DEF HistoryT, HandlerReads, connUnchanged, accepter
  <2>5. RouterT' /\ TalkerT' /\ ListenerT' /\ UpT' /\ DownT'
    BY <1>1, <1>22 DEF RouterT, TalkerT, ListenerT, UpT, DownT, HandlerReads, connUnchanged, accepter, Becomes
  <2> QED
    BY <2>1, <2>2, <2>3, <2>4, <2>5, TypesInPartsNext
<1> QED
  BY <1>2, <1>3, <1>4, <1>5, <1>6, <1>7, <1>8, <1>9, <1>10, <1>11, <1>12, <1>13, <1>14, <1>15, <1>16, <1>17, <1>18, <1>19, <1>20, <1>21, <1>22
     DEF Next, Internal, Outside, Router, Talker, Listener, Connection
------------------------------------------------------------------------------
(* What the talker is told. *)

\* The steps that neither send up nor change what is known.
LEMMA UpSame ==
    ASSUME Inv2, TalkerRuns' => TalkerRuns, talker.users' = talker.users,
           UNCHANGED <<talker_c2s, AtRouter("to_talker"), listener_c2s>>,
           \A sid \in UserID : Stage(sid)' = Stage(sid)
    PROVE  Inv2'
<1> SUFFICES ASSUME TalkerRuns', NEW sid \in UserID PROVE UpOrder(sid)'
  BY DEF Inv2
<1>1. UpOrder(sid) /\ Stage(sid)' = Stage(sid)
  BY DEF Inv2
<1> QED
  BY <1>1, Zenon DEF UpOrder

LEMMA StageTypes == ASSUME TypeOK, NEW sid \in UserID PROVE Stage(sid) \in 0 .. 2
  BY DEF TypeOK, Stage

\* Whom the talker knows has a connection.
LEMMA Known ==
    ASSUME TypeOK, Inv2, TalkerRuns, NEW sid \in talker.users
    PROVE  sid \in UserID /\ conn[sid].pc \notin {"none", "connect"}
<1>1. sid \in UserID
  BY DEF TypeOK
<1>2. PICK u, v, w \in 0 .. 2 :
        /\ u = 1 <=> sid \in talker.users
        /\ Told(talker_c2s, sid, u, v) /\ Told(AtRouter("to_talker"), sid, v, w)
        /\ Told(listener_c2s, sid, w, Stage(sid))
  BY <1>1 DEF Inv2, UpOrder
<1>3. AtRouter("to_talker") \in Seq({router.msg})
  BY InHand DEF AtRouter
<1>4. u = 1 /\ u <= v
  BY <1>2, Channels, ToldMore
<1>5. v <= w
  BY <1>2, <1>3, ToldMore
<1>6. w <= Stage(sid) /\ Stage(sid) \in 0 .. 2
  BY <1>2, Channels, ToldMore
<1>7. Stage(sid) # 0
  BY <1>4, <1>5, <1>6
<1> QED
  BY <1>1, <1>7 DEF Stage

\* The talker knows of a user what the first message on its way supposes.
LEMMA FirstTold ==
    ASSUME TypeOK, Inv2, TalkerRuns, talker_c2s # <<>>, NEW sid \in UserID
    PROVE  \E u, z, v, w \in 0 .. 2 :
             /\ u = 1 <=> sid \in talker.users
             /\ Says(Head(talker_c2s), sid, u, z) /\ Told(Tail(talker_c2s), sid, z, v)
             /\ Told(AtRouter("to_talker"), sid, v, w) /\ Told(listener_c2s, sid, w, Stage(sid))
<1>1. PICK u, v, w \in 0 .. 2 :
        /\ u = 1 <=> sid \in talker.users
        /\ Told(talker_c2s, sid, u, v) /\ Told(AtRouter("to_talker"), sid, v, w)
        /\ Told(listener_c2s, sid, w, Stage(sid))
  BY DEF Inv2, UpOrder
<1>2. PICK z \in 0 .. 2 : Says(Head(talker_c2s), sid, u, z) /\ Told(Tail(talker_c2s), sid, z, v)
  BY <1>1, Channels, ToldHead
<1> QED
  BY <1>1, <1>2

LEMMA UpRecv == ASSUME TypeOK, Inv2, TalkerRecv PROVE Inv2' /\ surprised' = surprised
<1> DEFINE m == Head(talker_c2s)
<1>1. /\ TalkerRuns /\ talker_c2s # <<>> /\ m \in Ops \cup {Shutdown}
      /\ talker_c2s' = Tail(talker_c2s)
      /\ AtRouter("to_talker")' = AtRouter("to_talker") /\ listener_c2s' = listener_c2s
      /\ \A sid \in UserID : Stage(sid)' = Stage(sid)
  BY Channels, HeadOf DEF TalkerRecv, TalkerReady, TalkerRuns, AtRouter, Stage
<1>2. m \in Ops <=> m.op # "Shutdown"
  BY <1>1, MessageTypes DEF Shutdown
<1>3. \A x \in UserID : \E u, z, v, w \in 0 .. 2 :
             /\ u = 1 <=> x \in talker.users
             /\ Says(m, x, u, z) /\ Told(talker_c2s', x, z, v)
             /\ Told(AtRouter("to_talker")', x, v, w) /\ Told(listener_c2s', x, w, Stage(x)')
  BY <1>1, FirstTold
<1> HIDE DEF m
<1>4. m \in Ops => m.sid \in UserID
  BY MessageTypes
\* What is known of a user when the message has been taken.
<1>5. ASSUME TalkerRuns',
             \A x \in UserID, u \in 0 .. 2, z \in 0 .. 2 :
                 (u = 1 <=> x \in talker.users) /\ Says(m, x, u, z)
                     => (z = 1 <=> x \in talker.users')
      PROVE  Inv2'
  <2> SUFFICES ASSUME NEW x \in UserID PROVE UpOrder(x)'
    BY DEF Inv2
  <2>1. PICK u, z, v, w \in 0 .. 2 :
             /\ u = 1 <=> x \in talker.users
             /\ Says(m, x, u, z) /\ Told(talker_c2s', x, z, v)
             /\ Told(AtRouter("to_talker")', x, v, w) /\ Told(listener_c2s', x, w, Stage(x)')
    BY <1>3
  <2>2. z = 1 <=> x \in talker.users'
    BY <1>5, <2>1
  <2> QED
    BY <2>1, <2>2 DEF UpOrder
<1>6. CASE m.op = "Connect" /\ TalkerConnect(m.sid)
  <2>1. m \in Ops /\ m.sid \in UserID
    BY <1>2, <1>4, <1>6
  <2>2. m.sid \notin talker.users
    BY <1>3, <1>6, <2>1 DEF Says
  <2>3. talker.users' = talker.users \cup {m.sid} /\ TalkerRuns'
    BY <1>1, <1>6 DEF TalkerConnect, TypeOK, TalkerRuns
  <2>4. ASSUME NEW x \in UserID, NEW u \in 0 .. 2, NEW z \in 0 .. 2,
               u = 1 <=> x \in talker.users, Says(m, x, u, z)
        PROVE  z = 1 <=> x \in talker.users'
    BY <1>6, <2>1, <2>3, <2>4 DEF Says
  <2>5. Inv2'
    BY <1>5, <2>3, <2>4
  <2> QED
    BY <1>6, <2>2, <2>5 DEF TalkerConnect, TypeOK
<1>7. CASE m.op = "Request" /\ TalkerRequest(m.sid, m.rid)
  <2>1. m \in Ops /\ m.sid \in UserID
    BY <1>2, <1>4, <1>7
  <2>2. m.sid \in talker.users
    BY <1>3, <1>7, <2>1 DEF Says
  <2>3. talker.users' = talker.users
    BY <1>7 DEF TalkerRequest, TypeOK
  <2>4. ASSUME NEW x \in UserID, NEW u \in 0 .. 2, NEW z \in 0 .. 2,
               u = 1 <=> x \in talker.users, Says(m, x, u, z)
        PROVE  z = 1 <=> x \in talker.users'
    BY <1>7, <2>1, <2>3, <2>4 DEF Says
  <2>5. Inv2'
    BY <1>5, <2>4 DEF Inv2
  <2> QED
    BY <1>7, <2>2, <2>5 DEF TalkerRequest, TypeOK
<1>8. CASE m.op = "Disconnect" /\ TalkerDisconnect(m.sid)
  <2>1. m \in Ops /\ m.sid \in UserID
    BY <1>2, <1>4, <1>8
  <2>2. m.sid \in talker.users
    BY <1>3, <1>8, <2>1 DEF Says
  <2>3. talker.users' = talker.users \ {m.sid} /\ TalkerRuns'
    BY <1>1, <1>8 DEF TalkerDisconnect, TypeOK, TalkerRuns
  <2>4. ASSUME NEW x \in UserID, NEW u \in 0 .. 2, NEW z \in 0 .. 2,
               u = 1 <=> x \in talker.users, Says(m, x, u, z)
        PROVE  z = 1 <=> x \in talker.users'
    BY <1>8, <2>1, <2>3, <2>4 DEF Says
  <2>5. Inv2'
    BY <1>5, <2>3, <2>4
  <2> QED
    BY <1>8, <2>2, <2>5 DEF TalkerDisconnect, TypeOK
<1>9. CASE talker' = [talker EXCEPT !.pc = "exited"] /\ UNCHANGED surprised
  BY <1>9 DEF Inv2, TalkerRuns, TypeOK
<1> QED
  BY <1>6, <1>7, <1>8, <1>9 DEF TalkerRecv, m

\* Until a handler sends something, it stands where it stood.
LEMMA StageKept ==
    ASSUME IInv,
           Register \/ \E x \in UserID : HandlerRecv(x) \/ WriteDone(x) \/ ClientLeaves(x)
                                           \/ HandlerReads(x)
    PROVE  \A sid \in UserID : Stage(sid)' = Stage(sid)
<1>1. TypeOK /\ ConnT /\ \A sid \in UserID : HandlerOK(sid)
  BY TypesInParts DEF IInv, Inv1
<1>2. CASE Register
  <2>1. CASE FreeSids = {}
    BY <1>2, <2>1 DEF Register, Stage
  <2>2. CASE FreeSids # {}
    <3>1. NextSid \in UserID /\ conn[NextSid].pc = "none"
      BY <1>1, <2>2, NextSidIsFree DEF TypeOK, FreeSids
    <3>2. conn' = [conn EXCEPT ![NextSid].pc = "connect"]
      BY <1>2, <2>2 DEF Register
    <3> QED
      BY <1>1, <3>1, <3>2 DEF Stage, ConnT, Handlers
  <2> QED
    BY <2>1, <2>2
<1>3. ASSUME NEW x \in UserID, HandlerRecv(x) \/ WriteDone(x) \/ ClientLeaves(x) \/ HandlerReads(x)
      PROVE  \A sid \in UserID : Stage(sid)' = Stage(sid)
  <2>1. \E h : conn' = [conn EXCEPT ![x] = h]
               /\ h.pc \in {"run", "request", "write", "leaving"}
    <3>1. CASE HandlerRecv(x)
      <4>1. Head(tx2[x]) \in Events /\ conn[x] \in Handlers /\ conn[x].pc = "run"
        BY <1>1, <3>1, HeadOf, Channels DEF HandlerRecv, ConnT
      <4>2. Written(conn[x], Head(tx2[x])).pc \in {"run", "write", "leaving"}
        BY <4>1, WrittenIs DEF Left, NewHandler, Handlers
      <4> QED
        BY <3>1, <4>2 DEF HandlerRecv
    <3>2. CASE WriteDone(x)
      <4> DEFINE h == [conn[x] EXCEPT !.pc = "run"]
      <4>1. conn' = [conn EXCEPT ![x] = h] /\ h.pc = "run"
        BY <1>1, <3>2 DEF WriteDone, ConnT, Handlers
      <4> QED
        BY <4>1
    <3>3. CASE ClientLeaves(x)
      <4>1. Left.pc = "leaving"
        BY DEF Left, NewHandler
      <4> QED
        BY <3>3, <4>1 DEF ClientLeaves, Becomes
    <3>4. CASE HandlerReads(x)
      <4>1. PICK f \in Frames(Protocol[x]) :
              LET h == AfterFrame(Protocol[x], conn[x], f) IN h # Left /\ Becomes(x, h)
        BY <3>4 DEF HandlerReads
      <4>2. conn[x] \in Handlers /\ conn[x].pc = "run" /\ Protocol[x] \in PROTOCOLS
        BY <1>1, <3>4, ServerAssumption DEF ConnT, HandlerReads
      <4>3. AfterFrame(Protocol[x], conn[x], f).pc \in {"run", "request", "write"}
        BY <1>1, <4>1, <4>2, AfterFrameIs DEF HandlerOK
      <4> QED
        BY <4>1, <4>3 DEF Becomes
    <3> QED
      BY <1>3, <3>1, <3>2, <3>3, <3>4
  <2>2. conn[x].pc \in {"run", "write"}
    BY <1>3 DEF HandlerRecv, WriteDone, ClientLeaves, HandlerReads
  <2> QED
    BY <1>1, <2>1, <2>2 DEF Stage, ConnT
<1> QED
  BY <1>2, <1>3

LEMMA UpNext == ASSUME IInv, Next PROVE Inv2' /\ surprised' = surprised
<1>1. TypeOK /\ TasksOK /\ Inv2 /\ \A sid \in UserID : HandlerOK(sid)
  BY DEF IInv, Inv1
<1>2. ASSUME RouterFromTalker \/ RouterBreaks \/ TalkerSends \/ ListenerBinds \/ ListenerRecv
             \/ (\E sid \in UserID : ListenerSends(sid)) \/ TalkerTick \/ ListenerPings
             \/ ListenerAccepts \/ HandshakeFails
      PROVE  Inv2' /\ surprised' = surprised
  <2>1. UNCHANGED <<talker_c2s, listener_c2s, conn, surprised>>
    BY <1>2 DEF RouterFromTalker, RouterBreaks, TalkerSends, SendUni, ListenerBinds, ListenerRecv,
       ListenerSends, TalkerTick, ListenerPings, ListenerAccepts, HandshakeFails, upward, history
  <2>2. talker.users' = talker.users /\ talker.pc' = talker.pc
    BY <1>1, <1>2 DEF RouterFromTalker, RouterBreaks, TalkerSends, ListenerBinds, ListenerRecv,
       ListenerSends, TalkerTick, ListenerPings, ListenerAccepts, HandshakeFails, TypeOK
  <2>3. AtRouter("to_talker")' = AtRouter("to_talker")
    <3>1. CASE RouterFromTalker
      BY <3>1 DEF RouterFromTalker, InSelect, AtRouter
    <3>2. CASE RouterBreaks
      BY <1>1, <3>2 DEF RouterBreaks, AtRouter, TypeOK
    <3>3. CASE router' = router
      BY <3>3 DEF AtRouter
    <3> QED
      BY <1>2, <3>1, <3>2, <3>3 DEF TalkerSends, SendUni, ListenerBinds, ListenerRecv,
         ListenerSends, TalkerTick, ListenerPings, ListenerAccepts, HandshakeFails
  <2> QED
    BY <1>1, <2>1, <2>2, <2>3, UpSame DEF Stage, TalkerRuns
<1>3. CASE RouterFromListener
  <2> DEFINE m == Head(listener_c2s)
  <2>1. /\ AtRouter("to_talker") = <<>> /\ AtRouter("to_talker")' = <<m>>
        /\ listener_c2s # <<>> /\ listener_c2s' = Tail(listener_c2s)
        /\ UNCHANGED <<talker_c2s, talker, conn, surprised>>
    BY <1>3 DEF RouterFromListener, InSelect, AtRouter, history
  <2>2. ASSUME TalkerRuns', NEW sid \in UserID PROVE UpOrder(sid)'
    <3>1. PICK u, v, w \in 0 .. 2 :
            /\ u = 1 <=> sid \in talker.users
            /\ Told(talker_c2s, sid, u, v) /\ Told(<<>>, sid, v, w)
            /\ Told(listener_c2s, sid, w, Stage(sid))
      BY <1>1, <2>1, <2>2 DEF Inv2, UpOrder, TalkerRuns
    <3>2. v = w
      BY <3>1, ToldEmpty
    <3>3. PICK z \in 0 .. 2 : Says(m, sid, w, z) /\ Told(Tail(listener_c2s), sid, z, Stage(sid))
      BY <1>1, <2>1, <3>1, Channels, ToldHead
    <3>4. Told(<<m>>, sid, v, z)
      BY <3>2, <3>3, ToldOne
    <3>5. Stage(sid)' = Stage(sid)
      BY <2>1 DEF Stage
    <3> QED
      BY <2>1, <3>1, <3>3, <3>4, <3>5 DEF UpOrder
  <2> QED
    BY <2>1, <2>2 DEF Inv2
<1>4. CASE RouterSends
  <2>1. UNCHANGED <<listener_c2s, conn, talker, surprised>> /\ AtRouter("to_talker")' = <<>>
    BY <1>4 DEF RouterSends, AtRouter, history
  <2>2. CASE router.pc = "to_listener"
    <3>1. AtRouter("to_talker") = <<>> /\ talker_c2s' = talker_c2s
      BY <1>4, <2>2 DEF RouterSends, AtRouter
    <3> QED
      BY <1>1, <2>1, <3>1, UpSame DEF Stage, TalkerRuns
  <2>3. CASE router.pc = "to_talker" /\ TalkerRuns
    <3>1. /\ AtRouter("to_talker") = <<router.msg>> /\ talker_c2s' = Append(talker_c2s, router.msg)
          /\ router.msg \in Ops
      BY <1>1, <1>4, <2>3 DEF RouterSends, AtRouter, TasksOK
    <3>2. ASSUME NEW sid \in UserID PROVE UpOrder(sid)'
      <4>1. PICK u, v, w \in 0 .. 2 :
              /\ u = 1 <=> sid \in talker.users
              /\ Told(talker_c2s, sid, u, v) /\ Told(<<router.msg>>, sid, v, w)
              /\ Told(listener_c2s, sid, w, Stage(sid))
        BY <1>1, <2>3, <3>1 DEF Inv2, UpOrder
      <4>2. Says(router.msg, sid, v, w)
        BY <4>1, ToldOne
      <4>3. talker_c2s \in Seq(Ops \cup {Shutdown}) /\ router.msg \in Ops \cup {Shutdown}
        BY <1>1, <3>1, Channels
      <4>4. Told(Append(talker_c2s, router.msg), sid, u, w)
        BY <4>1, <4>2, <4>3, ToldPush
      <4>5. Told(<<>>, sid, w, w)
        BY ToldEmpty
      <4>6. Stage(sid)' = Stage(sid)
        BY <2>1 DEF Stage
      <4> QED
        BY <2>1, <3>1, <4>1, <4>4, <4>5, <4>6 DEF UpOrder
    <3> QED
      BY <2>1, <3>2 DEF Inv2
  <2>4. CASE ~ TalkerRuns
    BY <2>1, <2>4 DEF Inv2, TalkerRuns
  <2> QED
    BY <1>4, <2>2, <2>3, <2>4 DEF RouterSends
<1>5. CASE RouterStops
  <2>1. /\ UNCHANGED <<listener_c2s, conn, talker, surprised>>
        /\ AtRouter("to_talker") = <<>> /\ AtRouter("to_talker")' = <<>>
    BY <1>1, <1>5 DEF RouterStops, AtRouter, TypeOK, history
  <2>2. CASE talker_c2s' = talker_c2s
    BY <1>1, <2>1, <2>2, UpSame DEF Stage, TalkerRuns
  <2>3. CASE talker_c2s' = Append(talker_c2s, Shutdown) /\ TalkerRuns
    <3>1. ASSUME NEW sid \in UserID PROVE UpOrder(sid)'
      <4>1. PICK u, v, w \in 0 .. 2 :
              /\ u = 1 <=> sid \in talker.users
              /\ Told(talker_c2s, sid, u, v) /\ Told(<<>>, sid, v, w)
              /\ Told(listener_c2s, sid, w, Stage(sid))
        BY <1>1, <2>1, <2>3 DEF Inv2, UpOrder
      <4>2. Says(Shutdown, sid, v, v)
        BY MessageTypes DEF Says, Shutdown
      <4>3. talker_c2s \in Seq(Ops \cup {Shutdown}) /\ Shutdown \in Ops \cup {Shutdown}
        BY <1>1, Channels
      <4>4. Told(Append(talker_c2s, Shutdown), sid, u, v)
        BY <4>1, <4>2, <4>3, ToldPush
      <4>5. Stage(sid)' = Stage(sid)
        BY <2>1 DEF Stage
      <4> QED
        BY <2>1, <2>3, <4>1, <4>4, <4>5 DEF UpOrder
    <3> QED
      BY <2>1, <3>1 DEF Inv2
  <2> QED
    BY <1>5, <2>2, <2>3 DEF RouterStops
<1>6. CASE RouterDone
  BY <1>1, <1>6 DEF Inv2, RouterDone, TasksOK, TalkerRuns, history
<1>7. CASE TalkerRecv
  BY <1>1, <1>7, UpRecv
<1>8. ASSUME Register \/ \E sid \in UserID : HandlerRecv(sid) \/ WriteDone(sid)
                                               \/ ClientLeaves(sid) \/ HandlerReads(sid)
      PROVE  Inv2' /\ surprised' = surprised
  <2>1. UNCHANGED <<talker_c2s, listener_c2s, talker, router, surprised>>
    BY <1>8 DEF Register, HandlerRecv, WriteDone, ClientLeaves, HandlerReads, connUnchanged,
       upward, history
  <2>2. \A sid \in UserID : Stage(sid)' = Stage(sid)
    BY <1>8, StageKept
  <2> QED
    BY <1>1, <2>1, <2>2, UpSame DEF AtRouter, TalkerRuns
<1>9. ASSUME NEW x \in UserID, ConnSends(x) PROVE Inv2' /\ surprised' = surprised
  <2> DEFINE pc == conn[x].pc
             op == CASE pc = "connect" -> "Connect" [] pc = "request" -> "Request"
                     [] pc = "leaving" -> "Disconnect"
             m  == Op(op, x, conn[x])
  <2>1. /\ pc \in {"connect", "request", "leaving"} /\ conn[x] \in Handlers
        /\ conn' = [conn EXCEPT ![x] = [NewHandler EXCEPT !.pc =
                                           IF pc = "leaving" THEN "gone" ELSE "run"]]
        /\ UNCHANGED <<talker_c2s, talker, router, surprised>>
        /\ listener_c2s' = Append(listener_c2s, m)
    BY <1>1, <1>9 DEF ConnSends, TypeOK, Handlers, connUnchanged, history
  <2>2. op \in {"Connect", "Request", "Disconnect"}
    BY <2>1
  <2>3. m \in Ops /\ m.sid = x /\ m.op = op
    BY <2>1, <2>2, MessageTypes DEF Op
  <2> HIDE DEF m
  <2>4. ASSUME NEW sid \in UserID PROVE Says(m, sid, Stage(sid), Stage(sid)')
    <3>1. CASE sid # x
      BY <1>1, <2>1, <2>3, <3>1 DEF Says, Stage, TypeOK
    <3>2. CASE sid = x
      <4>1. conn'[x].pc = IF pc = "leaving" THEN "gone" ELSE "run"
        BY <1>1, <2>1 DEF TypeOK, NewHandler
      <4> QED
        BY <2>1, <2>3, <3>2, <4>1 DEF Says, Stage
    <3> QED
      BY <3>1, <3>2
  <2>5. ASSUME TalkerRuns', NEW sid \in UserID PROVE UpOrder(sid)'
    <3>1. PICK u, v, w \in 0 .. 2 :
            /\ u = 1 <=> sid \in talker.users
            /\ Told(talker_c2s, sid, u, v) /\ Told(AtRouter("to_talker"), sid, v, w)
            /\ Told(listener_c2s, sid, w, Stage(sid))
      BY <1>1, <2>1, <2>5 DEF Inv2, UpOrder, TalkerRuns
    <3>2. Stage(sid)' \in 0 .. 2
      <4>1. Stage(sid) \in 0 .. 2
        BY <1>1, StageTypes
      <4> QED
        BY <2>4, <4>1 DEF Says
    <3>3. Told(Append(listener_c2s, m), sid, w, Stage(sid)')
      BY <1>1, <2>3, <2>4, <3>1, <3>2, Channels, ToldPush
    <3>4. AtRouter("to_talker")' = AtRouter("to_talker")
      BY <2>1 DEF AtRouter
    <3> QED
      BY <2>1, <3>1, <3>3, <3>4 DEF UpOrder
  <2> QED
    BY <2>1, <2>5 DEF Inv2
<1> QED
  BY <1>2, <1>3, <1>4, <1>5, <1>6, <1>7, <1>8, <1>9
     DEF Next, Internal, Outside, Router, Talker, Listener, Connection
------------------------------------------------------------------------------
(* The tasks and the handlers. *)

RouterOK == /\ router.pc = "to_listener" => router.msg \in Events
            /\ router.pc = "to_talker" => router.msg \in Ops
            /\ router.pc \in {"await_listener", "done"} => ~ TalkerRuns
            /\ router.pc = "done" => ~ ListenerRuns
TalkerOK == /\ talker.out \subseteq talker.users
            /\ talker.reply # NoReply => talker.reply.sid \in talker.users
ListenerOK == /\ listener.pc = "send" => listener.msg \in Events
              /\ listener.pc # "send" => listener.pending = {}
              /\ listener.msg.op = "Event" => listener.pending \subseteq {listener.msg.sid}

LEMMA TasksInParts == /\ TasksOK <=> RouterOK /\ TalkerOK /\ ListenerOK
                      /\ TasksOK' <=> RouterOK' /\ TalkerOK' /\ ListenerOK'
  BY DEF TasksOK, RouterOK, TalkerOK, ListenerOK

\* Who acts on what.
RouterActs   == Router
TalkerActs   == TalkerRecv \/ TalkerSends \/ TalkerTick
ListenerActs == ListenerBinds \/ ListenerRecv \/ ListenerPings \/ \E sid \in UserID : ListenerSends(sid)
ConnActs(sid) == ConnSends(sid) \/ HandlerRecv(sid) \/ WriteDone(sid) \/ ClientLeaves(sid) \/ HandlerReads(sid)

LEMMA WhoActs ==
    ASSUME Next
    PROVE  \/ RouterActs /\ UNCHANGED <<talker, listener>>
           \/ TalkerActs /\ UNCHANGED <<router, listener, conn, tx2>>
           \/ ListenerActs /\ UNCHANGED <<router, talker, conn, sent, consumed, owed>>
           \/ (Register \/ ListenerAccepts \/ HandshakeFails)
                /\ UNCHANGED <<router, talker, listener, tx2, sent, consumed, owed>>
           \/ \E sid \in UserID : ConnActs(sid) /\ UNCHANGED <<router, talker, listener>>
<1>1. CASE Router
  BY <1>1 DEF Router, RouterActs, RouterFromTalker, RouterFromListener, RouterSends, RouterBreaks,
     RouterStops, RouterDone
<1>2. CASE TalkerRecv
  BY <1>2 DEF TalkerActs, TalkerRecv, downward
<1>3. CASE TalkerSends
  BY <1>3 DEF TalkerActs, TalkerSends, SendUni
<1>4. CASE TalkerTick
  BY <1>4 DEF TalkerActs, TalkerTick, downward
<1>5. CASE ListenerBinds
  BY <1>5 DEF ListenerActs, ListenerBinds, history
<1>6. CASE ListenerRecv
  BY <1>6 DEF ListenerActs, ListenerRecv, history
<1>7. CASE ListenerPings
  BY <1>7 DEF ListenerActs, ListenerPings, history
<1>8. ASSUME NEW sid \in UserID, ListenerSends(sid)
      PROVE  ListenerActs /\ UNCHANGED <<router, talker, conn, sent, consumed, owed>>
  BY <1>8 DEF ListenerActs, ListenerSends, history
<1>9. CASE Register \/ ListenerAccepts \/ HandshakeFails
  BY <1>9 DEF Register, ListenerAccepts, HandshakeFails, downward, history
<1>10. ASSUME NEW sid \in UserID, ConnActs(sid) PROVE UNCHANGED <<router, talker, listener>>
  BY <1>10 DEF ConnActs, ConnSends, HandlerRecv, WriteDone, ClientLeaves, HandlerReads, connUnchanged
<1> QED
  BY <1>1, <1>2, <1>3, <1>4, <1>5, <1>6, <1>7, <1>8, <1>9, <1>10
     DEF Next, Internal, Outside, Talker, Listener, Connection, ConnActs

\* A task that has ended stays so.
LEMMA StayDown ==
    ASSUME TypeOK, Next
    PROVE  (~ TalkerRuns => ~ TalkerRuns') /\ (~ ListenerRuns => ~ ListenerRuns')
<1>1. TalkerActs => TalkerRuns
  BY DEF TalkerActs, TalkerRecv, TalkerSends, TalkerTick, TalkerReady, TalkerRuns
<1>2. ListenerActs => ListenerRuns
  BY DEF ListenerActs, ListenerBinds, ListenerRecv, ListenerPings, ListenerSends,
     ListenerSelects, ListenerRuns
<1>3. \/ TalkerActs /\ UNCHANGED listener
      \/ ListenerActs /\ UNCHANGED talker
      \/ UNCHANGED <<talker, listener>>
  BY WhoActs
<1> QED
  BY <1>1, <1>2, <1>3 DEF TalkerRuns, ListenerRuns

LEMMA RouterNext == ASSUME IInv, Next PROVE RouterOK'
<1>1. TypeOK /\ RouterOK
  BY TasksInParts DEF IInv, Inv1
<1>2. (~ TalkerRuns => ~ TalkerRuns') /\ (~ ListenerRuns => ~ ListenerRuns')
  BY <1>1, StayDown
<1>3. CASE UNCHANGED router
  BY <1>1, <1>2, <1>3 DEF RouterOK
<1>4. CASE RouterFromTalker
  BY <1>1, <1>4, Channels, HeadOf DEF RouterOK, RouterFromTalker
<1>5. CASE RouterFromListener
  BY <1>1, <1>5, Channels, HeadOf DEF RouterOK, RouterFromListener
<1>6. CASE RouterSends
  BY <1>6 DEF RouterOK, RouterSends
<1>7. CASE RouterBreaks
  BY <1>1, <1>7 DEF RouterOK, RouterBreaks, TypeOK
<1>8. CASE RouterStops
  BY <1>1, <1>2, <1>8 DEF RouterOK, RouterStops, TypeOK
<1>9. CASE RouterDone
  BY <1>1, <1>2, <1>9 DEF RouterOK, RouterDone, TypeOK
<1> QED
  BY <1>3, <1>4, <1>5, <1>6, <1>7, <1>8, <1>9, WhoActs DEF RouterActs, Router

LEMMA TalkerNext == ASSUME IInv, Next PROVE TalkerOK'
<1>1. TypeOK /\ TalkerOK /\ Inv2
  BY TasksInParts DEF IInv, Inv1
<1>2. CASE UNCHANGED talker
  BY <1>1, <1>2 DEF TalkerOK
<1>3. CASE TalkerRecv
  <2> DEFINE m == Head(talker_c2s)
  <2>1. talker.out = {} /\ talker.reply = NoReply
    BY <1>3 DEF TalkerRecv, TalkerReady
  <2>2. CASE TalkerConnect(m.sid)
    BY <1>1, <2>1, <2>2 DEF TalkerConnect, TalkerOK, TypeOK
  <2>3. CASE m.op = "Request" /\ TalkerRequest(m.sid, m.rid)
    <3>1. m.sid \in talker.users
      <4>1. surprised' = surprised
        BY <1>3, UpNext DEF Next, Internal, Talker
      <4>2. TalkerRuns /\ talker_c2s # <<>>
        BY <1>3 DEF TalkerRecv, TalkerReady, TalkerRuns
      <4>3. m \in Ops
        BY <1>1, <2>3, <4>2, Channels, HeadOf DEF Shutdown
      <4>4. m.sid \in UserID
        BY <4>3, MessageTypes
      <4>5. PICK u, z \in 0 .. 2 : (u = 1 <=> m.sid \in talker.users) /\ Says(m, m.sid, u, z)
        BY <1>1, <4>2, <4>4, FirstTold
      <4> QED
        BY <2>3, <4>3, <4>5 DEF Says
    <3>2. CASE talker' = [talker EXCEPT !.pc = "exited"]
      BY <1>1, <2>1, <3>2 DEF TalkerOK, TypeOK
    <3> DEFINE s == m.sid
    <3> HIDE DEF m
    <3>3. ASSUME NEW out \in SUBSET (talker.users \ {s}), NEW kind,
                 talker' = [talker EXCEPT !.out = out, !.reply = [sid |-> s, kind |-> kind]]
          PROVE  TalkerOK'
      <4> DEFINE r == [sid |-> s, kind |-> kind]
      <4>1. r.sid = s
        OBVIOUS
      <4> HIDE DEF r
      <4>2. talker' = [talker EXCEPT !.out = out, !.reply = r]
        BY <3>3 DEF r
      <4>3. talker'.out = out /\ talker'.reply = r /\ talker'.users = talker.users
        BY <1>1, <4>2 DEF TypeOK
      <4> QED
        BY <3>1, <4>1, <4>3 DEF TalkerOK
    <3> QED
      BY <2>3, <3>2, <3>3 DEF TalkerRequest
  <2>4. CASE TalkerDisconnect(m.sid)
    BY <1>1, <2>1, <2>4 DEF TalkerDisconnect, TalkerOK, TypeOK
  <2>5. CASE talker' = [talker EXCEPT !.pc = "exited"]
    BY <1>1, <2>1, <2>5 DEF TalkerOK, TypeOK
  <2> QED
    BY <1>3, <2>2, <2>3, <2>4, <2>5 DEF TalkerRecv
<1>4. CASE TalkerSends
  <2>1. \/ \E sid \in talker.out : talker' = [talker EXCEPT !.out = @ \ {sid}]
        \/ talker' = [talker EXCEPT !.reply = NoReply]
    BY <1>4 DEF TalkerSends
  <2>2. /\ talker'.users = talker.users /\ talker'.out \subseteq talker.out
        /\ talker'.reply = talker.reply \/ talker'.reply = NoReply
    <3>1. ASSUME NEW sid \in talker.out, talker' = [talker EXCEPT !.out = @ \ {sid}]
          PROVE  talker'.users = talker.users /\ talker'.out \subseteq talker.out
                 /\ talker'.reply = talker.reply
      BY <1>1, <3>1 DEF TypeOK
    <3>2. ASSUME talker' = [talker EXCEPT !.reply = NoReply]
          PROVE  talker'.users = talker.users /\ talker'.out = talker.out
                 /\ talker'.reply = NoReply
      BY <1>1, <3>2 DEF TypeOK
    <3> QED
      BY <2>1, <3>1, <3>2
  <2> QED
    BY <1>1, <2>2 DEF TalkerOK
<1>5. CASE TalkerTick
  BY <1>1, <1>5 DEF TalkerOK, TalkerTick, TypeOK
<1> QED
  BY <1>2, <1>3, <1>4, <1>5, WhoActs DEF TalkerActs

LEMMA ListenerSendingIs ==
    ASSUME NEW m \in Events, NEW sids, m.op = "Event" => sids \subseteq {m.sid},
           ListenerSending(m, sids)
    PROVE  ListenerOK'
<1>1. CASE sids = {}
  BY <1>1 DEF ListenerSending, ListenerOK
<1>2. CASE sids # {}
  BY <1>2 DEF ListenerSending, ListenerOK
<1> QED
  BY <1>1, <1>2

LEMMA ListenerNext == ASSUME IInv, Next PROVE ListenerOK'
<1>1. TypeOK /\ ListenerOK
  BY TasksInParts DEF IInv, Inv1
<1>2. CASE UNCHANGED listener
  BY <1>1, <1>2 DEF ListenerOK
<1>3. CASE ListenerBinds
  BY <1>1, <1>3 DEF ListenerOK, ListenerBinds, TypeOK
<1>4. CASE ListenerRecv
  <2>1. Head(listener_s2c) \in Events
    BY <1>1, <1>4, Channels, HeadOf DEF ListenerRecv
  <2> QED
    BY <1>4, <2>1, ListenerSendingIs DEF ListenerRecv
<1>5. CASE ListenerPings
  BY <1>5, MessageTypes, ListenerSendingIs DEF ListenerPings, Keepalive
<1>6. ASSUME NEW sid \in UserID, ListenerSends(sid) PROVE ListenerOK'
  BY <1>1, <1>6, ListenerSendingIs DEF ListenerSends, ListenerOK
<1> QED
  BY <1>2, <1>3, <1>4, <1>5, <1>6, WhoActs DEF ListenerActs

LEMMA NoNullNext == ASSUME IInv, Next PROVE NoNull'
<1>1. TypeOK /\ NoNull /\ \A sid \in UserID : HandlerOK(sid)
  BY DEF IInv, Inv1
<1>2. CASE UNCHANGED listener_c2s
  BY <1>1, <1>2 DEF NoNull
<1>3. CASE RouterFromListener
  <2>1. listener_c2s \in Seq(Ops) /\ listener_c2s # <<>> /\ listener_c2s' = Tail(listener_c2s)
    BY <1>1, <1>3, Channels DEF RouterFromListener
  <2> QED
    BY <1>1, <2>1, HeadOf DEF NoNull
<1>4. ASSUME NEW sid \in UserID, ConnSends(sid) PROVE NoNull'
  <2>1. PICK op : listener_c2s' = Append(listener_c2s, Op(op, sid, conn[sid]))
    BY <1>4 DEF ConnSends
  <2> DEFINE m == Op(op, sid, conn[sid])
  <2>2. m.data # "null"
    BY <1>1 DEF HandlerOK, Op
  <2>3. listener_c2s \in Seq(Ops \cup {m}) /\ m \in Ops \cup {m}
    BY <1>1, Channels
  <2> HIDE DEF m
  <2>4. listener_c2s' = Append(listener_c2s, m)
    BY <2>1 DEF m
  <2> QED
    BY <1>1, <2>2, <2>3, <2>4, PushOn DEF NoNull
<1> QED
  BY <1>2, <1>3, <1>4 DEF Next, Internal, Outside, Router, Talker, Listener, Connection,
     RouterFromTalker, RouterSends, RouterBreaks, RouterStops, RouterDone, TalkerRecv, TalkerSends,
     SendUni, TalkerTick, ListenerBinds, ListenerRecv, ListenerPings, ListenerSends, ListenerAccepts,
     HandshakeFails, Register, HandlerRecv, WriteDone, ClientLeaves, HandlerReads, connUnchanged, upward

\* What a step of a handler makes of it.
LEMMA HandlerActs ==
    ASSUME IInv, NEW x \in UserID, ConnActs(x)
    PROVE  LET h == conn'[x]
           IN  /\ conn' = [conn EXCEPT ![x] = h] /\ h \in Handlers
               /\ h.pc \in {"run", "request", "write", "leaving", "gone"} /\ h.data # "null"
               /\ h.pc \in {"leaving", "gone"} => ~ h.waits /\ ~ h.rid
               /\ h.pc = "request" => ~ h.waits
               /\ h.pc \in {"run", "write"} /\ ~ h.waits => ~ h.rid
               /\ h.waits => Protocol[x] = "json-v2"
               /\ conn[x].pc # "none"
               /\ sent' = sent /\ \A y \in UserID \ {x} : consumed'[y] = consumed[y] /\ owed'[y] = owed[y]
               /\ \A y \in UserID \ {x} : tx2'[y] = tx2[y]
               /\ tx2'[x] \in {<<>>, tx2[x], Tail(tx2[x])}
               /\ tx2'[x] = Tail(tx2[x]) => tx2[x] # <<>> \/ tx2'[x] = <<>>
<1>1. ConnT /\ HistoryT /\ TxT /\ HandlerOK(x)
  BY TypesInParts DEF IInv, Inv1
<1>2. Left \in Handlers /\ Left.pc = "leaving" /\ Left.waits = FALSE /\ Left.rid = FALSE
      /\ Left.data = "whole"
  BY DEF Left, NewHandler, Handlers
<1>3. conn[x] \in Handlers /\ \A h : [conn EXCEPT ![x] = h][x] = h
  BY <1>1 DEF ConnT
<1>4. CASE ConnSends(x)
  <2> DEFINE h == [NewHandler EXCEPT !.pc = IF conn[x].pc = "leaving" THEN "gone" ELSE "run"]
  <2>1. conn' = [conn EXCEPT ![x] = h] /\ UNCHANGED <<tx2, sent, consumed, owed>>
        /\ conn[x].pc \in {"connect", "request", "leaving"}
    BY <1>4 DEF ConnSends, history
  <2>2. h \in Handlers /\ h.pc \in {"run", "gone"} /\ h.waits = FALSE /\ h.rid = FALSE
        /\ h.data = "whole"
    BY DEF NewHandler, Handlers
  <2> HIDE DEF h
  <2>3. conn'[x] = h
    BY <1>3, <2>1
  <2> QED
    BY <2>1, <2>2, <2>3
<1>5. CASE HandlerRecv(x)
  <2> DEFINE h == Written(conn[x], Head(tx2[x]))
  <2>1. /\ conn' = [conn EXCEPT ![x] = h] /\ sent' = sent /\ conn[x].pc = "run" /\ tx2[x] # <<>>
        /\ tx2' = [tx2 EXCEPT ![x] = IF h = Left THEN <<>> ELSE Tail(tx2[x])]
    BY <1>1, <1>5 DEF HandlerRecv, TxT
  <2>2. \A y \in UserID \ {x} : consumed'[y] = consumed[y] /\ owed'[y] = owed[y]
    BY <1>1, <1>5 DEF HandlerRecv, HistoryT
  <2>3. \A y \in UserID \ {x} : tx2'[y] = tx2[y]
    BY <1>1, <2>1 DEF TxT
  <2>4. tx2'[x] \in {<<>>, Tail(tx2[x])}
    BY <1>1, <2>1 DEF TxT
  <2>5. Head(tx2[x]) \in Events
    BY <1>1, <2>1, HeadOf DEF TxT
  <2>6. h = Left \/ h = conn[x] \/ h = [conn[x] EXCEPT !.pc = "write"]
    BY <1>3, <2>1, <2>5, WrittenIs
  <2> HIDE DEF h
  <2>7. conn'[x] = h
    BY <1>3, <2>1
  <2>8. CASE h = Left
    BY <1>2, <2>1, <2>2, <2>3, <2>4, <2>7, <2>8
  <2>9. CASE h = conn[x]
    BY <1>1, <1>3, <2>1, <2>2, <2>3, <2>4, <2>7, <2>9 DEF HandlerOK
  <2>10. CASE h = [conn[x] EXCEPT !.pc = "write"]
    <3>1. h \in Handlers /\ h.pc = "write" /\ h.waits = conn[x].waits /\ h.rid = conn[x].rid
          /\ h.data = conn[x].data
      BY <1>3, <2>10 DEF Handlers
    <3> QED
      BY <1>1, <2>1, <2>2, <2>3, <2>4, <2>7, <3>1 DEF HandlerOK
  <2> QED
    BY <2>6, <2>8, <2>9, <2>10
<1>6. CASE WriteDone(x)
  <2> DEFINE h == [conn[x] EXCEPT !.pc = "run"]
  <2>1. conn' = [conn EXCEPT ![x] = h] /\ UNCHANGED <<tx2, sent, consumed, owed>>
        /\ conn[x].pc = "write"
    BY <1>6 DEF WriteDone, history
  <2>2. h \in Handlers /\ h.pc = "run" /\ h.waits = conn[x].waits /\ h.rid = conn[x].rid
          /\ h.data = conn[x].data
    BY <1>3 DEF Handlers
  <2> HIDE DEF h
  <2>3. conn'[x] = h
    BY <1>3, <2>1
  <2> QED
    BY <1>1, <2>1, <2>2, <2>3 DEF HandlerOK
<1>7. CASE ClientLeaves(x)
  <2>1. conn' = [conn EXCEPT ![x] = Left] /\ UNCHANGED <<sent, consumed, owed>>
        /\ conn[x].pc \in {"run", "write"} /\ tx2' = [tx2 EXCEPT ![x] = <<>>]
    BY <1>7 DEF ClientLeaves, Becomes, history
  <2>2. tx2'[x] = <<>> /\ \A y \in UserID \ {x} : tx2'[y] = tx2[y]
    BY <1>1, <2>1 DEF TxT
  <2>3. conn'[x] = Left
    BY <1>3, <2>1
  <2> QED
    BY <1>2, <2>1, <2>2, <2>3
<1>8. CASE HandlerReads(x)
  <2>1. PICK f \in Frames(Protocol[x]) :
          LET h == AfterFrame(Protocol[x], conn[x], f)
          IN  /\ h # Left /\ Becomes(x, h)
              /\ owed' = [owed EXCEPT ![x] = IF f.head = "rid" /\ f.body # "bad" THEN @ + 1 ELSE @]
    BY <1>8 DEF HandlerReads
  <2> DEFINE h == AfterFrame(Protocol[x], conn[x], f)
  <2>2. Protocol[x] \in PROTOCOLS /\ conn[x].pc = "run" /\ UNCHANGED <<sent, consumed>>
    BY <1>8, ServerAssumption DEF HandlerReads
  <2>3. /\ h \in Handlers /\ h.pc \in {"run", "request", "write"} /\ h.data # "null"
        /\ h.waits => Protocol[x] = "json-v2"
        /\ h.pc = "request" => ~ h.waits
        /\ h.pc \in {"run", "write"} /\ ~ h.waits => ~ h.rid
    BY <1>1, <1>3, <2>1, <2>2, AfterFrameIs DEF HandlerOK
  <2>4. conn' = [conn EXCEPT ![x] = h] /\ tx2' = tx2
    BY <1>1, <2>1 DEF Becomes, TxT
  <2>5. \A y \in UserID \ {x} : owed'[y] = owed[y]
    BY <1>1, <2>1 DEF HistoryT
  <2> HIDE DEF h
  <2>6. conn'[x] = h
    BY <1>3, <2>4
  <2> QED
    BY <2>2, <2>3, <2>4, <2>5, <2>6
<1> QED
  BY <1>4, <1>5, <1>6, <1>7, <1>8 DEF ConnActs

LEMMA HandlerNext == ASSUME IInv, Next, NEW sid \in UserID PROVE HandlerOK(sid)'
<1>1. TypeOK /\ ConnT /\ HistoryT /\ TxT /\ HandlerOK(sid) /\ TasksOK /\ Inv2
  BY TypesInParts DEF IInv, Inv1
<1>2. CASE UNCHANGED <<conn, tx2, sent, consumed, owed>>
  BY <1>1, <1>2 DEF HandlerOK
<1>3. CASE RouterDone
  <2>1. /\ conn'[sid] = [NewHandler EXCEPT !.pc = IF sid \in connections THEN "gone" ELSE "none"]
        /\ tx2'[sid] = <<>> /\ UNCHANGED <<sent, consumed, owed>>
    BY <1>3 DEF RouterDone, history
  <2>2. /\ conn'[sid].pc = IF sid \in connections THEN "gone" ELSE "none"
        /\ conn'[sid].waits = FALSE /\ conn'[sid].rid = FALSE /\ conn'[sid].data = "whole"
    BY <2>1 DEF NewHandler
  <2>3. sid \notin connections => conn[sid].pc = "none"
    BY <1>1 DEF ConnT
  <2> QED
    BY <1>1, <2>1, <2>2, <2>3 DEF HandlerOK
<1>4. CASE TalkerSends
  <2>1. PICK x \in talker.users, kind \in Kinds : SendUni(x, kind)
    BY <1>1, <1>4 DEF TalkerSends, TasksOK, TypeOK, NoReply, Kinds
  <2>2. TalkerRuns /\ UNCHANGED <<conn, tx2>>
    BY <1>4, <2>1 DEF TalkerSends, TalkerRuns, SendUni
  <2>3. x \in UserID /\ conn[x].pc # "none"
    BY <1>1, <2>2, Known
  <2>4. sid # x => sent'[sid] = sent[sid]
    BY <1>1, <2>1, <2>3 DEF SendUni, HistoryT
  <2>5. UNCHANGED <<consumed, owed>>
    BY <2>1 DEF SendUni
  <2> QED
    BY <1>1, <2>2, <2>3, <2>4, <2>5 DEF HandlerOK
<1>5. ASSUME NEW x \in UserID, ListenerSends(x) PROVE HandlerOK(sid)'
  <2>1. UNCHANGED <<conn, sent, consumed, owed>>
    BY <1>5 DEF ListenerSends, history
  <2>2. CASE tx2'[sid] = tx2[sid]
    BY <1>1, <2>1, <2>2 DEF HandlerOK
  <2>3. CASE tx2'[sid] # tx2[sid]
    <3>1. sid = x /\ tx2'[sid] = Append(tx2[sid], listener.msg)
      BY <1>1, <1>5, <2>3 DEF ListenerSends, TxT
    <3>2. listener.msg.op = "Event" => listener.msg.sid = sid
      BY <1>1, <1>5, <3>1 DEF ListenerSends, TasksOK
    <3>3. tx2[sid] \in Seq(Events) /\ listener.msg \in Events
      BY <1>1, <1>5 DEF TxT, TasksOK, ListenerSends
    <3>4. \A i \in DOMAIN tx2'[sid] : tx2'[sid][i].op = "Event" => tx2'[sid][i].sid = sid
      BY <1>1, <3>1, <3>2, <3>3, PushOn DEF HandlerOK
    <3> QED
      BY <1>1, <2>1, <3>4 DEF HandlerOK
  <2> QED
    BY <2>2, <2>3
<1>6. CASE Register
  <2>1. UNCHANGED <<tx2, sent, consumed, owed>>
    BY <1>6 DEF Register, downward, history
  <2>2. CASE conn'[sid] = conn[sid]
    BY <1>1, <2>1, <2>2 DEF HandlerOK
  <2>3. CASE conn'[sid] # conn[sid]
    <3>1. FreeSids # {}
      BY <1>6, <2>3 DEF Register
    <3>2. NextSid \in UserID /\ conn[NextSid].pc = "none"
      BY <1>1, <3>1, NextSidIsFree DEF TypeOK, FreeSids
    <3>3. conn' = [conn EXCEPT ![NextSid].pc = "connect"]
      BY <1>6, <3>1 DEF Register
    <3>4. sid = NextSid
      BY <1>1, <2>3, <3>2, <3>3 DEF ConnT
    <3>5. conn'[sid].pc = "connect" /\ conn'[sid].waits = conn[sid].waits
          /\ conn'[sid].rid = conn[sid].rid /\ conn'[sid].data = conn[sid].data
      BY <1>1, <3>2, <3>3, <3>4 DEF ConnT, Handlers
    <3> QED
      BY <1>1, <2>1, <3>2, <3>4, <3>5 DEF HandlerOK
  <2> QED
    BY <2>2, <2>3
<1>7. ASSUME NEW x \in UserID, ConnActs(x) PROVE HandlerOK(sid)'
  <2>1. CASE sid # x
    <3>1. conn'[sid] = conn[sid] /\ tx2'[sid] = tx2[sid] /\ sent' = sent
          /\ consumed'[sid] = consumed[sid] /\ owed'[sid] = owed[sid]
      BY <1>1, <1>7, <2>1, HandlerActs DEF ConnT
    <3> QED
      BY <1>1, <3>1 DEF HandlerOK
  <2>2. CASE sid = x
    <3>1. tx2[sid] \in Seq(Events)
      BY <1>1 DEF TxT
    <3>2. tx2'[sid] \in {<<>>, tx2[sid], Tail(tx2[sid])}
          /\ (tx2'[sid] = Tail(tx2[sid]) => tx2[sid] # <<>> \/ tx2'[sid] = <<>>)
      BY <1>7, <2>2, HandlerActs
    <3>3. \A i \in DOMAIN tx2'[sid] : tx2'[sid][i].op = "Event" => tx2'[sid][i].sid = sid
      <4>1. CASE tx2'[sid] = <<>>
        BY <4>1
      <4>2. CASE tx2'[sid] = tx2[sid]
        BY <1>1, <4>2 DEF HandlerOK
      <4>3. CASE tx2'[sid] = Tail(tx2[sid]) /\ tx2[sid] # <<>>
        BY <1>1, <3>1, <4>3, HeadOf DEF HandlerOK
      <4> QED
        BY <3>2, <4>1, <4>2, <4>3
    <3> QED
      BY <1>7, <2>2, <3>3, HandlerActs DEF HandlerOK
  <2> QED
    BY <2>1, <2>2
<1>8. \/ Router \/ Talker \/ TalkerTick \/ ListenerActs \/ Register
      \/ ListenerAccepts \/ HandshakeFails \/ \E x \in UserID : ConnActs(x)
  BY WhoActs DEF RouterActs, TalkerActs, Talker
<1>9. CASE Router /\ ~ RouterDone
  BY <1>2, <1>9 DEF Router, RouterFromTalker, RouterFromListener, RouterSends, RouterBreaks,
     RouterStops, downward, history
<1>10. CASE TalkerRecv \/ TalkerTick \/ ListenerAccepts \/ HandshakeFails
  BY <1>2, <1>10 DEF TalkerRecv, TalkerTick, ListenerAccepts, HandshakeFails, downward, history
<1>11. CASE ListenerBinds \/ ListenerRecv \/ ListenerPings
  BY <1>2, <1>11 DEF ListenerBinds, ListenerRecv, ListenerPings, downward, history
<1> QED
  BY <1>3, <1>4, <1>5, <1>6, <1>7, <1>8, <1>9, <1>10, <1>11 DEF Talker, ListenerActs

\* Whatever a handler does between the frames of a message leaves it as the
\* client has written it.
LEMMA SaidNext == ASSUME IInv, Next, NEW sid \in UserID PROVE SaidOK(sid)'
<1>1. ConnT /\ CountT /\ TxT /\ HandlerOK(sid) /\ SaidOK(sid)
  BY TypesInParts DEF IInv, Inv1
<1>2. CASE conn'[sid].pc # "request" /\ ~ conn'[sid].waits
  BY <1>2 DEF SaidOK
<1>3. ASSUME conn'[sid].waits = conn[sid].waits, conn'[sid].rid = conn[sid].rid,
             conn'[sid].pc # "request", said'[sid] = said[sid]
      PROVE  SaidOK(sid)'
  BY <1>1, <1>3 DEF SaidOK
<1>4. CASE UNCHANGED <<conn, said>>
  BY <1>1, <1>4 DEF SaidOK
<1>5. CASE RouterDone
  <2>1. conn'[sid].pc \in {"gone", "none"} /\ conn'[sid].waits = FALSE
    BY <1>5 DEF RouterDone, NewHandler
  <2> QED
    BY <1>2, <2>1
<1>6. CASE Register
  <2>1. said' = said
    BY <1>6 DEF Register, outside
  <2>2. CASE conn'[sid] = conn[sid]
    BY <1>1, <2>1, <2>2 DEF SaidOK
  <2>3. CASE conn'[sid] # conn[sid]
    <3>1. FreeSids # {}
      BY <1>6, <2>3 DEF Register
    <3>2. conn' = [conn EXCEPT ![NextSid].pc = "connect"]
      BY <1>6, <3>1 DEF Register
    <3>3. sid = NextSid /\ conn'[sid].pc = "connect" /\ conn'[sid].waits = conn[sid].waits
          /\ conn'[sid].rid = conn[sid].rid
      BY <1>1, <2>3, <3>2 DEF ConnT, Handlers
    <3> QED
      BY <1>3, <2>1, <3>3
  <2> QED
    BY <2>2, <2>3
<1>7. ASSUME NEW x \in UserID, ConnActs(x), sid # x PROVE SaidOK(sid)'
  <2>1. conn'[sid] = conn[sid]
    BY <1>1, <1>7, HandlerActs DEF ConnT
  <2>2. said'[sid] = said[sid]
    BY <1>1, <1>7 DEF ConnActs, ConnSends, HandlerRecv, WriteDone, ClientLeaves, HandlerReads,
       outside, CountT
  <2> QED
    BY <1>1, <2>1, <2>2 DEF SaidOK
<1>8. CASE ConnSends(sid)
  <2>1. conn'[sid] = [NewHandler EXCEPT !.pc = IF conn[sid].pc = "leaving" THEN "gone" ELSE "run"]
    BY <1>1, <1>8 DEF ConnSends, ConnT
  <2> QED
    BY <1>2, <2>1 DEF NewHandler
<1>9. CASE HandlerRecv(sid)
  <2> DEFINE h == Written(conn[sid], Head(tx2[sid]))
  <2>1. conn[sid].pc = "run" /\ Head(tx2[sid]) \in Events /\ said' = said /\ conn'[sid] = h
    BY <1>1, <1>9, HeadOf DEF HandlerRecv, TxT, ConnT, outside
  <2>2. h = Left \/ h = conn[sid] \/ h = [conn[sid] EXCEPT !.pc = "write"]
    BY <1>1, <2>1, WrittenIs DEF ConnT
  <2> HIDE DEF h
  <2>3. CASE h = Left
    BY <1>2, <2>1, <2>3 DEF Left, NewHandler
  <2>4. CASE h = conn[sid]
    BY <1>1, <2>1, <2>4 DEF SaidOK
  <2>5. CASE h = [conn[sid] EXCEPT !.pc = "write"]
    <3>1. h.waits = conn[sid].waits /\ h.rid = conn[sid].rid /\ h.pc = "write"
      BY <1>1, <2>5 DEF ConnT, Handlers
    <3> QED
      BY <1>3, <2>1, <3>1
  <2> QED
    BY <2>2, <2>3, <2>4, <2>5
<1>10. CASE WriteDone(sid)
  <2>1. conn'[sid].waits = conn[sid].waits /\ conn'[sid].rid = conn[sid].rid
        /\ conn'[sid].pc = "run" /\ said' = said
    BY <1>1, <1>10 DEF WriteDone, ConnT, Handlers, outside
  <2> QED
    BY <1>3, <2>1
<1>11. CASE ClientLeaves(sid)
  <2>1. conn'[sid] = Left
    BY <1>1, <1>11 DEF ClientLeaves, Becomes, ConnT
  <2> QED
    BY <1>2, <2>1 DEF Left, NewHandler
<1>12. CASE HandlerReads(sid)
  <2>1. PICK f \in Frames(Protocol[sid]) :
          /\ AfterFrame(Protocol[sid], conn[sid], f) # Left
          /\ conn'[sid] = AfterFrame(Protocol[sid], conn[sid], f)
          /\ said'[sid] = Meant(Protocol[sid], said[sid], f)
    BY <1>1, <1>12 DEF HandlerReads, Becomes, ConnT, CountT
  <2>2. /\ Protocol[sid] \in PROTOCOLS /\ conn[sid].pc = "run" /\ conn[sid] \in Handlers
        /\ said[sid] \in Sayings
    BY <1>1, <1>12, ServerAssumption DEF HandlerReads, ConnT, CountT
  <2>3. /\ conn[sid].waits => Protocol[sid] = "json-v2"
        /\ conn[sid].waits => said[sid] = [rid |-> conn[sid].rid, data |-> "null"]
    BY <1>1 DEF HandlerOK, SaidOK
  <2> QED
    BY <2>1, <2>2, <2>3, MeantIs DEF SaidOK
<1>13. CASE Router /\ ~ RouterDone
  BY <1>4, <1>13 DEF Router, RouterFromTalker, RouterFromListener, RouterSends, RouterBreaks,
     RouterStops, outside
<1>14. CASE TalkerActs \/ ListenerAccepts \/ HandshakeFails
  BY <1>4, <1>14 DEF TalkerActs, TalkerRecv, TalkerSends, SendUni, TalkerTick, ListenerAccepts,
     HandshakeFails, outside
<1>15. CASE ListenerActs
  BY <1>4, <1>15 DEF ListenerActs, ListenerBinds, ListenerRecv, ListenerPings, ListenerSends, outside
<1> QED
  BY <1>5, <1>6, <1>7, <1>8, <1>9, <1>10, <1>11, <1>12, <1>13, <1>14, <1>15, WhoActs
     DEF RouterActs, ConnActs

LEMMA Inv1Next == ASSUME IInv, Next PROVE Inv1'
<1>1. TasksOK'
  BY RouterNext, TalkerNext, ListenerNext, TasksInParts
<1> QED
  BY <1>1, TypesNext, NoNullNext, HandlerNext, SaidNext DEF Inv1
------------------------------------------------------------------------------
(* What is on its way to a client. *)

\* A connection that closes stays so.
LEMMA StayClosed ==
    ASSUME IInv, Next, NEW sid \in UserID, Unclosed(sid)'
    PROVE  Unclosed(sid) /\ (conn[sid].pc # "none" => conn'[sid].pc # "none")
<1>1. TypeOK /\ ConnT /\ \A x \in UserID : HandlerOK(x)
  BY TypesInParts DEF IInv, Inv1
<1>2. CASE conn'[sid] = conn[sid]
  BY <1>2 DEF Unclosed
<1>3. CASE RouterDone
  <2>1. conn'[sid].pc = IF sid \in connections THEN "gone" ELSE "none"
    BY <1>3 DEF RouterDone, NewHandler
  <2> QED
    BY <1>1, <2>1 DEF Unclosed, ConnT
<1>4. CASE Register /\ conn'[sid] # conn[sid]
  <2>1. FreeSids # {}
    BY <1>4 DEF Register
  <2>2. NextSid \in UserID /\ conn[NextSid].pc = "none" /\ conn' = [conn EXCEPT ![NextSid].pc = "connect"]
    BY <1>1, <1>4, <2>1, NextSidIsFree DEF TypeOK, FreeSids, Register
  <2>3. sid = NextSid
    BY <1>1, <1>4, <2>2 DEF ConnT
  <2> QED
    BY <2>2, <2>3 DEF Unclosed
<1>5. ASSUME NEW x \in UserID, ConnActs(x), conn'[sid] # conn[sid]
      PROVE  Unclosed(sid) /\ conn'[sid].pc # "none"
  <2>1. sid = x /\ conn'[x].pc # "none"
    BY <1>1, <1>5, HandlerActs DEF ConnT
  <2>2. CASE conn[x].pc \in {"run", "write"}
    BY <2>1, <2>2 DEF Unclosed
  <2>3. CASE ConnSends(x)
    <3>1. conn'[x].pc = IF conn[x].pc = "leaving" THEN "gone" ELSE "run"
      BY <1>1, <2>3 DEF ConnSends, ConnT, NewHandler
    <3> QED
      BY <2>1, <2>3, <3>1 DEF Unclosed, ConnSends
  <2> QED
    BY <1>5, <2>2, <2>3 DEF ConnActs, HandlerRecv, WriteDone, ClientLeaves, HandlerReads
<1>6. \/ Router \/ UNCHANGED conn \/ Register \/ \E x \in UserID : ConnActs(x)
  BY WhoActs DEF RouterActs, ListenerAccepts, HandshakeFails
<1>7. Router => RouterDone \/ UNCHANGED conn
  BY DEF Router, RouterFromTalker, RouterFromListener, RouterSends, RouterBreaks, RouterStops
<1> QED
  BY <1>2, <1>3, <1>4, <1>5, <1>6, <1>7

LEMMA DownTo ==
    ASSUME NEW sid \in UserID, sent'[sid] \in Nat,
           NEW a \in Nat, NEW b \in Nat, NEW c \in Nat, NEW d \in Nat,
           InOrder(tx2'[sid], sid, consumed'[sid], a), InOrder(AtListener(sid)', sid, a, b),
           InOrder(listener_s2c', sid, b, c), InOrder(AtRouter("to_listener")', sid, c, d),
           InOrder(talker_s2c', sid, d, sent'[sid])
    PROVE  DownOrder(sid)'
<1>1. a <= b /\ b <= c /\ c <= d /\ d <= sent'[sid]
  BY OrderMeans
<1>2. a \in 0 .. sent'[sid] /\ b \in 0 .. sent'[sid] /\ c \in 0 .. sent'[sid] /\ d \in 0 .. sent'[sid]
  BY <1>1
<1> QED
  BY <1>2, Zenon DEF DownOrder

\* Messages that are not events are in nobody's order.
LEMMA NotMine == \A sid, a : After(Shutdown, sid, a) = a /\ After(Keepalive, sid, a) = a
                             /\ ~ IsMine(Shutdown, sid) /\ ~ IsMine(Keepalive, sid)
  BY DEF After, IsMine, Shutdown, Keepalive

LEMMA DownNext == ASSUME IInv, Next PROVE Inv3'
<1> SUFFICES ASSUME ListenerRuns', NEW sid \in UserID, Unclosed(sid)' PROVE DownOrder(sid)'
  BY DEF Inv3
<1>1. TypeOK /\ TasksOK /\ Inv2 /\ HandlerOK(sid) /\ ConnT /\ TxT /\ HistoryT
  BY TypesInParts DEF IInv, Inv1
<1>2. TypeOK' /\ HistoryT' /\ ListenerRuns /\ Unclosed(sid)
  BY <1>1, TypesNext, TypesInPartsNext, StayDown, StayClosed
<1>3. PICK a, b, c, d \in 0 .. sent[sid] :
        /\ InOrder(tx2[sid], sid, consumed[sid], a) /\ InOrder(AtListener(sid), sid, a, b)
        /\ InOrder(listener_s2c, sid, b, c) /\ InOrder(AtRouter("to_listener"), sid, c, d)
        /\ InOrder(talker_s2c, sid, d, sent[sid])
  BY <1>2 DEF IInv, Inv3, DownOrder
<1>4. sent[sid] \in Nat /\ sent'[sid] \in Nat /\ consumed[sid] \in Nat
      /\ a \in Nat /\ b \in Nat /\ c \in Nat /\ d \in Nat
  BY <1>1, <1>2 DEF HistoryT
<1>5. CASE UNCHANGED <<tx2[sid], AtListener(sid), listener_s2c, AtRouter("to_listener"), talker_s2c,
                       sent[sid], consumed[sid]>>
  BY <1>3, <1>4, <1>5, DownTo
<1>6. CASE RouterFromTalker
  <2> DEFINE m == Head(talker_s2c)
  <2>1. /\ AtRouter("to_listener") = <<>> /\ AtRouter("to_listener")' = <<m>>
        /\ talker_s2c \in Seq(Events) /\ talker_s2c # <<>> /\ talker_s2c' = Tail(talker_s2c)
        /\ UNCHANGED <<tx2, listener, listener_s2c, sent, consumed>>
    BY <1>1, <1>6, Channels DEF RouterFromTalker, InSelect, AtRouter, history
  <2> HIDE DEF m
  <2>2. c = d
    BY <1>3, <1>4, <2>1, OrderEmpty
  <2>3. /\ IsMine(m, sid) => m.n = d + 1
        /\ After(m, sid, d) \in d .. sent[sid]
        /\ InOrder(Tail(talker_s2c), sid, After(m, sid, d), sent[sid])
    BY <1>3, <1>4, <2>1, OrderHead DEF m
  <2>4. After(m, sid, d) \in Nat
    BY <1>4 DEF After
  <2>5. InOrder(<<m>>, sid, c, After(m, sid, d))
    BY <1>4, <2>2, <2>3, <2>4, OrderOne
  <2>6. AtListener(sid)' = AtListener(sid)
    BY <2>1 DEF AtListener
  <2> QED
    BY <1>3, <1>4, <2>1, <2>3, <2>4, <2>5, <2>6, DownTo
<1>7. CASE RouterSends
  <2>1. UNCHANGED <<tx2, listener, talker_s2c, sent, consumed>> /\ AtRouter("to_listener")' = <<>>
    BY <1>7 DEF RouterSends, AtRouter, history
  <2>2. AtListener(sid)' = AtListener(sid)
    BY <2>1 DEF AtListener
  <2>3. CASE router.pc = "to_talker"
    <3>1. AtRouter("to_listener") = <<>> /\ listener_s2c' = listener_s2c
      BY <1>7, <2>3 DEF RouterSends, AtRouter
    <3> QED
      BY <1>5, <2>1, <2>2, <3>1
  <2>4. CASE router.pc = "to_listener"
    <3> DEFINE m == router.msg
    <3>1. /\ AtRouter("to_listener") = <<m>> /\ listener_s2c' = Append(listener_s2c, m)
          /\ m \in Events /\ listener_s2c \in Seq(Events)
      BY <1>1, <1>2, <1>7, <2>4, Channels DEF RouterSends, AtRouter, TasksOK
    <3> HIDE DEF m
    <3>2. d = After(m, sid, c) /\ (IsMine(m, sid) => m.n = c + 1)
      BY <1>3, <1>4, <3>1, OrderOne
    <3>3. InOrder(listener_s2c', sid, b, d)
      BY <1>3, <1>4, <3>1, <3>2, OrderPush
    <3>4. InOrder(<<>>, sid, d, d)
      BY <1>4, OrderEmpty
    <3> QED
      BY <1>3, <1>4, <2>1, <2>2, <3>3, <3>4, DownTo
  <2> QED
    BY <1>7, <2>3, <2>4 DEF RouterSends
<1>8. CASE RouterStops
  <2>1. /\ UNCHANGED <<tx2, listener, talker_s2c, sent, consumed>>
        /\ AtRouter("to_listener") = <<>> /\ AtRouter("to_listener")' = <<>>
    BY <1>1, <1>8 DEF RouterStops, AtRouter, TypeOK, history
  <2>2. AtListener(sid)' = AtListener(sid)
    BY <2>1 DEF AtListener
  <2>3. CASE listener_s2c' = listener_s2c
    BY <1>5, <2>1, <2>2, <2>3
  <2>4. CASE listener_s2c' = Append(listener_s2c, Shutdown)
    <3>1. listener_s2c \in Seq(Events) /\ Shutdown \in Events
      BY <1>1, Channels, MessageTypes
    <3>2. After(Shutdown, sid, c) = c /\ ~ IsMine(Shutdown, sid)
      BY NotMine
    <3>3. InOrder(Append(listener_s2c, Shutdown), sid, b, After(Shutdown, sid, c))
      BY <1>3, <1>4, <3>1, <3>2, OrderPush
    <3>4. InOrder(listener_s2c', sid, b, c)
      BY <2>4, <3>2, <3>3
    <3> QED
      BY <1>3, <1>4, <2>1, <2>2, <3>4, DownTo
  <2> QED
    BY <1>8, <2>3, <2>4 DEF RouterStops
<1>9. CASE TalkerSends
  <2>1. PICK x \in UserID, kind \in Kinds : SendUni(x, kind)
    <3>1. TalkerT
      BY <1>1, TypesInParts
    <3> QED
      BY <1>9, <3>1 DEF TalkerSends, TalkerT, NoReply, Kinds
  <2> DEFINE m == Event(x, sent[x] + 1, kind)
  <2>2. /\ talker_s2c' = Append(talker_s2c, m) /\ sent' = [sent EXCEPT ![x] = @ + 1]
        /\ UNCHANGED <<tx2, listener_s2c, router, listener, consumed>>
    BY <1>9, <2>1 DEF SendUni, TalkerSends
  <2>3. talker_s2c \in Seq(Events) /\ m \in Events
    <3>1. sent[x] + 1 \in Nat
      BY <1>1 DEF HistoryT
    <3> QED
      BY <1>1, <3>1, Channels, MessageTypes
  <2>4. IsMine(m, sid) <=> sid = x
    BY DEF IsMine, Event
  <2>5. m.n = sent[x] + 1
    BY DEF Event
  <2> HIDE DEF m
  <2>6. sent'[sid] = After(m, sid, sent[sid])
    BY <1>1, <2>2, <2>4 DEF After, HistoryT
  <2>7. InOrder(talker_s2c', sid, d, sent'[sid])
    BY <1>3, <1>4, <2>2, <2>3, <2>4, <2>5, <2>6, OrderPush
  <2>8. UNCHANGED <<AtListener(sid), AtRouter("to_listener")>>
    BY <2>2 DEF AtListener, AtRouter
  <2> QED
    BY <1>3, <1>4, <2>2, <2>7, <2>8, DownTo
<1>10. CASE ListenerRecv
  <2> DEFINE m    == Head(listener_s2c)
             sids == IF m.op = "Event" THEN {m.sid} \cap connections ELSE connections
  <2>1. /\ listener_s2c \in Seq(Events) /\ listener_s2c # <<>> /\ listener_s2c' = Tail(listener_s2c)
        /\ UNCHANGED <<tx2, router, talker_s2c, sent, consumed>>
        /\ ListenerSending(m, sids) /\ AtListener(sid) = <<>>
    BY <1>1, <1>10, Channels DEF ListenerRecv, ListenerSelects, AtListener, TasksOK, history
  <2>2. IsMine(m, sid) => (sid \in sids <=> sid \in connections)
    BY DEF IsMine
  <2> HIDE DEF m, sids
  <2>3. a = b
    BY <1>3, <1>4, <2>1, OrderEmpty
  <2>4. /\ IsMine(m, sid) => m.n = b + 1
        /\ After(m, sid, b) \in b .. c
        /\ InOrder(Tail(listener_s2c), sid, After(m, sid, b), c)
    BY <1>3, <1>4, <2>1, OrderHead DEF m
  <2>5. After(m, sid, b) \in Nat
    BY <1>4 DEF After
  <2>6. AtRouter("to_listener")' = AtRouter("to_listener")
    BY <2>1 DEF AtRouter
  <2>7. AtListener(sid)' = IF sid \in sids THEN <<m>> ELSE <<>>
    BY <2>1 DEF AtListener, ListenerSending
  <2>8. CASE sid \in sids
    <3>1. InOrder(<<m>>, sid, a, After(m, sid, b))
      BY <1>4, <2>3, <2>4, <2>5, OrderOne
    <3> QED
      BY <1>3, <1>4, <2>1, <2>4, <2>5, <2>6, <2>7, <2>8, <3>1, DownTo
  <2>9. CASE sid \notin sids
    <3>1. ~ IsMine(m, sid)
      <4> SUFFICES ASSUME IsMine(m, sid) PROVE FALSE
        OBVIOUS
      <4>1. conn[sid].pc = "none"
        BY <1>1, <2>2, <2>9 DEF ConnT
      <4>2. sent[sid] = 0
        BY <1>1, <4>1 DEF HandlerOK
      <4>3. b + 1 <= c /\ c <= 0
        BY <1>3, <1>4, <2>4, <4>2 DEF After
      <4> QED
        BY <1>4, <4>3
    <3>2. After(m, sid, b) = b
      BY <3>1 DEF After
    <3>3. InOrder(<<>>, sid, a, b)
      BY <1>4, <2>3, OrderEmpty
    <3> QED
      BY <1>3, <1>4, <2>1, <2>4, <2>6, <2>7, <2>9, <3>2, <3>3, DownTo
  <2> QED
    BY <2>8, <2>9
<1>11. CASE ListenerPings
  <2>1. /\ UNCHANGED <<tx2, router, listener_s2c, talker_s2c, sent, consumed>>
        /\ AtListener(sid) = <<>> /\ ListenerSending(Keepalive, connections)
    BY <1>1, <1>11 DEF ListenerPings, ListenerSelects, AtListener, TasksOK, downward, history
  <2>2. AtListener(sid)' = <<>> \/ AtListener(sid)' = <<Keepalive>>
    BY <2>1 DEF AtListener, ListenerSending
  <2>3. a = b
    BY <1>3, <1>4, <2>1, OrderEmpty
  <2>4. InOrder(<<>>, sid, a, b) /\ InOrder(<<Keepalive>>, sid, a, b)
    <3>1. InOrder(<<>>, sid, a, b)
      BY <1>4, <2>3, OrderEmpty
    <3>2. b = After(Keepalive, sid, a) /\ ~ IsMine(Keepalive, sid)
      BY <2>3, NotMine
    <3>3. InOrder(<<Keepalive>>, sid, a, b)
      BY <1>4, <3>2, OrderOne
    <3> QED
      BY <3>1, <3>3
  <2>5. AtRouter("to_listener")' = AtRouter("to_listener")
    BY <2>1 DEF AtRouter
  <2> QED
    BY <1>3, <1>4, <2>1, <2>2, <2>4, <2>5, DownTo
<1>12. ASSUME NEW x \in UserID, ListenerSends(x) PROVE DownOrder(sid)'
  <2>1. /\ UNCHANGED <<router, listener_s2c, talker_s2c, sent, consumed, conn>>
        /\ ListenerSending(listener.msg, listener.pending \ {x}) /\ x \in listener.pending
        /\ listener.pc = "send"
    BY <1>12 DEF ListenerSends, history
  <2>2. AtRouter("to_listener")' = AtRouter("to_listener")
    BY <2>1 DEF AtRouter
  <2>3. CASE sid # x
    <3>1. AtListener(sid)' = AtListener(sid)
      BY <2>1, <2>3 DEF AtListener, ListenerSending
    <3>2. tx2'[sid] = tx2[sid]
      BY <1>1, <1>12, <2>3 DEF ListenerSends, TxT
    <3> QED
      BY <1>5, <2>1, <2>2, <3>1, <3>2
  <2>4. CASE sid = x
    <3> DEFINE m == listener.msg
    <3>1. AtListener(sid) = <<m>> /\ AtListener(sid)' = <<>>
      BY <2>1, <2>4 DEF AtListener, ListenerSending
    <3>2. Open(sid)
      <4>1. conn[sid].pc # "none"
        BY <1>1, <2>1, <2>4 DEF TypeOK
      <4> QED
        BY <1>2, <4>1 DEF Open, Unclosed
    <3>3. tx2'[sid] = Append(tx2[sid], m) /\ tx2[sid] \in Seq(Events) /\ m \in Events
      BY <1>1, <1>12, <2>1, <2>4, <3>2 DEF ListenerSends, TxT, TasksOK
    <3> HIDE DEF m
    <3>4. b = After(m, sid, a) /\ (IsMine(m, sid) => m.n = a + 1)
      BY <1>3, <1>4, <3>1, OrderOne
    <3>5. InOrder(tx2'[sid], sid, consumed[sid], b)
      BY <1>3, <1>4, <3>3, <3>4, OrderPush
    <3>6. InOrder(<<>>, sid, b, b)
      BY <1>4, OrderEmpty
    <3> QED
      BY <1>3, <1>4, <2>1, <2>2, <3>1, <3>5, <3>6, DownTo
  <2> QED
    BY <2>3, <2>4
<1>13. ASSUME NEW x \in UserID, HandlerRecv(x) PROVE DownOrder(sid)'
  <2>1. UNCHANGED <<router, listener, listener_s2c, talker_s2c, sent>>
    BY <1>13 DEF HandlerRecv, connUnchanged
  <2>2. UNCHANGED <<AtListener(sid), AtRouter("to_listener")>>
    BY <2>1 DEF AtListener, AtRouter
  <2>3. CASE sid # x
    <3>1. tx2'[sid] = tx2[sid] /\ consumed'[sid] = consumed[sid]
      BY <1>1, <1>13, <2>3 DEF HandlerRecv, TxT, HistoryT
    <3> QED
      BY <1>5, <2>1, <2>2, <3>1
  <2>4. CASE sid = x
    <3> DEFINE m == Head(tx2[sid])
               h == Written(conn[sid], m)
    <3>1. tx2[sid] # <<>> /\ tx2[sid] \in Seq(Events) /\ conn'[sid] = h
      BY <1>1, <1>13, <2>4 DEF HandlerRecv, TxT, ConnT
    <3>2. h # Left
      BY <3>1 DEF Unclosed, Left, NewHandler
    <3>3. tx2'[sid] = Tail(tx2[sid])
      BY <1>1, <1>13, <2>4, <3>2 DEF HandlerRecv, TxT
    <3>4. consumed'[sid] = IF m.op = "Event" THEN m.n ELSE consumed[sid]
      BY <1>1, <1>13, <2>4 DEF HandlerRecv, HistoryT
    <3>5. m.op = "Event" => IsMine(m, sid)
      <4>1. 1 \in DOMAIN tx2[sid] /\ m = tx2[sid][1]
        BY <3>1, HeadOf
      <4> QED
        BY <1>1, <4>1 DEF HandlerOK, IsMine
    <3> HIDE DEF m, h
    <3>6. /\ IsMine(m, sid) => m.n = consumed[sid] + 1
          /\ InOrder(Tail(tx2[sid]), sid, After(m, sid, consumed[sid]), a)
      BY <1>3, <1>4, <3>1, OrderHead DEF m
    <3>7. consumed'[sid] = After(m, sid, consumed[sid])
      BY <3>4, <3>5, <3>6 DEF After, IsMine
    <3> QED
      BY <1>3, <1>4, <2>1, <2>2, <3>3, <3>6, <3>7, DownTo
  <2> QED
    BY <2>3, <2>4
<1>14. ASSUME NEW x \in UserID, ConnSends(x) \/ WriteDone(x) \/ HandlerReads(x) \/ ClientLeaves(x)
       PROVE  DownOrder(sid)'
  <2>1. UNCHANGED <<router, listener, listener_s2c, talker_s2c, sent, consumed>>
    BY <1>14 DEF ConnSends, WriteDone, HandlerReads, ClientLeaves, connUnchanged, history
  <2>2. UNCHANGED <<AtListener(sid), AtRouter("to_listener")>>
    BY <2>1 DEF AtListener, AtRouter
  <2>3. tx2'[sid] = tx2[sid]
    <3>1. CASE ConnSends(x) \/ WriteDone(x)
      BY <3>1 DEF ConnSends, WriteDone
    <3>2. CASE HandlerReads(x)
      BY <1>1, <3>2 DEF HandlerReads, Becomes, TxT
    <3>3. CASE ClientLeaves(x)
      <4>1. sid # x
        <5> SUFFICES ASSUME sid = x PROVE FALSE
          OBVIOUS
        <5>1. conn'[sid] = Left
          BY <1>1, <3>3 DEF ClientLeaves, Becomes, ConnT
        <5> QED
          BY <5>1 DEF Unclosed, Left, NewHandler
      <4> QED
        BY <1>1, <3>3, <4>1 DEF ClientLeaves, Becomes, TxT
    <3> QED
      BY <1>14, <3>1, <3>2, <3>3
  <2> QED
    BY <1>5, <2>1, <2>2, <2>3
<1>15. CASE RouterFromListener \/ RouterBreaks
  <2>1. UNCHANGED <<tx2, listener, listener_s2c, talker_s2c, sent, consumed>>
    BY <1>15 DEF RouterFromListener, RouterBreaks, downward, history
  <2>2. AtRouter("to_listener") = <<>> /\ AtRouter("to_listener")' = <<>>
    BY <1>1, <1>15 DEF RouterFromListener, RouterBreaks, InSelect, AtRouter, TypeOK
  <2> QED
    BY <1>5, <2>1, <2>2 DEF AtListener
<1>16. CASE RouterDone
  BY <1>2, <1>16 DEF RouterDone
<1>17. CASE TalkerRecv \/ TalkerTick \/ ListenerAccepts \/ HandshakeFails \/ Register
  BY <1>5, <1>17 DEF TalkerRecv, TalkerTick, ListenerAccepts, HandshakeFails, Register,
     AtListener, AtRouter, downward, history
<1>18. CASE ListenerBinds
  <2>1. UNCHANGED <<tx2, router, listener_s2c, talker_s2c, sent, consumed>>
        /\ listener.pending = {} /\ listener'.pending = {}
    BY <1>1, <1>18 DEF ListenerBinds, TasksOK, TypeOK, downward, history
  <2> QED
    BY <1>5, <2>1 DEF AtListener, AtRouter
<1> QED
  BY <1>6, <1>7, <1>8, <1>9, <1>10, <1>11, <1>12, <1>13, <1>14, <1>15, <1>16, <1>17, <1>18
     DEF Next, Internal, Outside, Router, Talker, Listener, Connection
------------------------------------------------------------------------------
(* What is underway. *)

Reply(sid) == One(talker.reply = [sid |-> sid, kind |-> "answer"])

\* The load of a client when all but some of its terms stay.
LEMMA LoadIs ==
    ASSUME NEW sid
    PROVE  /\ Load(sid) =
                One(conn[sid].rid) + Reply(sid) + Count(talker_c2s, sid)
                + Count(AtRouter("to_talker"), sid) + Count(listener_c2s, sid)
                + Count(tx2[sid], sid) + Count(AtListener(sid), sid) + Count(listener_s2c, sid)
                + Count(AtRouter("to_listener"), sid) + Count(talker_s2c, sid)
           /\ Load(sid)' =
                One(conn'[sid].rid) + Reply(sid)' + Count(talker_c2s', sid)
                + Count(AtRouter("to_talker")', sid) + Count(listener_c2s', sid)
                + Count(tx2'[sid], sid) + Count(AtListener(sid)', sid) + Count(listener_s2c', sid)
                + Count(AtRouter("to_listener")', sid) + Count(talker_s2c', sid)
  BY DEF Load, Reply

LEMMA Terms ==
    ASSUME TypeOK, TypeOK', NEW sid \in UserID
    PROVE  /\ One(conn[sid].rid) \in {0, 1} /\ Reply(sid) \in {0, 1}
           /\ Count(talker_c2s, sid) \in Nat /\ Count(AtRouter("to_talker"), sid) \in Nat
           /\ Count(listener_c2s, sid) \in Nat /\ Count(tx2[sid], sid) \in Nat
           /\ Count(AtListener(sid), sid) \in Nat /\ Count(listener_s2c, sid) \in Nat
           /\ Count(AtRouter("to_listener"), sid) \in Nat /\ Count(talker_s2c, sid) \in Nat
           /\ One(conn'[sid].rid) \in {0, 1} /\ Reply(sid)' \in {0, 1}
           /\ Count(talker_c2s', sid) \in Nat /\ Count(AtRouter("to_talker")', sid) \in Nat
           /\ Count(listener_c2s', sid) \in Nat /\ Count(tx2'[sid], sid) \in Nat
           /\ Count(AtListener(sid)', sid) \in Nat /\ Count(listener_s2c', sid) \in Nat
           /\ Count(AtRouter("to_listener")', sid) \in Nat /\ Count(talker_s2c', sid) \in Nat
           /\ owed[sid] \in Nat /\ owed'[sid] \in Nat
<1>1. /\ AtRouter("to_talker") \in Seq({router.msg}) /\ AtRouter("to_listener") \in Seq({router.msg})
      /\ AtListener(sid) \in Seq({listener.msg})
  BY InHand DEF AtRouter, AtListener
<1>2. /\ AtRouter("to_talker")' \in Seq({router'.msg})
      /\ AtRouter("to_listener")' \in Seq({router'.msg}) /\ AtListener(sid)' \in Seq({listener'.msg})
  BY InHand DEF AtRouter, AtListener
<1>3. /\ listener_c2s \in Seq(Ops) /\ talker_c2s \in Seq(Ops \cup {Shutdown})
      /\ talker_s2c \in Seq(Events) /\ listener_s2c \in Seq(Events) /\ tx2[sid] \in Seq(Events)
  BY DEF TypeOK, Bounded
<1>4. /\ listener_c2s' \in Seq(Ops) /\ talker_c2s' \in Seq(Ops \cup {Shutdown})
      /\ talker_s2c' \in Seq(Events) /\ listener_s2c' \in Seq(Events) /\ tx2'[sid] \in Seq(Events)
  BY DEF TypeOK, Bounded
<1>5. owed[sid] \in Nat /\ owed'[sid] \in Nat
  BY DEF TypeOK
<1> QED
  BY <1>1, <1>2, <1>3, <1>4, <1>5, CountFinite, OneIs DEF Reply

LEMMA NotCounted == \A sid : One(HasId(Shutdown, sid)) = 0 /\ One(HasId(Keepalive, sid)) = 0
  BY DEF HasId, Shutdown, Keepalive, One

LEMMA EventCounted ==
    ASSUME NEW m \in Events, NEW sid
    PROVE  HasId(m, sid) <=> m.op = "Event" /\ m.sid = sid /\ m.kind = "answer"
  BY MessageTypes DEF HasId

LEMMA OpCounted ==
    ASSUME NEW m \in Ops \cup {Shutdown}, NEW sid
    PROVE  HasId(m, sid) <=> m.op = "Request" /\ m.sid = sid /\ m.rid
  BY MessageTypes DEF HasId, Shutdown

\* Nothing is on its way to a connection that is not there yet.
LEMMA NoneYet ==
    ASSUME IInv, ListenerRuns, NEW sid \in UserID, conn[sid].pc = "none", listener_s2c # <<>>
    PROVE  ~ IsMine(Head(listener_s2c), sid)
<1>1. TypeOK /\ HandlerOK(sid) /\ DownOrder(sid)
  BY DEF IInv, Inv1, Inv3, Unclosed
<1>2. sent[sid] = 0
  BY <1>1 DEF HandlerOK
<1>3. PICK b, c \in 0 .. 0 : InOrder(listener_s2c, sid, b, c)
  BY <1>1, <1>2 DEF DownOrder
<1>4. After(Head(listener_s2c), sid, b) \in b .. c
  BY <1>1, <1>3, Channels, OrderHead
<1> QED
  BY <1>3, <1>4 DEF After

LEMMA KeptNext == ASSUME IInv, Next, NEW sid \in UserID PROVE Kept(sid)'
<1> DEFINE Goal == /\ Load(sid)' <= owed'[sid]
                   /\ TalkerRuns' /\ ListenerRuns' => Load(sid)' = owed'[sid]
<1> SUFFICES ASSUME Unclosed(sid)' PROVE Goal
  BY DEF Kept
<1>1. TypeOK /\ TasksOK /\ HandlerOK(sid) /\ ConnT /\ TxT /\ HistoryT
  BY TypesInParts DEF IInv, Inv1
<1>2. /\ TypeOK' /\ Unclosed(sid) /\ (TalkerRuns' => TalkerRuns) /\ (ListenerRuns' => ListenerRuns)
      /\ conn[sid].pc # "none" => conn'[sid].pc # "none"
  BY <1>1, TypesNext, StayDown, StayClosed
<1>3. Load(sid) <= owed[sid] /\ (TalkerRuns /\ ListenerRuns => Load(sid) = owed[sid])
  BY <1>2 DEF IInv, Inv4, Kept
<1>4. ASSUME Load(sid)' - owed'[sid] = Load(sid) - owed[sid] PROVE Goal
  <2>1. Load(sid) \in Int /\ Load(sid)' \in Int /\ owed[sid] \in Int /\ owed'[sid] \in Int
    BY <1>1, <1>2, LoadIs, Terms
  <2> QED
    BY <1>2, <1>3, <1>4, <2>1
<1>5. ASSUME UNCHANGED <<conn[sid].rid, Reply(sid), talker_c2s, AtRouter("to_talker"), listener_c2s,
                         tx2[sid], AtListener(sid), listener_s2c, AtRouter("to_listener"), talker_s2c,
                         owed[sid]>>
      PROVE  Goal
  BY <1>4, <1>5, LoadIs
<1> HIDE DEF Goal
<1>6. CASE RouterFromTalker
  <2> DEFINE m == Head(talker_s2c)
  <2>1. /\ AtRouter("to_listener") = <<>> /\ AtRouter("to_listener")' = <<m>>
        /\ AtRouter("to_talker")' = AtRouter("to_talker")
        /\ talker_s2c \in Seq(Events) /\ talker_s2c # <<>> /\ talker_s2c' = Tail(talker_s2c)
    BY <1>1, <1>6, Channels DEF RouterFromTalker, InSelect, AtRouter
  <2>2. UNCHANGED <<conn[sid].rid, Reply(sid), talker_c2s, listener_c2s,
                    tx2[sid], AtListener(sid), listener_s2c, owed[sid]>>
    BY <1>6 DEF RouterFromTalker, Reply, AtListener, upward, history
  <2>3. Count(talker_s2c, sid) = One(HasId(m, sid)) + Count(talker_s2c', sid)
    BY <2>1, CountHead
  <2>4. /\ Count(AtRouter("to_listener"), sid) = 0
        /\ Count(AtRouter("to_listener")', sid) = One(HasId(m, sid))
    BY <2>1, CountEmpty, CountOne
  <2>5. Count(AtRouter("to_talker")', sid) = Count(AtRouter("to_talker"), sid)
    BY <2>1
  <2> HIDE DEF m
  <2>6. Load(sid)' - owed'[sid] = Load(sid) - owed[sid]
    BY <1>1, <1>2, <2>2, <2>3, <2>4, <2>5, LoadIs, Terms
  <2> QED
    BY <1>4, <2>6
<1>7. CASE RouterFromListener
  <2> DEFINE m == Head(listener_c2s)
  <2>1. /\ AtRouter("to_talker") = <<>> /\ AtRouter("to_talker")' = <<m>>
        /\ AtRouter("to_listener")' = AtRouter("to_listener")
        /\ listener_c2s \in Seq(Ops) /\ listener_c2s # <<>> /\ listener_c2s' = Tail(listener_c2s)
    BY <1>1, <1>7, Channels DEF RouterFromListener, InSelect, AtRouter
  <2>2. UNCHANGED <<conn[sid].rid, Reply(sid), talker_c2s, talker_s2c,
                    tx2[sid], AtListener(sid), listener_s2c, owed[sid]>>
    BY <1>7 DEF RouterFromListener, Reply, AtListener, downward, history
  <2>3. Count(listener_c2s, sid) = One(HasId(m, sid)) + Count(listener_c2s', sid)
    BY <2>1, CountHead
  <2>4. /\ Count(AtRouter("to_talker"), sid) = 0
        /\ Count(AtRouter("to_talker")', sid) = One(HasId(m, sid))
    BY <2>1, CountEmpty, CountOne
  <2>5. Count(AtRouter("to_listener")', sid) = Count(AtRouter("to_listener"), sid)
    BY <2>1
  <2> HIDE DEF m
  <2>6. Load(sid)' - owed'[sid] = Load(sid) - owed[sid]
    BY <1>1, <1>2, <2>2, <2>3, <2>4, <2>5, LoadIs, Terms
  <2> QED
    BY <1>4, <2>6
<1>8. CASE RouterSends
  <2> DEFINE m == router.msg
  <2>1. UNCHANGED <<conn[sid].rid, Reply(sid), listener_c2s, talker_s2c,
                    tx2[sid], AtListener(sid), owed[sid]>>
    BY <1>8 DEF RouterSends, Reply, AtListener, history
  <2>2. /\ Count(AtRouter("to_talker")', sid) = 0 /\ Count(AtRouter("to_listener")', sid) = 0
    <3>1. AtRouter("to_talker")' = <<>> /\ AtRouter("to_listener")' = <<>>
      BY <1>8 DEF RouterSends, AtRouter
    <3> QED
      BY <3>1, CountEmpty
  <2>3. CASE router.pc = "to_listener"
    <3>1. /\ AtRouter("to_listener") = <<m>> /\ AtRouter("to_talker") = <<>>
          /\ m \in Events /\ listener_s2c \in Seq(Events) /\ talker_c2s' = talker_c2s
          /\ listener_s2c' = IF ListenerRuns THEN Append(listener_s2c, m) ELSE listener_s2c
      BY <1>1, <1>8, <2>3, Channels DEF RouterSends, AtRouter, TasksOK
    <3> HIDE DEF m
    <3>2. /\ Count(AtRouter("to_listener"), sid) = One(HasId(m, sid))
          /\ Count(AtRouter("to_talker"), sid) = 0
      BY <3>1, CountOne, CountEmpty
    <3>3. Count(talker_c2s', sid) = Count(talker_c2s, sid)
      BY <3>1
    <3>4. CASE ListenerRuns
      <4>1. Count(listener_s2c', sid) = Count(listener_s2c, sid) + One(HasId(m, sid))
        BY <3>1, <3>4, CountPush
      <4>2. Load(sid)' - owed'[sid] = Load(sid) - owed[sid]
        BY <1>1, <1>2, <2>1, <2>2, <3>2, <3>3, <4>1, LoadIs, Terms
      <4> QED
        BY <1>4, <4>2
    <3>5. CASE ~ ListenerRuns
      <4>1. Count(listener_s2c', sid) = Count(listener_s2c, sid)
        BY <3>1, <3>5
      <4>2. Load(sid)' <= Load(sid) /\ Load(sid) \in Int /\ Load(sid)' \in Int
        BY <1>1, <1>2, <2>1, <2>2, <3>2, <3>3, <4>1, LoadIs, Terms
      <4>3. owed'[sid] = owed[sid] /\ owed[sid] \in Int
        BY <1>1, <1>2, <2>1, Terms
      <4> QED
        BY <1>2, <1>3, <3>5, <4>2, <4>3 DEF Goal
    <3> QED
      BY <3>4, <3>5
  <2>4. CASE router.pc = "to_talker"
    <3>1. /\ AtRouter("to_talker") = <<m>> /\ AtRouter("to_listener") = <<>>
          /\ m \in Ops \cup {Shutdown} /\ talker_c2s \in Seq(Ops \cup {Shutdown})
          /\ listener_s2c' = listener_s2c
          /\ talker_c2s' = IF TalkerRuns THEN Append(talker_c2s, m) ELSE talker_c2s
      BY <1>1, <1>8, <2>4, Channels DEF RouterSends, AtRouter, TasksOK
    <3> HIDE DEF m
    <3>2. /\ Count(AtRouter("to_talker"), sid) = One(HasId(m, sid))
          /\ Count(AtRouter("to_listener"), sid) = 0
      BY <3>1, CountOne, CountEmpty
    <3>3. Count(listener_s2c', sid) = Count(listener_s2c, sid)
      BY <3>1
    <3>4. CASE TalkerRuns
      <4>1. Count(talker_c2s', sid) = Count(talker_c2s, sid) + One(HasId(m, sid))
        BY <3>1, <3>4, CountPush
      <4>2. Load(sid)' - owed'[sid] = Load(sid) - owed[sid]
        BY <1>1, <1>2, <2>1, <2>2, <3>2, <3>3, <4>1, LoadIs, Terms
      <4> QED
        BY <1>4, <4>2
    <3>5. CASE ~ TalkerRuns
      <4>1. Count(talker_c2s', sid) = Count(talker_c2s, sid)
        BY <3>1, <3>5
      <4>2. Load(sid)' <= Load(sid) /\ Load(sid) \in Int /\ Load(sid)' \in Int
        BY <1>1, <1>2, <2>1, <2>2, <3>2, <3>3, <4>1, LoadIs, Terms
      <4>3. owed'[sid] = owed[sid] /\ owed[sid] \in Int
        BY <1>1, <1>2, <2>1, Terms
      <4> QED
        BY <1>2, <1>3, <3>5, <4>2, <4>3 DEF Goal
    <3> QED
      BY <3>4, <3>5
  <2> QED
    BY <1>8, <2>3, <2>4 DEF RouterSends
<1>9. CASE RouterStops
  <2>1. /\ AtRouter("to_talker") = <<>> /\ AtRouter("to_listener") = <<>>
        /\ AtRouter("to_talker")' = <<>> /\ AtRouter("to_listener")' = <<>>
        /\ UNCHANGED <<conn[sid].rid, Reply(sid), listener_c2s, talker_s2c,
                       tx2[sid], AtListener(sid), owed[sid]>>
    BY <1>1, <1>9 DEF RouterStops, AtRouter, Reply, AtListener, TypeOK, history
  <2>2. \/ listener_s2c' = listener_s2c /\ talker_c2s' = talker_c2s
        \/ listener_s2c' = Append(listener_s2c, Shutdown) /\ talker_c2s' = talker_c2s
        \/ talker_c2s' = Append(talker_c2s, Shutdown) /\ listener_s2c' = listener_s2c
    BY <1>9 DEF RouterStops
  <2>3. Count(Append(listener_s2c, Shutdown), sid) = Count(listener_s2c, sid)
    <3>1. listener_s2c \in Seq(Events) /\ Shutdown \in Events
      BY <1>1, Channels, MessageTypes
    <3>2. Count(listener_s2c, sid) \in Nat
      BY <3>1, CountFinite
    <3> QED
      BY <3>1, <3>2, CountPush, NotCounted
  <2>4. Count(Append(talker_c2s, Shutdown), sid) = Count(talker_c2s, sid)
    <3>1. talker_c2s \in Seq(Ops \cup {Shutdown}) /\ Shutdown \in Ops \cup {Shutdown}
      BY <1>1, Channels
    <3>2. Count(talker_c2s, sid) \in Nat
      BY <3>1, CountFinite
    <3> QED
      BY <3>1, <3>2, CountPush, NotCounted
  <2> QED
    BY <1>4, <2>1, <2>2, <2>3, <2>4, LoadIs
<1>10. CASE RouterDone
  <2>1. /\ ~ TalkerRuns /\ conn'[sid].rid = FALSE /\ tx2'[sid] = <<>>
        /\ UNCHANGED <<Reply(sid), talker_c2s, listener_c2s, AtListener(sid), listener_s2c,
                       talker_s2c, owed[sid]>>
        /\ AtRouter("to_talker") = <<>> /\ AtRouter("to_listener") = <<>>
        /\ AtRouter("to_talker")' = <<>> /\ AtRouter("to_listener")' = <<>>
    BY <1>1, <1>10 DEF RouterDone, TasksOK, NewHandler, AtRouter, Reply, AtListener, TypeOK,
       upward, history
  <2>2. One(conn'[sid].rid) = 0 /\ Count(tx2'[sid], sid) = 0
    BY <2>1, CountEmpty DEF One
  <2>3. /\ Reply(sid)' = Reply(sid)
        /\ Count(talker_c2s', sid) = Count(talker_c2s, sid)
        /\ Count(listener_c2s', sid) = Count(listener_c2s, sid)
        /\ Count(AtListener(sid)', sid) = Count(AtListener(sid), sid)
        /\ Count(listener_s2c', sid) = Count(listener_s2c, sid)
        /\ Count(talker_s2c', sid) = Count(talker_s2c, sid)
        /\ Count(AtRouter("to_talker")', sid) = Count(AtRouter("to_talker"), sid)
        /\ Count(AtRouter("to_listener")', sid) = Count(AtRouter("to_listener"), sid)
    BY <2>1
  <2>4. Load(sid)' <= Load(sid) /\ Load(sid) \in Int /\ Load(sid)' \in Int
    BY <1>1, <1>2, <2>2, <2>3, LoadIs, Terms
  <2>5. owed[sid] \in Int /\ owed'[sid] = owed[sid]
    BY <1>1, <1>2, <2>1, Terms
  <2> QED
    BY <1>2, <1>3, <2>1, <2>4, <2>5 DEF Goal
<1>11. CASE TalkerRecv
  <2> DEFINE m == Head(talker_c2s)
  <2>1. /\ talker_c2s \in Seq(Ops \cup {Shutdown}) /\ talker_c2s # <<>>
        /\ talker_c2s' = Tail(talker_c2s) /\ m \in Ops \cup {Shutdown} /\ talker.reply = NoReply
    BY <1>1, <1>11, Channels, HeadOf DEF TalkerRecv, TalkerReady
  <2>2. UNCHANGED <<conn[sid].rid, AtRouter("to_talker"), listener_c2s, tx2[sid],
                     AtListener(sid), listener_s2c, AtRouter("to_listener"), talker_s2c, owed[sid]>>
    BY <1>11 DEF TalkerRecv, AtRouter, AtListener, downward
  <2>3. Count(talker_c2s, sid) = One(HasId(m, sid)) + Count(talker_c2s', sid)
    BY <2>1, CountHead
  <2>4. Reply(sid) = 0
    <3>1. NoReply.kind = "none" /\ [sid |-> sid, kind |-> "answer"].kind = "answer"
      BY DEF NoReply
    <3> QED
      BY <2>1, <3>1 DEF Reply, One
  <2> HIDE DEF m
  <2>5. CASE Reply(sid)' = One(HasId(m, sid))
    <3>1. Load(sid)' - owed'[sid] = Load(sid) - owed[sid]
      BY <1>1, <1>2, <2>3, <2>4, <2>5, <2>2, LoadIs, Terms
    <3> QED
      BY <1>4, <3>1
  <2>6. CASE talker'.reply = NoReply /\ ~ TalkerRuns'
    <3>1. Reply(sid)' = 0
      BY <2>1, <2>4, <2>6 DEF Reply
    <3>2. Load(sid)' <= Load(sid) /\ Load(sid) \in Int /\ Load(sid)' \in Int
      BY <1>1, <1>2, <2>3, <2>4, <2>2, <3>1, OneIs, LoadIs, Terms
    <3>3. owed'[sid] = owed[sid] /\ owed[sid] \in Int
      BY <1>1, <1>2, <2>2, Terms
    <3> QED
      BY <1>3, <2>6, <3>2, <3>3 DEF Goal
  <2>7. CASE talker' = [talker EXCEPT !.pc = "exited"]
    BY <1>1, <2>1, <2>6, <2>7 DEF TypeOK, TalkerRuns
  <2>8. CASE talker'.reply = NoReply /\ m.op # "Request"
    <3>1. Reply(sid)' = 0
      BY <2>1, <2>4, <2>8 DEF Reply
    <3>2. One(HasId(m, sid)) = 0
      BY <2>1, <2>8, OpCounted DEF One
    <3> QED
      BY <2>5, <3>1, <3>2
  <2>9. ASSUME NEW out, NEW kind \in IF m.rid THEN {"answer"} ELSE {"silence", "refusal"},
               m.op = "Request",
               talker' = [talker EXCEPT !.out = out, !.reply = [sid |-> m.sid, kind |-> kind]]
        PROVE  Goal
    <3> DEFINE r == [sid |-> m.sid, kind |-> kind]
               q == [sid |-> sid, kind |-> "answer"]
    <3>1. r = q <=> m.sid = sid /\ kind = "answer"
      <4>1. r.sid = m.sid /\ r.kind = kind /\ q.sid = sid /\ q.kind = "answer"
        OBVIOUS
      <4>2. m.sid = sid /\ kind = "answer" => r = q
        OBVIOUS
      <4> HIDE DEF r, q
      <4> QED
        BY <4>1, <4>2
    <3>2. kind = "answer" <=> m.rid
      BY <2>9
    <3>3. r = q <=> HasId(m, sid)
      BY <2>1, <2>9, <3>1, <3>2, OpCounted
    <3> HIDE DEF r
    <3>4. talker'.reply = r
      <4>1. talker' = [talker EXCEPT !.out = out, !.reply = r]
        BY <2>9 DEF r
      <4> QED
        BY <1>1, <4>1 DEF TypeOK
    <3>5. Reply(sid)' = One(HasId(m, sid))
      BY <3>3, <3>4 DEF Reply, One
    <3> QED
      BY <2>5, <3>5
  <2>10. CASE m.op = "Connect" /\ TalkerConnect(m.sid)
    BY <1>1, <2>1, <2>8, <2>10 DEF TalkerConnect, TypeOK
  <2>11. CASE m.op = "Disconnect" /\ TalkerDisconnect(m.sid)
    BY <1>1, <2>1, <2>8, <2>11 DEF TalkerDisconnect, TypeOK
  <2>12. CASE m.op = "Request" /\ TalkerRequest(m.sid, m.rid)
    BY <2>7, <2>9, <2>12 DEF TalkerRequest
  <2> QED
    BY <1>11, <2>7, <2>10, <2>11, <2>12 DEF TalkerRecv, m
<1>12. CASE TalkerSends
  <2>1. PICK x \in UserID, kind \in Kinds :
          /\ SendUni(x, kind)
          /\ One(HasId(Event(x, sent[x] + 1, kind), sid)) = Reply(sid) - Reply(sid)'
    <3>1. TalkerT
      BY <1>1, TypesInParts
    <3>2. ASSUME NEW x \in talker.out, SendUni(x, "broadcast"), talker' = [talker EXCEPT !.out = @ \ {x}]
          PROVE  One(HasId(Event(x, sent[x] + 1, "broadcast"), sid)) = Reply(sid) - Reply(sid)'
      <4>1. talker'.reply = talker.reply
        BY <3>1, <3>2 DEF TalkerT
      <4>2. Reply(sid)' = Reply(sid) /\ Reply(sid) \in {0, 1}
        BY <4>1, OneIs DEF Reply
      <4>3. ~ HasId(Event(x, sent[x] + 1, "broadcast"), sid)
        BY DEF HasId, Event
      <4> QED
        BY <4>2, <4>3 DEF One
    <3>3. ASSUME talker.reply # NoReply, SendUni(talker.reply.sid, talker.reply.kind),
                 talker' = [talker EXCEPT !.reply = NoReply]
          PROVE  One(HasId(Event(talker.reply.sid, sent[talker.reply.sid] + 1, talker.reply.kind), sid))
                   = Reply(sid) - Reply(sid)'
      <4> DEFINE r == talker.reply
                 q == [sid |-> sid, kind |-> "answer"]
      <4>1. r \in [sid : UserID, kind : Kinds] /\ talker'.reply = NoReply
        BY <3>1, <3>3 DEF TalkerT
      <4>2. r = q <=> r.sid = sid /\ r.kind = "answer"
        <5>1. r = [sid |-> r.sid, kind |-> r.kind]
          BY <4>1
        <5>2. q.sid = sid /\ q.kind = "answer"
          OBVIOUS
        <5> HIDE DEF r
        <5> QED
          BY <5>1, <5>2
      <4>3. NoReply # q
        <5>1. NoReply.kind = "none" /\ q.kind = "answer"
          BY DEF NoReply
        <5> QED
          BY <5>1
      <4>4. HasId(Event(r.sid, sent[r.sid] + 1, r.kind), sid) <=> r.sid = sid /\ r.kind = "answer"
        BY DEF HasId, Event
      <4>5. HasId(Event(r.sid, sent[r.sid] + 1, r.kind), sid) <=> r = q
        BY <4>2, <4>4
      <4>6. Reply(sid) = One(r = q) /\ Reply(sid)' = 0
        BY <4>1, <4>3 DEF Reply, One
      <4> HIDE DEF r, q
      <4>7. One(HasId(Event(r.sid, sent[r.sid] + 1, r.kind), sid)) = One(r = q)
        BY <4>5 DEF One
      <4>8. One(r = q) \in {0, 1}
        BY OneIs
      <4> QED
        BY <4>6, <4>7, <4>8 DEF r
    <3>4. talker.reply # NoReply => talker.reply.sid \in UserID /\ talker.reply.kind \in Kinds
      BY <3>1 DEF TalkerT
    <3>5. talker.out \subseteq UserID /\ "broadcast" \in Kinds
      BY <3>1 DEF TalkerT, Kinds
    <3> QED
      BY <1>12, <3>2, <3>3, <3>4, <3>5 DEF TalkerSends
  <2> DEFINE m == Event(x, sent[x] + 1, kind)
  <2>2. /\ talker_s2c' = Append(talker_s2c, m)
        /\ UNCHANGED <<conn[sid].rid, talker_c2s, AtRouter("to_talker"), listener_c2s, tx2[sid],
                       AtListener(sid), listener_s2c, AtRouter("to_listener"), owed[sid]>>
    BY <1>12, <2>1 DEF SendUni, TalkerSends, AtRouter, AtListener, upward
  <2>3. talker_s2c \in Seq(Events) /\ m \in Events
    <3>1. sent[x] + 1 \in Nat
      BY <1>1 DEF HistoryT
    <3> QED
      BY <1>1, <3>1, Channels, MessageTypes
  <2>4. Count(talker_s2c', sid) = Count(talker_s2c, sid) + One(HasId(m, sid))
    BY <2>2, <2>3, CountPush
  <2>5. One(HasId(m, sid)) = Reply(sid) - Reply(sid)'
    BY <2>1
  <2> HIDE DEF m
  <2>6. UNCHANGED <<conn[sid].rid, talker_c2s, AtRouter("to_talker"), listener_c2s, tx2[sid],
                    AtListener(sid), listener_s2c, AtRouter("to_listener"), owed[sid]>>
    BY <2>2
  <2>7. Load(sid)' - owed'[sid] = Load(sid) - owed[sid]
    BY <1>1, <1>2, <2>4, <2>5, <2>6, LoadIs, Terms
  <2> QED
    BY <1>4, <2>7
<1>13. CASE ListenerRecv
  <2> DEFINE m    == Head(listener_s2c)
             sids == IF m.op = "Event" THEN {m.sid} \cap connections ELSE connections
  <2>1. /\ listener_s2c \in Seq(Events) /\ listener_s2c # <<>> /\ listener_s2c' = Tail(listener_s2c)
        /\ m \in Events /\ ListenerSending(m, sids) /\ AtListener(sid) = <<>> /\ ListenerRuns
        /\ UNCHANGED <<conn[sid].rid, Reply(sid), talker_c2s, AtRouter("to_talker"), listener_c2s,
                       tx2[sid], AtRouter("to_listener"), talker_s2c, owed[sid]>>
    BY <1>1, <1>13, Channels, HeadOf DEF ListenerRecv, ListenerSelects, ListenerRuns, AtListener,
       AtRouter, Reply, TasksOK, upward, history
  <2>2. IsMine(m, sid) => (sid \in sids <=> sid \in connections)
    BY DEF IsMine
  <2> HIDE DEF m, sids
  <2>3. Count(listener_s2c, sid) = One(HasId(m, sid)) + Count(listener_s2c', sid)
    BY <2>1, CountHead DEF m
  <2>4. AtListener(sid)' = IF sid \in sids THEN <<m>> ELSE <<>>
    BY <2>1 DEF AtListener, ListenerSending
  <2>5. Count(AtListener(sid), sid) = 0
    BY <2>1, CountEmpty
  <2>6. sid \notin sids => One(HasId(m, sid)) = 0
    <3> SUFFICES ASSUME sid \notin sids, HasId(m, sid) PROVE FALSE
      BY DEF One
    <3>1. IsMine(m, sid)
      BY <2>1, EventCounted DEF IsMine
    <3>2. conn[sid].pc = "none"
      BY <1>1, <2>2, <3>1 DEF ConnT
    <3> QED
      BY <2>1, <3>1, <3>2, NoneYet DEF m
  <2>7. Count(AtListener(sid)', sid) = One(HasId(m, sid))
    BY <2>4, <2>6, CountEmpty, CountOne
  <2>8. UNCHANGED <<conn[sid].rid, Reply(sid), talker_c2s, AtRouter("to_talker"), listener_c2s,
                    tx2[sid], AtRouter("to_listener"), talker_s2c, owed[sid]>>
    BY <2>1
  <2>9. Load(sid)' - owed'[sid] = Load(sid) - owed[sid]
    BY <1>1, <1>2, <2>3, <2>5, <2>7, <2>8, LoadIs, Terms
  <2> QED
    BY <1>4, <2>9
<1>14. CASE ListenerPings
  <2>1. /\ AtListener(sid) = <<>> /\ ListenerSending(Keepalive, connections)
        /\ UNCHANGED <<conn[sid].rid, Reply(sid), talker_c2s, AtRouter("to_talker"), listener_c2s,
                       tx2[sid], listener_s2c, AtRouter("to_listener"), talker_s2c, owed[sid]>>
    BY <1>1, <1>14 DEF ListenerPings, ListenerSelects, AtListener, AtRouter, Reply, TasksOK,
       upward, downward, history
  <2>2. AtListener(sid)' = <<>> \/ AtListener(sid)' = <<Keepalive>>
    BY <2>1 DEF AtListener, ListenerSending
  <2>3. Count(<<>>, sid) = 0 /\ Count(<<Keepalive>>, sid) = 0
    BY CountEmpty, CountOne, NotCounted
  <2> QED
    BY <1>4, <2>1, <2>2, <2>3, LoadIs
<1>15. ASSUME NEW x \in UserID, ListenerSends(x) PROVE Goal
  <2>1. /\ ListenerSending(listener.msg, listener.pending \ {x}) /\ x \in listener.pending
        /\ listener.pc = "send"
        /\ UNCHANGED <<conn, Reply(sid), talker_c2s, AtRouter("to_talker"), listener_c2s,
                       listener_s2c, AtRouter("to_listener"), talker_s2c, owed[sid]>>
    BY <1>15 DEF ListenerSends, AtRouter, Reply, upward, history
  <2>2. CASE sid # x
    <3>1. AtListener(sid)' = AtListener(sid)
      BY <2>1, <2>2 DEF AtListener, ListenerSending
    <3>2. tx2'[sid] = tx2[sid]
      BY <1>1, <1>15, <2>2 DEF ListenerSends, TxT
    <3> QED
      BY <1>5, <2>1, <3>1, <3>2
  <2>3. CASE sid = x
    <3> DEFINE m == listener.msg
    <3>1. AtListener(sid) = <<m>> /\ AtListener(sid)' = <<>>
      BY <2>1, <2>3 DEF AtListener, ListenerSending
    <3>2. Open(sid)
      <4>1. conn[sid].pc # "none"
        BY <1>1, <2>1, <2>3 DEF TypeOK
      <4> QED
        BY <1>2, <4>1 DEF Open, Unclosed
    <3>3. tx2'[sid] = Append(tx2[sid], m) /\ tx2[sid] \in Seq(Events) /\ m \in Events
      BY <1>1, <1>15, <2>1, <2>3, <3>2 DEF ListenerSends, TxT, TasksOK
    <3> HIDE DEF m
    <3>4. Count(tx2'[sid], sid) = Count(tx2[sid], sid) + One(HasId(m, sid))
      BY <3>3, CountPush
    <3>5. Count(AtListener(sid), sid) = One(HasId(m, sid)) /\ Count(AtListener(sid)', sid) = 0
      BY <3>1, CountOne, CountEmpty
    <3> QED
      BY <1>1, <1>2, <1>4, <2>1, <3>4, <3>5, LoadIs, Terms
  <2> QED
    BY <2>2, <2>3
<1>16. ASSUME NEW x \in UserID, ConnActs(x), sid # x, ~ ConnSends(x) PROVE Goal
  <2>1. conn'[sid] = conn[sid] /\ tx2'[sid] = tx2[sid] /\ owed'[sid] = owed[sid]
    BY <1>1, <1>16, HandlerActs DEF ConnT
  <2>2. UNCHANGED <<Reply(sid), talker_c2s, AtRouter("to_talker"), listener_c2s,
                    AtListener(sid), listener_s2c, AtRouter("to_listener"), talker_s2c>>
    BY <1>16 DEF ConnActs, HandlerRecv, WriteDone, ClientLeaves, HandlerReads, connUnchanged,
       Reply, AtRouter, AtListener
  <2> QED
    BY <1>5, <2>1, <2>2
<1>17. ASSUME NEW x \in UserID, ConnSends(x) PROVE Goal
  <2> DEFINE pc == conn[x].pc
             op == CASE pc = "connect" -> "Connect" [] pc = "request" -> "Request"
                     [] pc = "leaving" -> "Disconnect"
             m  == Op(op, x, conn[x])
  <2>1. /\ pc \in {"connect", "request", "leaving"} /\ conn[x] \in Handlers
        /\ conn' = [conn EXCEPT ![x] = [NewHandler EXCEPT !.pc =
                                           IF pc = "leaving" THEN "gone" ELSE "run"]]
        /\ listener_c2s' = Append(listener_c2s, m) /\ listener_c2s \in Seq(Ops)
    BY <1>1, <1>17, Channels DEF ConnSends, ConnT
  <2>2. UNCHANGED <<Reply(sid), talker_c2s, AtRouter("to_talker"), tx2[sid],
                    AtListener(sid), listener_s2c, AtRouter("to_listener"), talker_s2c, owed[sid]>>
    BY <1>17 DEF ConnSends, connUnchanged, history, Reply, AtRouter, AtListener
  <2>3. op \in {"Connect", "Request", "Disconnect"} /\ (op = "Request" <=> pc = "request")
    BY <2>1
  <2>4. m \in Ops /\ m.sid = x /\ m.op = op /\ m.rid = conn[x].rid
    BY <2>1, <2>3, MessageTypes DEF Op
  <2> HIDE DEF m, op
  <2>5. Count(listener_c2s', sid) = Count(listener_c2s, sid) + One(HasId(m, sid))
    BY <2>1, <2>4, CountPush
  <2>6. HasId(m, sid) <=> pc = "request" /\ sid = x /\ conn[x].rid
    BY <2>3, <2>4, OpCounted
  <2>7. CASE sid # x
    <3>1. One(HasId(m, sid)) = 0
      BY <2>6, <2>7 DEF One
    <3>2. conn'[sid] = conn[sid]
      BY <1>1, <2>1, <2>7 DEF ConnT
    <3> QED
      BY <1>1, <1>2, <1>4, <2>5, <2>2, <3>1, <3>2, LoadIs, Terms
  <2>8. CASE sid = x
    <3>1. conn'[sid].rid = FALSE
      BY <1>1, <2>1, <2>8 DEF ConnT, NewHandler
    <3>2. pc \in {"connect", "request"}
      BY <1>2, <2>1, <2>8 DEF Unclosed
    <3>3. HasId(m, sid) <=> conn[sid].rid
      BY <1>1, <2>6, <2>8, <3>2 DEF HandlerOK
    <3>4. One(conn[sid].rid) = One(HasId(m, sid)) /\ One(conn'[sid].rid) = 0
      BY <3>1, <3>3 DEF One
    <3> QED
      BY <1>1, <1>2, <1>4, <2>5, <2>2, <3>4, LoadIs, Terms
  <2> QED
    BY <2>7, <2>8
<1>18. ASSUME HandlerRecv(sid) PROVE Goal
  <2> DEFINE m == Head(tx2[sid])
             h == Written(conn[sid], m)
  <2>1. /\ tx2[sid] # <<>> /\ tx2[sid] \in Seq(Events) /\ conn'[sid] = h /\ conn[sid].pc = "run"
        /\ conn[sid] \in Handlers /\ m \in Events
    BY <1>1, <1>18, HeadOf DEF HandlerRecv, TxT, ConnT
  <2>2. UNCHANGED <<Reply(sid), talker_c2s, AtRouter("to_talker"), listener_c2s,
                     AtListener(sid), listener_s2c, AtRouter("to_listener"), talker_s2c>>
    BY <1>18 DEF HandlerRecv, connUnchanged, Reply, AtRouter, AtListener
  <2>3. h # Left
    BY <2>1 DEF Unclosed, Left, NewHandler
  <2>4. tx2'[sid] = Tail(tx2[sid])
    BY <1>1, <1>18, <2>3 DEF HandlerRecv, TxT
  <2>5. owed'[sid] = IF h.pc = "write" /\ m.op = "Event" /\ m.kind = "answer"
                     THEN owed[sid] - 1 ELSE owed[sid]
    BY <1>1, <1>18 DEF HandlerRecv, HistoryT
  <2>6. m.op = "Event" => m.sid = sid
    <3>1. 1 \in DOMAIN tx2[sid] /\ m = tx2[sid][1]
      BY <2>1, HeadOf
    <3> QED
      BY <1>1, <3>1 DEF HandlerOK
  <2>7. Count(tx2[sid], sid) = One(HasId(m, sid)) + Count(tx2'[sid], sid)
    BY <2>1, <2>4, CountHead
  <2>8. \/ h = conn[sid] /\ m.op = "Event" /\ m.kind = "silence"
        \/ h = [conn[sid] EXCEPT !.pc = "write"]
    BY <2>1, <2>3, WrittenIs
  <2> HIDE DEF m, h
  <2>9. h.rid = conn[sid].rid /\ (m.op = "Event" /\ m.kind = "answer" => h.pc = "write")
    BY <2>1, <2>8 DEF Handlers
  <2>10. owed'[sid] = owed[sid] - One(HasId(m, sid))
    <3>1. HasId(m, sid) <=> h.pc = "write" /\ m.op = "Event" /\ m.kind = "answer"
      BY <2>1, <2>6, <2>9, EventCounted
    <3>2. owed[sid] \in Nat
      BY <1>1 DEF HistoryT
    <3> QED
      BY <2>5, <3>1, <3>2 DEF One
  <2>11. One(conn'[sid].rid) = One(conn[sid].rid)
    BY <2>1, <2>9
  <2>12. One(HasId(m, sid)) \in {0, 1}
    BY OneIs
  <2>13. Load(sid)' = Load(sid) - One(HasId(m, sid)) /\ Load(sid) \in Int
    BY <1>1, <1>2, <2>2, <2>7, <2>11, <2>12, LoadIs, Terms
  <2>14. Load(sid)' - owed'[sid] = Load(sid) - owed[sid]
    BY <1>1, <1>2, <2>10, <2>12, <2>13, Terms
  <2> QED
    BY <1>4, <2>14
<1>19. ASSUME WriteDone(sid) PROVE Goal
  <2>1. conn'[sid].rid = conn[sid].rid
    BY <1>1, <1>19 DEF WriteDone, ConnT, Handlers
  <2>2. UNCHANGED <<Reply(sid), talker_c2s, AtRouter("to_talker"), listener_c2s, tx2[sid], owed[sid],
                    AtListener(sid), listener_s2c, AtRouter("to_listener"), talker_s2c>>
    BY <1>19 DEF WriteDone, connUnchanged, Reply, AtRouter, AtListener, history
  <2> QED
    BY <1>5, <2>1, <2>2
<1>20. ~ ClientLeaves(sid)
  <2> SUFFICES ASSUME ClientLeaves(sid) PROVE FALSE
    OBVIOUS
  <2>1. conn'[sid] = Left
    BY <1>1 DEF ClientLeaves, Becomes, ConnT
  <2> QED
    BY <2>1 DEF Unclosed, Left, NewHandler
<1>21. ASSUME HandlerReads(sid) PROVE Goal
  <2>1. PICK f \in Frames(Protocol[sid]) :
          LET h == AfterFrame(Protocol[sid], conn[sid], f)
          IN  /\ h # Left /\ Becomes(sid, h)
              /\ owed' = [owed EXCEPT ![sid] = IF f.head = "rid" /\ f.body # "bad" THEN @ + 1 ELSE @]
    BY <1>21 DEF HandlerReads
  <2> DEFINE h == AfterFrame(Protocol[sid], conn[sid], f)
             t == f.head = "rid" /\ f.body # "bad"
  <2>2. Protocol[sid] \in PROTOCOLS /\ conn[sid].pc = "run" /\ conn[sid] \in Handlers
    BY <1>1, <1>21, ServerAssumption DEF HandlerReads, ConnT
  <2>3. One(h.rid) = One(conn[sid].rid) + One(t)
    BY <1>1, <2>1, <2>2, AfterFrameIs DEF HandlerOK
  <2>4. conn'[sid] = h /\ tx2' = tx2
    BY <1>1, <2>1 DEF Becomes, ConnT, TxT
  <2>5. owed'[sid] = owed[sid] + One(t)
    BY <1>1, <2>1 DEF HistoryT, One
  <2>6. UNCHANGED <<Reply(sid), talker_c2s, AtRouter("to_talker"), listener_c2s,
                    AtListener(sid), listener_s2c, AtRouter("to_listener"), talker_s2c>>
    BY <1>21 DEF HandlerReads, connUnchanged, Reply, AtRouter, AtListener
  <2> HIDE DEF h, t
  <2>7. One(t) \in {0, 1} /\ One(conn'[sid].rid) = One(conn[sid].rid) + One(t)
    BY <2>3, <2>4, OneIs
  <2> QED
    BY <1>1, <1>2, <1>4, <2>4, <2>5, <2>6, <2>7, LoadIs, Terms
<1>22. CASE Register
  <2>1. conn'[sid].rid = conn[sid].rid
    <3>1. CASE FreeSids = {}
      BY <1>22, <3>1 DEF Register
    <3>2. CASE FreeSids # {}
      <4>1. NextSid \in UserID /\ conn' = [conn EXCEPT ![NextSid].pc = "connect"]
        BY <1>1, <1>22, <3>2, NextSidIsFree DEF TypeOK, FreeSids, Register
      <4> QED
        BY <1>1, <4>1 DEF ConnT, Handlers
    <3> QED
      BY <3>1, <3>2
  <2>2. UNCHANGED <<Reply(sid), talker_c2s, AtRouter("to_talker"), listener_c2s, tx2[sid], owed[sid],
                    AtListener(sid), listener_s2c, AtRouter("to_listener"), talker_s2c>>
    BY <1>22 DEF Register, Reply, AtRouter, AtListener, upward, downward, history
  <2> QED
    BY <1>5, <2>1, <2>2
<1>23. CASE RouterBreaks
  <2>1. AtRouter("to_talker") = <<>> /\ AtRouter("to_listener") = <<>>
        /\ AtRouter("to_talker")' = <<>> /\ AtRouter("to_listener")' = <<>>
    BY <1>1, <1>23 DEF RouterBreaks, AtRouter, TypeOK
  <2>2. UNCHANGED <<conn[sid].rid, Reply(sid), talker_c2s, listener_c2s, tx2[sid], owed[sid],
                    AtListener(sid), listener_s2c, talker_s2c>>
    BY <1>23 DEF RouterBreaks, Reply, AtListener, upward, downward, history
  <2> QED
    BY <1>5, <2>1, <2>2
<1>24. CASE TalkerTick
  <2>1. talker'.reply = talker.reply
    BY <1>1, <1>24 DEF TalkerTick, TypeOK
  <2> QED
    BY <1>5, <1>24, <2>1 DEF TalkerTick, Reply, AtRouter, AtListener, upward, downward, history
<1>25. CASE ListenerAccepts \/ HandshakeFails
  BY <1>5, <1>25 DEF ListenerAccepts, HandshakeFails, Reply, AtRouter, AtListener, upward,
     downward, history
<1>26. CASE ListenerBinds
  <2>1. listener.pending = {} /\ listener'.pending = {}
    BY <1>1, <1>26 DEF ListenerBinds, TasksOK, TypeOK
  <2> QED
    BY <1>5, <1>26, <2>1 DEF ListenerBinds, Reply, AtRouter, AtListener, upward, downward, history
<1> QED
  BY <1>6, <1>7, <1>8, <1>9, <1>10, <1>11, <1>12, <1>13, <1>14, <1>15, <1>16, <1>17, <1>18, <1>19,
     <1>20, <1>21, <1>22, <1>23, <1>24, <1>25, <1>26
     DEF Next, Internal, Outside, Router, Talker, Listener, Connection, ConnActs
------------------------------------------------------------------------------
(* The invariant, and what it says of the channels together. *)

LEMMA InvInit == Init => IInv
<1> SUFFICES ASSUME Init PROVE IInv
  OBVIOUS
<1>1. TypeOK
  BY TypesInit
<1>2. TasksOK /\ NoNull
  <2>1. RouterOK /\ TalkerOK
    BY DEF Init, RouterOK, TalkerOK
  <2>2. ListenerOK
    BY DEF Init, ListenerOK
  <2>3. NoNull
    BY DEF Init, NoNull
  <2> QED
    BY <2>1, <2>2, <2>3, TasksInParts
<1>3. ASSUME NEW sid \in UserID
      PROVE  /\ conn[sid] = NewHandler /\ tx2[sid] = <<>> /\ AtListener(sid) = <<>>
             /\ sent[sid] = 0 /\ consumed[sid] = 0 /\ owed[sid] = 0 /\ sid \notin talker.users
  BY DEF Init, AtListener
<1>4. /\ listener_c2s = <<>> /\ talker_c2s = <<>> /\ talker_s2c = <<>> /\ listener_s2c = <<>>
      /\ AtRouter("to_talker") = <<>> /\ AtRouter("to_listener") = <<>>
      /\ talker.reply = NoReply /\ surprised = FALSE
  BY DEF Init, AtRouter
<1>5. NewHandler.pc = "none" /\ ~ NewHandler.waits /\ ~ NewHandler.rid /\ NewHandler.data # "null"
  BY DEF NewHandler
<1>6. ASSUME NEW sid \in UserID PROVE HandlerOK(sid) /\ SaidOK(sid)
  BY <1>3, <1>5 DEF HandlerOK, SaidOK
<1>7. ASSUME NEW sid \in UserID PROVE UpOrder(sid)
  <2>1. Stage(sid) = 0
    BY <1>3, <1>5 DEF Stage
  <2>2. Told(<<>>, sid, 0, 0) /\ 0 \in 0 .. 2
    BY ToldEmpty
  <2>3. /\ 0 = 1 <=> sid \in talker.users
        /\ Told(talker_c2s, sid, 0, 0) /\ Told(AtRouter("to_talker"), sid, 0, 0)
        /\ Told(listener_c2s, sid, 0, Stage(sid))
    BY <1>3, <1>4, <2>1, <2>2
  <2> QED
    BY <2>2, <2>3 DEF UpOrder
<1>8. ASSUME NEW sid \in UserID PROVE DownOrder(sid)
  <2>1. InOrder(<<>>, sid, 0, 0) /\ 0 \in 0 .. 0
    BY OrderEmpty
  <2> QED
    BY <1>3, <1>4, <2>1 DEF DownOrder
<1>9. ASSUME NEW sid \in UserID PROVE Kept(sid)
  <2>1. One(conn[sid].rid) = 0
    BY <1>3, <1>5 DEF One
  <2>2. One(talker.reply = [sid |-> sid, kind |-> "answer"]) = 0
    <3>1. NoReply.kind = "none" /\ [sid |-> sid, kind |-> "answer"].kind = "answer"
      BY DEF NoReply
    <3> QED
      BY <1>4, <3>1 DEF One
  <2>3. Count(<<>>, sid) = 0
    BY CountEmpty
  <2>4. Load(sid) = 0
    BY <1>3, <1>4, <2>1, <2>2, <2>3 DEF Load
  <2> QED
    BY <1>3, <2>4 DEF Kept
<1> QED
  BY <1>1, <1>2, <1>4, <1>6, <1>7, <1>8, <1>9 DEF IInv, Inv1, Inv2, Inv3, Inv4, NeverSurprised

LEMMA InvStays == ASSUME IInv, UNCHANGED vars PROVE IInv'
<1>1. /\ UNCHANGED <<router, talker, listener, conn, accepting, connections, next_sid, spinning>>
      /\ UNCHANGED <<accepts, listener_c2s, talker_c2s, talker_s2c, listener_s2c, tx2, budget>>
      /\ UNCHANGED <<sent, consumed, owed, surprised, said, pinging>>
  BY DEF vars, accepter, upward, downward, outside, history
<1>2. Inv1'
  BY <1>1 DEF IInv, Inv1, TypeOK, TasksOK, NoNull, HandlerOK, SaidOK, TalkerRuns, ListenerRuns
<1>3. Inv2' /\ NeverSurprised'
  BY <1>1 DEF IInv, Inv2, NeverSurprised, UpOrder, Stage, AtRouter, TalkerRuns
<1>4. Inv3'
  BY <1>1 DEF IInv, Inv3, Unclosed, DownOrder, AtRouter, AtListener, ListenerRuns
<1>5. Inv4'
  BY <1>1 DEF IInv, Inv4, Unclosed, Kept, Load, AtRouter, AtListener, TalkerRuns, ListenerRuns
<1> QED
  BY <1>2, <1>3, <1>4, <1>5 DEF IInv

LEMMA InvNext == ASSUME IInv, Next PROVE IInv'
<1>1. NeverSurprised'
  BY UpNext DEF IInv, NeverSurprised
<1> QED
  BY <1>1, Inv1Next, UpNext, DownNext, KeptNext DEF IInv, Inv4

LEMMA Inductive == Spec => []IInv
<1>1. IInv /\ [Next]_vars => IInv'
  BY InvNext, InvStays
<1> QED
  BY <1>1, InvInit, PTL DEF Spec

\* The legs are sequences of messages, and so are they in a row.
LEMMA Legs ==
    ASSUME TypeOK, TasksOK, NEW sid \in UserID
    PROVE  /\ tx2[sid] \in Seq(Events) /\ AtListener(sid) \in Seq(Events)
           /\ listener_s2c \in Seq(Events) /\ AtRouter("to_listener") \in Seq(Events)
           /\ talker_s2c \in Seq(Events)
           /\ talker_c2s \in Seq(Ops \cup {Shutdown})
           /\ AtRouter("to_talker") \in Seq(Ops \cup {Shutdown})
           /\ listener_c2s \in Seq(Ops \cup {Shutdown})
<1>1. tx2[sid] \in Seq(Events) /\ listener_s2c \in Seq(Events) /\ talker_s2c \in Seq(Events)
  BY DEF TypeOK, Bounded
<1>2. talker_c2s \in Seq(Ops \cup {Shutdown}) /\ listener_c2s \in Seq(Ops)
  BY DEF TypeOK, Bounded
<1>3. listener_c2s \in Seq(Ops \cup {Shutdown})
  BY <1>2
<1>4. AtListener(sid) \in Seq(Events)
  <2>1. sid \in listener.pending => listener.msg \in Events
    BY DEF TasksOK
  <2> QED
    BY <2>1 DEF AtListener
<1>5. AtRouter("to_listener") \in Seq(Events) /\ AtRouter("to_talker") \in Seq(Ops \cup {Shutdown})
  <2>1. /\ router.pc = "to_listener" => router.msg \in Events
        /\ router.pc = "to_talker" => router.msg \in Ops \cup {Shutdown}
    BY DEF TasksOK
  <2>2. \A S : <<>> \in Seq(S) /\ \A m \in S : <<m>> \in Seq(S)
    OBVIOUS
  <2> QED
    BY <2>1, <2>2, Zenon DEF AtRouter
<1> QED
  BY <1>1, <1>2, <1>3, <1>4, <1>5

LEMMA DownJoined ==
    ASSUME TypeOK, TasksOK, NEW sid \in UserID, DownOrder(sid)
    PROVE  InOrder(Down(sid), sid, consumed[sid], sent[sid])
<1>1. PICK a, b, c, d \in 0 .. sent[sid] :
        /\ InOrder(tx2[sid], sid, consumed[sid], a) /\ InOrder(AtListener(sid), sid, a, b)
        /\ InOrder(listener_s2c, sid, b, c) /\ InOrder(AtRouter("to_listener"), sid, c, d)
        /\ InOrder(talker_s2c, sid, d, sent[sid])
  BY DEF DownOrder
<1>2. /\ sent[sid] \in Nat /\ consumed[sid] \in Nat
      /\ a \in Nat /\ b \in Nat /\ c \in Nat /\ d \in Nat
  BY DEF TypeOK
<1> DEFINE s1 == tx2[sid] \o AtListener(sid)
           s2 == s1 \o listener_s2c
           s3 == s2 \o AtRouter("to_listener")
<1>3. s1 \in Seq(Events) /\ InOrder(s1, sid, consumed[sid], b)
  <2>1. tx2[sid] \in Seq(Events) /\ AtListener(sid) \in Seq(Events)
    BY Legs
  <2>2. InOrder(s1, sid, consumed[sid], b)
    BY <1>1, <1>2, <2>1, OrderJoin
  <2> QED
    BY <2>1, <2>2
<1> HIDE DEF s1
<1>4. s2 \in Seq(Events) /\ InOrder(s2, sid, consumed[sid], c)
  BY <1>1, <1>2, <1>3, Legs, OrderJoin
<1> HIDE DEF s2
<1>5. s3 \in Seq(Events) /\ InOrder(s3, sid, consumed[sid], d)
  BY <1>1, <1>2, <1>4, Legs, OrderJoin
<1> HIDE DEF s3
<1>6. InOrder(s3 \o talker_s2c, sid, consumed[sid], sent[sid])
  BY <1>1, <1>2, <1>5, Legs, OrderJoin
<1>7. Down(sid) = s3 \o talker_s2c
  BY DEF Down, s3, s2, s1
<1> QED
  BY <1>6, <1>7

LEMMA LoadIsUnderway ==
    ASSUME TypeOK, TasksOK, NEW sid \in UserID
    PROVE  Load(sid) = Underway(sid)
<1> DEFINE M  == Ops \cup {Shutdown} \cup Events
           u1 == talker_c2s \o AtRouter("to_talker")
           u2 == u1 \o listener_c2s
           s1 == tx2[sid] \o AtListener(sid)
           s2 == s1 \o listener_s2c
           s3 == s2 \o AtRouter("to_listener")
           s4 == s3 \o talker_s2c
<1>1. /\ tx2[sid] \in Seq(M) /\ AtListener(sid) \in Seq(M) /\ listener_s2c \in Seq(M)
      /\ AtRouter("to_listener") \in Seq(M) /\ talker_s2c \in Seq(M) /\ talker_c2s \in Seq(M)
      /\ AtRouter("to_talker") \in Seq(M) /\ listener_c2s \in Seq(M)
  <2>1. \A s : s \in Seq(Events) => s \in Seq(M)
    OBVIOUS
  <2>2. \A s : s \in Seq(Ops \cup {Shutdown}) => s \in Seq(M)
    OBVIOUS
  <2> QED
    BY <2>1, <2>2, Legs
<1> HIDE DEF M
<1>2. /\ u1 \in Seq(M)
      /\ Count(u1, sid) = Count(talker_c2s, sid) + Count(AtRouter("to_talker"), sid)
  BY <1>1, CountJoin
<1> HIDE DEF u1
<1>3. u2 \in Seq(M) /\ Count(u2, sid) = Count(u1, sid) + Count(listener_c2s, sid)
  BY <1>1, <1>2, CountJoin
<1> HIDE DEF u2
<1>4. s1 \in Seq(M) /\ Count(s1, sid) = Count(tx2[sid], sid) + Count(AtListener(sid), sid)
  BY <1>1, CountJoin
<1> HIDE DEF s1
<1>5. s2 \in Seq(M) /\ Count(s2, sid) = Count(s1, sid) + Count(listener_s2c, sid)
  BY <1>1, <1>4, CountJoin
<1> HIDE DEF s2
<1>6. s3 \in Seq(M) /\ Count(s3, sid) = Count(s2, sid) + Count(AtRouter("to_listener"), sid)
  BY <1>1, <1>5, CountJoin
<1> HIDE DEF s3
<1>7. s4 \in Seq(M) /\ Count(s4, sid) = Count(s3, sid) + Count(talker_s2c, sid)
  BY <1>1, <1>6, CountJoin
<1> HIDE DEF s4
<1>8. Count(u2 \o s4, sid) = Count(u2, sid) + Count(s4, sid)
  BY <1>3, <1>7, CountJoin
<1>9. Up = u2 /\ Down(sid) = s4
  BY DEF Up, Down, u2, u1, s4, s3, s2, s1
<1>10. Underway(sid) = One(conn[sid].rid) + One(talker.reply = [sid |-> sid, kind |-> "answer"])
                       + (Count(u2, sid) + Count(s4, sid))
  BY <1>8, <1>9 DEF Underway
<1>11. Load(sid) = One(conn[sid].rid) + One(talker.reply = [sid |-> sid, kind |-> "answer"])
                   + (Count(u2, sid) + Count(s4, sid))
  <2>1. Count(u2, sid) = Count(talker_c2s, sid) + Count(AtRouter("to_talker"), sid)
                         + Count(listener_c2s, sid)
    BY <1>2, <1>3
  <2>2. Count(s4, sid) = Count(tx2[sid], sid) + Count(AtListener(sid), sid) + Count(listener_s2c, sid)
                         + Count(AtRouter("to_listener"), sid) + Count(talker_s2c, sid)
    BY <1>4, <1>5, <1>6, <1>7
  <2> QED
    BY <2>1, <2>2, LoadTerms DEF Load
<1> QED
  BY <1>10, <1>11

\* The state of the server has its types, whatever the capacities of the
\* channels: no channel holds more than it may, and the map of the listener has
\* exactly the connections that were registered.
THEOREM TypeCorrect == Spec => []TypeOK
<1>1. IInv => TypeOK
  BY DEF IInv, Inv1
<1> QED
  BY <1>1, Inductive, PTL

\* Talker::run relies on the order in which the listener's operations arrive:
\* it hears of a user once, of its requests only while it is there, and of its
\* departure once, after them.
THEOREM TalkerNeverSurprised == Spec => []NeverSurprised
<1>1. IInv => NeverSurprised
  BY DEF IInv
<1> QED
  BY <1>1, Inductive, PTL

\* What a handler sends up is the message its client wrote, with its own id and
\* with the bytes that followed if it left its data to them, however many events
\* were written to the client in between; none goes up with null for its data.
THEOREM DataAlwaysFollows == Spec => []DataFollows
<1>1. IInv => DataFollows
  BY DEF IInv, Inv1, SaidOK, DataFollows
<1> QED
  BY <1>1, Inductive, PTL

\* send_uni, Server::run, Listener::run and the handler pass on what the talker
\* says to a client that stays, once and in order: across two tasks, three
\* channels of any capacities and any number of connections.
THEOREM EventsStayInOrder == Spec => []EventsInOrder
<1>1. ASSUME IInv PROVE EventsInOrder
  <2> SUFFICES ASSUME ListenerRuns, NEW sid \in UserID, Open(sid)
               PROVE  InOrder(Down(sid), sid, consumed[sid], sent[sid])
    BY DEF EventsInOrder
  <2>1. TypeOK /\ TasksOK /\ DownOrder(sid)
    BY <1>1 DEF IInv, Inv1, Inv3, Open, Unclosed
  <2> QED
    BY <2>1, DownJoined
<1> QED
  BY <1>1, Inductive, PTL

\* While the talker and the listener run, a request with an id that a handler
\* has read is in exactly one place until it is answered.
THEOREM RequestsAreKept == Spec => []RequestsKept
<1>1. ASSUME IInv PROVE RequestsKept
  <2> SUFFICES ASSUME TalkerRuns, ListenerRuns, NEW sid \in UserID, Open(sid)
               PROVE  owed[sid] = Underway(sid)
    BY DEF RequestsKept
  <2>1. TypeOK /\ TasksOK /\ Kept(sid) /\ Unclosed(sid)
    BY <1>1 DEF IInv, Inv1, Inv4, Open, Unclosed
  <2> QED
    BY <2>1, LoadIsUnderway DEF Kept
<1> QED
  BY <1>1, Inductive, PTL
==============================================================================
