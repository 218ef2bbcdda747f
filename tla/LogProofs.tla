------------------------------ MODULE LogProofs ------------------------------
(***************************************************************************)
(* What the clients remember of what was said, for any number of users,    *)
(* rooms and messages: no log holds what was not said to all of the room,  *)
(* ids increase along a log, and what a new member is sent as history ends *)
(* the log of every old one.                                               *)
(*                                                                         *)
(* The saved history is a window on all that was said in a room, private   *)
(* messages included; a log is another window on the public part of it.    *)
(* The invariant relates the two while a join waits for its second half:   *)
(* its id and history are older than the steps that join other rooms, but  *)
(* nothing is said in its room before it.                                  *)
(***************************************************************************)
EXTENDS ClientProofs
LOCAL INSTANCE SequencesExt

Public == {msg \in Message : msg.sent_to = None}

\* The last messages of t are s.
Ends(s, t) == /\ Len(s) <= Len(t)
              /\ \A i \in 1 .. Len(s) : s[i] = t[Len(t) - Len(s) + i]

\* Ids increase along s, and stay below n.
Increasing(s) == \A i, j \in DOMAIN s : i < j => s[i].id < s[j].id
Below(s, n)   == \A i \in DOMAIN s : s[i].id < n
------------------------------------------------------------------------------
(* Ends of sequences. *)

LEMMA EndsSuffix ==
    ASSUME NEW S, NEW s \in Seq(S), NEW t \in Seq(S), Ends(s, t) PROVE IsSuffix(s, t)
<1> DEFINE m == Len(s)
           n == Len(t)
           rs == Reverse(s)
           rt == Reverse(t)
<1>1. m \in Nat /\ n \in Nat /\ m <= n /\ DOMAIN s = 1 .. m /\ DOMAIN t = 1 .. n
  BY DEF Ends
<1>2. rs = [i \in 1 .. m |-> s[(m - i) + 1]] /\ rt = [i \in 1 .. n |-> t[(n - i) + 1]]
  BY DEF Reverse
<1>3. rs \in Seq(S) /\ rt \in Seq(S) /\ Len(rs) = m /\ Len(rt) = n
  BY <1>1, <1>2
<1>4. \A i \in 1 .. m : rs[i] = rt[i]
  <2> TAKE i \in 1 .. m
  <2>1. (m - i) + 1 \in 1 .. m /\ i \in 1 .. n /\ n - m + ((m - i) + 1) = (n - i) + 1
    BY <1>1
  <2>2. s[(m - i) + 1] = t[n - m + ((m - i) + 1)]
    BY <2>1 DEF Ends
  <2> HIDE DEF m, n
  <2> QED
    BY <1>2, <2>1, <2>2
<1> HIDE DEF rs, rt, m, n
<1>5. SubSeq(rs, 1, m) = SubSeq(rt, 1, m)
  BY <1>1, <1>3, <1>4
<1> QED
  BY <1>1, <1>3, <1>5 DEF IsSuffix, IsPrefix, rs, rt

LEMMA EndsNothing == ASSUME NEW S, NEW t \in Seq(S) PROVE Ends(<<>>, t)
  BY DEF Ends

LEMMA EndsItself == ASSUME NEW S, NEW t \in Seq(S) PROVE Ends(t, t)
<1>1. Len(t) \in Nat /\ \A i \in 1 .. Len(t) : Len(t) - Len(t) + i = i
  OBVIOUS
<1> QED
  BY <1>1 DEF Ends

LEMMA EndsOf ==
    ASSUME NEW S, NEW s \in Seq(S), NEW t \in Seq(S), NEW v \in Seq(S), Ends(s, t), Ends(t, v)
    PROVE  Ends(s, v)
<1> DEFINE l == Len(s)
           m == Len(t)
           n == Len(v)
<1>1. l \in Nat /\ m \in Nat /\ n \in Nat /\ l <= m /\ m <= n
  BY DEF Ends
<1>2. ASSUME NEW i \in 1 .. l PROVE s[i] = v[n - l + i]
  <2>1. s[i] = t[m - l + i]
    BY DEF Ends
  <2>2. m - l + i \in 1 .. m /\ n - m + (m - l + i) = n - l + i
    BY <1>1
  <2>3. t[m - l + i] = v[n - m + (m - l + i)]
    BY <2>2 DEF Ends
  <2> QED
    BY <2>1, <2>2, <2>3
<1> QED
  BY <1>1, <1>2 DEF Ends

LEMMA EndsMore ==
    ASSUME NEW S, NEW s \in Seq(S), NEW t \in Seq(S), Ends(s, t), NEW msg \in S
    PROVE  Ends(Append(s, msg), Append(t, msg))
<1> DEFINE m == Len(s)
           n == Len(t)
           s2 == Append(s, msg)
           t2 == Append(t, msg)
<1>1. m \in Nat /\ n \in Nat /\ m <= n
  BY DEF Ends
<1>2. /\ Len(s2) = m + 1 /\ Len(t2) = n + 1 /\ s2[m + 1] = msg /\ t2[n + 1] = msg
      /\ \A i \in 1 .. m : s2[i] = s[i]
      /\ \A i \in 1 .. n : t2[i] = t[i]
  OBVIOUS
<1>3. \A i \in 1 .. m : s[i] = t[n - m + i] /\ n - m + i \in 1 .. n
  BY <1>1 DEF Ends
<1> HIDE DEF s2, t2, m, n
<1>4. ASSUME NEW i \in 1 .. m + 1 PROVE s2[i] = t2[(n + 1) - (m + 1) + i]
  <2>1. CASE i = m + 1
    <3>1. (n + 1) - (m + 1) + i = n + 1
      BY <1>1, <2>1
    <3> QED
      BY <1>2, <2>1, <3>1
  <2>2. CASE i \in 1 .. m
    <3>1. (n + 1) - (m + 1) + i = n - m + i
      BY <1>1, <2>2
    <3> QED
      BY <1>2, <1>3, <2>2, <3>1
  <2> QED
    BY <1>1, <2>1, <2>2
<1>5. Len(s2) <= Len(t2) /\ \A i \in 1 .. Len(s2) : s2[i] = t2[Len(t2) - Len(s2) + i]
  BY <1>1, <1>2, <1>4
<1>6. Ends(s2, t2)
  BY <1>5 DEF Ends
<1> QED
  BY <1>6 DEF s2, t2
------------------------------------------------------------------------------
(* What a client remembers. *)

\* LastN leaves off some k messages at the front.
LEMMA LastNOf ==
    ASSUME NEW S, NEW t \in Seq(S)
    PROVE  LET last == LastN(t)
           IN  /\ last \in Seq(S) /\ Len(last) <= LogMax
               /\ Len(t) <= LogMax => last = t
               /\ \E k \in Nat : /\ Len(last) = Len(t) - k
                                 /\ \A i \in 1 .. Len(last) : i + k \in 1 .. Len(t)
                                                              /\ last[i] = t[i + k]
<1> DEFINE n == Len(t)
           last == LastN(t)
<1>1. n \in Nat /\ LogMax \in Nat /\ DOMAIN t = 1 .. n
  BY ClientsAssumption
<1>2. CASE n <= LogMax
  <2>1. last = t
    BY <1>1, <1>2 DEF LastN
  <2>2. 0 \in Nat /\ Len(last) = n - 0
        /\ \A i \in 1 .. Len(last) : i + 0 \in 1 .. n /\ last[i] = t[i + 0]
    BY <1>1, <2>1
  <2> QED
    BY <1>1, <1>2, <2>1, <2>2
<1>3. CASE n > LogMax
  <2> DEFINE k == n - LogMax
             sub == SubSeq(t, n - LogMax + 1, n)
  <2>1. last = sub
    BY <1>1, <1>3 DEF LastN
  <2>2. k \in Nat /\ k <= n /\ ~ n <= LogMax
    BY <1>1, <1>3
  <2>3. sub \in Seq(S) /\ Len(sub) = LogMax
    BY <1>1, <1>3
  <2>4. \A i \in 1 .. LogMax : sub[i] = t[i + k] /\ i + k \in 1 .. n
    BY <1>1, <1>3
  <2>5. LogMax = n - k
    BY <1>1
  <2> HIDE DEF sub, k, n, last
  <2> QED
    BY <1>1, <2>1, <2>2, <2>3, <2>4, <2>5 DEF n, last
<1>4. n <= LogMax \/ n > LogMax
  BY <1>1
<1> HIDE DEF n, last
<1> QED
  BY <1>2, <1>3, <1>4 DEF last, n

LEMMA LastNOrder ==
    ASSUME NEW t \in Seq(Public)
    PROVE  /\ Increasing(t) => Increasing(LastN(t))
           /\ \A b : Below(t, b) => Below(LastN(t), b)
<1> DEFINE last == LastN(t)
<1>1. last \in Seq(Public)
  BY LastNOf
<1>2. PICK k \in Nat : \A i \in 1 .. Len(last) : i + k \in 1 .. Len(t) /\ last[i] = t[i + k]
  BY LastNOf
<1> HIDE DEF last
<1>3. DOMAIN last = 1 .. Len(last) /\ DOMAIN t = 1 .. Len(t) /\ Len(last) \in Nat
  BY <1>1
<1>4. \A i, j \in DOMAIN last : i < j => i + k < j + k
  BY <1>3
<1>5. Increasing(t) => Increasing(last)
  BY <1>2, <1>3, <1>4 DEF Increasing
<1>6. \A b : Below(t, b) => Below(last, b)
  BY <1>2, <1>3 DEF Below
<1> QED
  BY <1>5, <1>6 DEF last

LEMMA EndsLast ==
    ASSUME NEW S, NEW s \in Seq(S), NEW t \in Seq(S), Ends(s, t), Len(s) <= LogMax
    PROVE  Ends(s, LastN(t))
<1> DEFINE last == LastN(t)
           l == Len(s)
           m == Len(last)
           n == Len(t)
<1>1. last \in Seq(S) /\ m <= LogMax /\ (n <= LogMax => last = t)
  BY LastNOf
<1>2. PICK k \in Nat : m = n - k /\ \A i \in 1 .. m : last[i] = t[i + k]
  BY LastNOf
<1>3. l \in Nat /\ m \in Nat /\ n \in Nat /\ l <= n /\ LogMax \in Nat
  BY <1>1, ClientsAssumption DEF Ends
<1>4. \A i \in 1 .. l : s[i] = t[n - l + i]
  BY DEF Ends
<1>5. l <= m
  <2>1. CASE n <= LogMax
    BY <1>1, <1>3, <2>1
  <2>2. CASE n > LogMax
    <3>1. last = SubSeq(t, n - LogMax + 1, n)
      BY <1>3, <2>2 DEF LastN
    <3>2. m = LogMax
      BY <1>3, <2>2, <3>1
    <3> QED
      BY <3>2
  <2> QED
    BY <1>3, <2>1, <2>2
<1> HIDE DEF last, l, m, n
<1>6. ASSUME NEW i \in 1 .. l PROVE s[i] = last[m - l + i]
  <2>1. m - l + i \in 1 .. m /\ (m - l + i) + k = n - l + i
    BY <1>2, <1>3, <1>5
  <2> QED
    BY <1>2, <1>4, <2>1
<1> QED
  BY <1>5, <1>6 DEF Ends, last, l, m
------------------------------------------------------------------------------
(* The public part of a history. *)

\* f[n] is the public part of the first n messages.
Filtering(hist, f) ==
    /\ f[0] = <<>>
    /\ \A n \in 1 .. Len(hist) :
           f[n] = IF hist[n].sent_to = None THEN Append(f[n - 1], hist[n]) ELSE f[n - 1]

LEMMA FilterIs ==
    ASSUME NEW hist, Len(hist) \in Nat
    PROVE  \E f : Filtering(hist, f) /\ get_history(hist) = f[Len(hist)]
<1> DEFINE L == Len(hist)
           Next1(f, n) == IF n = 0 THEN <<>>
                          ELSE IF hist[n].sent_to = None THEN Append(f[n - 1], hist[n])
                          ELSE f[n - 1]
           Body(f, n) == [i \in 0 .. n |-> Next1(f, i)]
           T == {n \in Nat : \E f : f = Body(f, n)}
<1>1. 0 \in T
  <2> DEFINE f == [i \in 0 .. 0 |-> <<>>]
  <2>1. f = Body(f, 0)
    OBVIOUS
  <2> QED
    BY <2>1
<1>2. ASSUME NEW n \in Nat, n \in T PROVE n + 1 \in T
  <2>1. PICK f : f = Body(f, n)
    BY <1>2
  <2> DEFINE g == [i \in 0 .. n + 1 |-> IF i = n + 1 THEN Next1(f, i) ELSE f[i]]
  <2>2. ASSUME NEW i \in 0 .. n + 1 PROVE g[i] = Next1(g, i)
    <3>1. i # 0 => g[i - 1] = f[i - 1]
      OBVIOUS
    <3>2. CASE i = n + 1
      BY <3>1, <3>2
    <3>3. CASE i \in 0 .. n
      <4>1. g[i] = f[i]
        BY <3>3
      <4>2. f[i] = Next1(f, i)
        BY <2>1, <3>3
      <4> QED
        BY <3>1, <4>1, <4>2
    <3> QED
      BY <3>2, <3>3
  <2>3. g = Body(g, n + 1)
    BY <2>2
  <2> HIDE DEF g, Body
  <2> QED
    BY <2>3
<1>3. L \in T
  BY <1>1, <1>2, Successors
<1>4. PICK f : f = Body(f, L)
  BY <1>3
<1> DEFINE h == CHOOSE f2 : f2 = Body(f2, L)
<1>5. h = Body(h, L)
  BY <1>4
<1>6. get_history(hist) = h[L]
  BY DEF get_history
<1>7. h[0] = <<>> /\ \A n \in 1 .. L : h[n] = IF hist[n].sent_to = None
                                              THEN Append(h[n - 1], hist[n]) ELSE h[n - 1]
  <2> HIDE DEF h
  <2>1. \A i \in 0 .. L : h[i] = Next1(h, i)
    BY <1>5
  <2>2. 0 \in 0 .. L /\ \A i \in 1 .. L : i \in 0 .. L /\ i # 0
    OBVIOUS
  <2> QED
    BY <2>1, <2>2
<1> QED
  BY <1>6, <1>7 DEF Filtering

\* It holds messages of the history, in their order, and none that was sent to one.
LEMMA PublicPart ==
    ASSUME NEW hist \in Seq(Message)
    PROVE  LET public == get_history(hist)
           IN  /\ public \in Seq(Public) /\ Len(public) <= Len(hist)
               /\ Increasing(hist) => Increasing(public)
               /\ \A b : Below(hist, b) => Below(public, b)
<1> DEFINE L == Len(hist)
<1>1. L \in Nat /\ DOMAIN hist = 1 .. L /\ \A n \in 1 .. L : hist[n] \in Message
  OBVIOUS
<1>2. PICK f : Filtering(hist, f) /\ get_history(hist) = f[L]
  BY <1>1, FilterIs
<1> DEFINE Part(n) == /\ f[n] \in Seq(Public) /\ Len(f[n]) <= n
                      /\ \A i \in DOMAIN f[n] : \E j \in 1 .. n : f[n][i] = hist[j]
                      /\ Increasing(hist) => Increasing(f[n])
           T == {n \in Nat : n <= L => Part(n)}
<1>3. 0 \in T
  <2>1. f[0] = <<>>
    BY <1>2 DEF Filtering
  <2>2. f[0] \in Seq(Public) /\ Len(f[0]) <= 0 /\ DOMAIN f[0] = {}
    BY <2>1
  <2> QED
    BY <2>2 DEF Increasing
<1>4. ASSUME NEW n \in Nat, n \in T PROVE n + 1 \in T
  <2> SUFFICES ASSUME n + 1 <= L PROVE Part(n + 1)
    OBVIOUS
  <2>1. Part(n) /\ n + 1 \in 1 .. L /\ (n + 1) - 1 = n
    BY <1>1, <1>4
  <2> DEFINE old == f[n]
             new == f[n + 1]
             msg == hist[n + 1]
  <2>2. new = IF msg.sent_to = None THEN Append(old, msg) ELSE old
    BY <1>2, <2>1 DEF Filtering
  <2>3. /\ old \in Seq(Public) /\ Len(old) <= n /\ msg \in Message
        /\ \A i \in DOMAIN old : \E j \in 1 .. n : old[i] = hist[j]
        /\ Increasing(hist) => Increasing(old)
    BY <1>1, <2>1
  <2> HIDE DEF old, new, L, T
  <2>4. CASE msg.sent_to # None
    <3>1. new = old
      BY <2>2, <2>4
    <3>2. \A j \in 1 .. n : j \in 1 .. n + 1
      OBVIOUS
    <3>3. Len(new) <= n + 1
      BY <2>3, <3>1
    <3> QED
      BY <2>3, <3>1, <3>2, <3>3 DEF new
  <2>5. CASE msg.sent_to = None
    <3> DEFINE m == Len(old)
    <3>1. msg \in Public /\ new = Append(old, msg)
      BY <2>2, <2>3, <2>5 DEF Public
    <3>2. /\ m \in Nat /\ new \in Seq(Public) /\ Len(new) = m + 1 /\ DOMAIN new = 1 .. m + 1
          /\ DOMAIN old = 1 .. m /\ new[m + 1] = msg /\ \A i \in 1 .. m : new[i] = old[i]
      BY <2>3, <3>1
    <3> HIDE DEF m
    <3>3. \A i \in 1 .. m + 1 : i \in 1 .. m \/ i = m + 1
      BY <3>2
    <3>4. \A i \in 1 .. m + 1 : \E j \in 1 .. n + 1 : new[i] = hist[j]
      <4> TAKE i \in 1 .. m + 1
      <4>1. CASE i \in 1 .. m
        <5>1. PICK j \in 1 .. n : old[i] = hist[j]
          BY <2>3, <3>2, <4>1
        <5>2. j \in 1 .. n + 1
          OBVIOUS
        <5> QED
          BY <3>2, <4>1, <5>1, <5>2
      <4>2. CASE i = m + 1
        <5>1. n + 1 \in 1 .. n + 1
          OBVIOUS
        <5> QED
          BY <3>2, <4>2, <5>1 DEF msg
      <4> QED
        BY <3>3, <4>1, <4>2
    <3>5. Increasing(hist) => Increasing(new)
      <4> SUFFICES ASSUME Increasing(hist), NEW i \in 1 .. m + 1, NEW j \in 1 .. m + 1, i < j
                   PROVE  new[i].id < new[j].id
        BY <3>2 DEF Increasing
      <4>1. i \in 1 .. m
        BY <3>2
      <4>2. CASE j \in 1 .. m
        BY <2>3, <3>2, <4>1, <4>2 DEF Increasing
      <4>3. CASE j = m + 1
        <5>1. PICK k \in 1 .. n : old[i] = hist[k]
          BY <2>3, <3>2, <4>1
        <5>2. k \in DOMAIN hist /\ n + 1 \in DOMAIN hist /\ k < n + 1
          BY <1>1, <2>1 DEF L
        <5>3. hist[k].id < msg.id
          BY <5>2 DEF Increasing, msg
        <5> QED
          BY <3>2, <4>1, <4>3, <5>1, <5>3
      <4> QED
        BY <3>3, <4>2, <4>3
    <3>6. Len(new) <= n + 1
      BY <2>3, <3>2 DEF m
    <3> QED
      BY <3>2, <3>4, <3>5, <3>6 DEF new
  <2> QED
    BY <2>4, <2>5
<1>5. L \in T
  <2> HIDE DEF T
  <2> QED
    BY <1>1, <1>3, <1>4, Successors
<1>6. Part(L)
  BY <1>1, <1>5
<1>7. \A b : Below(hist, b) => Below(f[L], b)
  BY <1>1, <1>6 DEF Below
<1> QED
  BY <1>2, <1>6, <1>7

\* A message that is saved is the last of the history, or none of it ...
LEMMA PublicMore ==
    ASSUME NEW hist \in Seq(Message), NEW msg \in Message
    PROVE  get_history(Append(hist, msg)) =
               IF msg.sent_to = None THEN Append(get_history(hist), msg) ELSE get_history(hist)
<1> DEFINE L == Len(hist)
           more == Append(hist, msg)
<1>1. /\ L \in Nat /\ Len(more) = L + 1 /\ more[L + 1] = msg
      /\ \A n \in 1 .. L : more[n] = hist[n]
  OBVIOUS
<1> HIDE DEF L, more
<1>2. PICK f : Filtering(hist, f) /\ get_history(hist) = f[L]
  BY <1>1, FilterIs DEF L
<1>3. PICK g : Filtering(more, g) /\ get_history(more) = g[L + 1]
  BY <1>1, FilterIs
<1> DEFINE T == {n \in Nat : n <= L => g[n] = f[n]}
<1>4. 0 \in T
  BY <1>2, <1>3 DEF Filtering
<1>5. ASSUME NEW n \in Nat, n \in T PROVE n + 1 \in T
  <2> SUFFICES ASSUME n + 1 <= L PROVE g[n + 1] = f[n + 1]
    OBVIOUS
  <2>1. n + 1 \in 1 .. L /\ n + 1 \in 1 .. L + 1 /\ (n + 1) - 1 = n /\ g[n] = f[n]
    BY <1>1, <1>5
  <2>2. f[n + 1] = IF hist[n + 1].sent_to = None THEN Append(f[n], hist[n + 1]) ELSE f[n]
    BY <1>2, <2>1 DEF Filtering, L
  <2>3. g[n + 1] = IF more[n + 1].sent_to = None THEN Append(g[n], more[n + 1]) ELSE g[n]
    BY <1>1, <1>3, <2>1 DEF Filtering
  <2> QED
    BY <1>1, <2>1, <2>2, <2>3
<1>6. L \in T
  <2> HIDE DEF T
  <2> QED
    BY <1>1, <1>4, <1>5, Successors
<1>7. L + 1 \in 1 .. L + 1 /\ (L + 1) - 1 = L
  BY <1>1
<1>8. g[L + 1] = IF msg.sent_to = None THEN Append(g[L], msg) ELSE g[L]
  BY <1>1, <1>3, <1>7 DEF Filtering
<1> QED
  BY <1>1, <1>2, <1>3, <1>6, <1>8 DEF more

\* ... and one that makes room was the first of it, or none.
LEMMA PublicLess ==
    ASSUME NEW hist \in Seq(Message), hist # <<>>
    PROVE  Ends(get_history(Tail(hist)), get_history(hist))
<1> DEFINE L == Len(hist)
           rest == Tail(hist)
           M == Len(rest)
<1>1. /\ L \in Nat /\ rest \in Seq(Message) /\ M \in Nat /\ L = M + 1
      /\ \A n \in 1 .. M : rest[n] = hist[n + 1] /\ rest[n] \in Message
      /\ hist[1] \in Message
  OBVIOUS
<1> HIDE DEF L, rest, M
<1>2. PICK f : Filtering(hist, f) /\ get_history(hist) = f[L]
  BY <1>1, FilterIs DEF L
<1>3. PICK g : Filtering(rest, g) /\ get_history(rest) = g[M]
  BY <1>1, FilterIs DEF M
<1> DEFINE Part(n) == g[n] \in Seq(Public) /\ f[n + 1] \in Seq(Public) /\ Ends(g[n], f[n + 1])
           T == {n \in Nat : n <= M => Part(n)}
<1>4. 0 \in T
  <2>1. f[0] = <<>> /\ g[0] = <<>>
    BY <1>2, <1>3 DEF Filtering
  <2>2. 1 \in 1 .. L /\ 1 - 1 = 0
    BY <1>1
  <2>3. f[1] = IF hist[1].sent_to = None THEN Append(f[0], hist[1]) ELSE f[0]
    BY <1>2, <2>2 DEF Filtering, L
  <2>4. f[1] \in Seq(Public) /\ <<>> \in Seq(Public)
    <3>1. hist[1].sent_to = None => hist[1] \in Public
      BY <1>1 DEF Public
    <3> QED
      BY <2>1, <2>3, <3>1
  <2>5. Ends(<<>>, f[1])
    BY <2>4, EndsNothing
  <2>6. 0 + 1 = 1
    OBVIOUS
  <2> QED
    BY <2>1, <2>4, <2>5, <2>6
<1>5. ASSUME NEW n \in Nat, n \in T PROVE n + 1 \in T
  <2> SUFFICES ASSUME n + 1 <= M PROVE Part(n + 1)
    OBVIOUS
  <2>1. /\ n + 1 \in 1 .. M /\ (n + 1) + 1 \in 1 .. L /\ (n + 1) - 1 = n
        /\ ((n + 1) + 1) - 1 = n + 1 /\ Part(n)
    BY <1>1, <1>5
  <2> DEFINE msg == rest[n + 1]
  <2>2. msg \in Message /\ hist[(n + 1) + 1] = msg
    BY <1>1, <2>1
  <2> HIDE DEF msg
  <2>3. g[n + 1] = IF msg.sent_to = None THEN Append(g[n], msg) ELSE g[n]
    BY <1>3, <2>1 DEF Filtering, M, msg
  <2>4. f[(n + 1) + 1] = IF msg.sent_to = None THEN Append(f[n + 1], msg) ELSE f[n + 1]
    BY <1>2, <2>1, <2>2 DEF Filtering, L
  <2>5. CASE msg.sent_to = None
    <3>1. msg \in Public
      BY <2>2, <2>5 DEF Public
    <3>2. Append(g[n], msg) \in Seq(Public) /\ Append(f[n + 1], msg) \in Seq(Public)
      BY <2>1, <3>1
    <3>3. Ends(Append(g[n], msg), Append(f[n + 1], msg))
      BY <2>1, <3>1, EndsMore
    <3> QED
      BY <2>3, <2>4, <2>5, <3>2, <3>3
  <2>6. CASE msg.sent_to # None
    BY <2>1, <2>3, <2>4, <2>6
  <2> QED
    BY <2>5, <2>6
<1>6. M \in T
  <2> HIDE DEF T
  <2> QED
    BY <1>1, <1>4, <1>5, Successors
<1> QED
  BY <1>1, <1>2, <1>3, <1>6 DEF rest
------------------------------------------------------------------------------
(* A message that is saved and sent. *)

\* What push_history keeps of a history to make room.
LEMMA PushKeeps ==
    ASSUME NEW hist \in Seq(Message), NEW msg \in Message
    PROVE  \E kept \in Seq(Message) :
               /\ PushHistory(hist, msg) = Append(kept, msg)
               /\ Ends(get_history(kept), get_history(hist))
               /\ Increasing(hist) => Increasing(kept)
               /\ \A b : Below(hist, b) => Below(kept, b)
<1> DEFINE full == Len(hist) >= HistoryMax /\ hist # <<>>
<1>1. CASE full
  <2> DEFINE rest == Tail(hist)
  <2>1. PushHistory(hist, msg) = Append(rest, msg)
    BY <1>1 DEF PushHistory
  <2>2. rest \in Seq(Message) /\ Ends(get_history(rest), get_history(hist))
    BY <1>1, PublicLess
  <2>3. /\ DOMAIN rest = 1 .. Len(hist) - 1 /\ Len(hist) \in Nat /\ DOMAIN hist = 1 .. Len(hist)
        /\ \A i \in 1 .. Len(hist) - 1 : rest[i] = hist[i + 1]
    BY <1>1
  <2> HIDE DEF rest
  <2>4. \A i \in DOMAIN rest : i + 1 \in DOMAIN hist /\ rest[i] = hist[i + 1]
    BY <2>3
  <2>5. \A i, j \in DOMAIN rest : i < j => i + 1 < j + 1
    BY <2>3
  <2>6. Increasing(hist) => Increasing(rest)
    BY <2>4, <2>5 DEF Increasing
  <2>7. \A b : Below(hist, b) => Below(rest, b)
    BY <2>4 DEF Below
  <2> QED
    BY <2>1, <2>2, <2>6, <2>7
<1>2. CASE ~ full
  <2>1. PushHistory(hist, msg) = Append(hist, msg)
    BY <1>2 DEF PushHistory
  <2>2. Ends(get_history(hist), get_history(hist))
    BY PublicPart, EndsItself
  <2> QED
    BY <2>1, <2>2
<1> QED
  BY <1>1, <1>2

\* A log that ends in the history of a room does so after a public message, if it
\* is no shorter than histories are ...
LEMMA SavedAndSaid ==
    ASSUME NEW hist \in Seq(Message), NEW log \in Seq(Public), Ends(get_history(hist), log),
           NEW msg \in Public, LET new == PushHistory(hist, msg)
                               IN  Len(new) <= HistoryMax \/ Len(new) = 1,
           HistoryMax <= LogMax, 1 <= LogMax
    PROVE  Ends(get_history(PushHistory(hist, msg)), LastN(Append(log, msg)))
<1>0. msg \in Message /\ msg.sent_to = None
  BY DEF Public
<1>1. PICK kept \in Seq(Message) : /\ PushHistory(hist, msg) = Append(kept, msg)
                                   /\ Ends(get_history(kept), get_history(hist))
  BY <1>0, PushKeeps
<1> DEFINE new == PushHistory(hist, msg)
           public == get_history(kept)
<1>2. get_history(new) = Append(public, msg)
  BY <1>0, <1>1, PublicMore
<1>3. public \in Seq(Public) /\ get_history(hist) \in Seq(Public) /\ new \in Seq(Message)
  BY <1>0, <1>1, PublicPart
<1>4. Ends(public, log)
  BY <1>1, <1>3, EndsOf
<1>5. Ends(get_history(new), Append(log, msg))
  BY <1>2, <1>3, <1>4, EndsMore
<1>6. Len(get_history(new)) <= LogMax
  <2>1. Len(get_history(new)) <= Len(new) /\ get_history(new) \in Seq(Public)
    BY <1>3, PublicPart
  <2>2. Len(new) \in Nat /\ Len(get_history(new)) \in Nat
    BY <1>3, <2>1
  <2>3. Len(new) <= HistoryMax \/ Len(new) = 1
    OBVIOUS
  <2>4. HistoryMax \in Nat /\ LogMax \in Nat
    BY ClientsAssumption, TalkerAssumption
  <2> DEFINE l == Len(get_history(new))
             n == Len(new)
  <2>5. l \in Nat /\ n \in Nat /\ l <= n /\ (n <= HistoryMax \/ n = 1)
    BY <2>1, <2>2, <2>3
  <2> HIDE DEF l, n
  <2>6. l <= LogMax
    BY <2>4, <2>5
  <2> QED
    BY <2>6 DEF l
<1> QED
  <2>1. get_history(new) \in Seq(Public) /\ Append(log, msg) \in Seq(Public)
    BY <1>3, PublicPart
  <2> HIDE DEF new
  <2>2. Ends(get_history(new), LastN(Append(log, msg)))
    BY <1>5, <1>6, <2>1, EndsLast
  <2> QED
    BY <2>2 DEF new

\* ... and after a private one, which it does not hold.
LEMMA SavedOnly ==
    ASSUME NEW hist \in Seq(Message), NEW log \in Seq(Public), Ends(get_history(hist), log),
           NEW msg \in Message, msg.sent_to # None
    PROVE  Ends(get_history(PushHistory(hist, msg)), log)
<1>1. PICK kept \in Seq(Message) : /\ PushHistory(hist, msg) = Append(kept, msg)
                                   /\ Ends(get_history(kept), get_history(hist))
  BY PushKeeps
<1>2. get_history(PushHistory(hist, msg)) = get_history(kept)
  BY <1>1, PublicMore
<1>3. get_history(kept) \in Seq(Public) /\ get_history(hist) \in Seq(Public)
  BY PublicPart
<1> QED
  BY <1>1, <1>2, <1>3, EndsOf

\* An id above all the others keeps the order.
LEMMA OrderMore ==
    ASSUME NEW s \in Seq(Message), NEW msg \in Message, Increasing(s), Below(s, msg.id)
    PROVE  /\ Increasing(Append(s, msg))
           /\ \A b \in Nat : msg.id < b => Below(Append(s, msg), b)
<1> DEFINE n == Len(s)
           more == Append(s, msg)
<1>1. /\ n \in Nat /\ DOMAIN s = 1 .. n /\ DOMAIN more = 1 .. n + 1 /\ more[n + 1] = msg
      /\ \A i \in 1 .. n : more[i] = s[i] /\ s[i] \in Message
  OBVIOUS
<1>i. msg.id \in Nat /\ \A i \in 1 .. n : s[i].id \in Nat
  BY <1>1 DEF Message
<1> HIDE DEF n, more
<1>2. \A i \in 1 .. n + 1 : i \in 1 .. n \/ i = n + 1
  BY <1>1
<1>3. ASSUME NEW i \in 1 .. n + 1, NEW j \in 1 .. n + 1, i < j PROVE more[i].id < more[j].id
  <2>1. i \in 1 .. n
    BY <1>1, <1>3
  <2>2. CASE j \in 1 .. n
    BY <1>1, <1>3, <2>1, <2>2 DEF Increasing
  <2>3. CASE j = n + 1
    BY <1>1, <2>1, <2>3 DEF Below
  <2> QED
    BY <1>2, <2>2, <2>3
<1>4. ASSUME NEW b \in Nat, msg.id < b, NEW i \in 1 .. n + 1 PROVE more[i].id < b
  <2>1. CASE i \in 1 .. n
    <3>1. more[i].id < msg.id /\ more[i].id \in Nat
      BY <1>1, <1>i, <2>1 DEF Below
    <3> QED
      BY <1>i, <1>4, <3>1
  <2>2. CASE i = n + 1
    BY <1>1, <1>4, <2>2
  <2> QED
    BY <1>2, <2>1, <2>2
<1> QED
  BY <1>1, <1>3, <1>4 DEF Increasing, Below, more

LEMMA SavedOrder ==
    ASSUME NEW hist \in Seq(Message), NEW msg \in Message, Increasing(hist),
           Below(hist, msg.id)
    PROVE  /\ Increasing(PushHistory(hist, msg))
           /\ \A b \in Nat : msg.id < b => Below(PushHistory(hist, msg), b)
<1>1. PICK kept \in Seq(Message) : /\ PushHistory(hist, msg) = Append(kept, msg)
                                   /\ Increasing(kept) /\ Below(kept, msg.id)
  BY PushKeeps
<1> QED
  BY <1>1, OrderMore

LEMMA SaidOrder ==
    ASSUME NEW log \in Seq(Public), NEW msg \in Public, Increasing(log), Below(log, msg.id)
    PROVE  LET new == LastN(Append(log, msg))
           IN  new \in Seq(Public) /\ Increasing(new) /\ \A b \in Nat : msg.id < b => Below(new, b)
<1>1. log \in Seq(Message) /\ msg \in Message
  <2>1. Public \subseteq Message
    BY DEF Public
  <2> QED
    BY <2>1
<1>2. /\ Append(log, msg) \in Seq(Public) /\ Increasing(Append(log, msg))
      /\ \A b \in Nat : msg.id < b => Below(Append(log, msg), b)
  BY <1>1, OrderMore
<1> QED
  BY <1>2, LastNOf, LastNOrder

------------------------------------------------------------------------------
(* The invariant. *)

\* Logs are public, and so is the history a join has put aside, which is still
\* that of its room.
LogsOK ==
    /\ \A u \in UserID, r \in RoomID : client[u].log[r] \in Seq(Public)
    /\ \A d \in Pending(task) : d.hist = get_history(messages[d.rid])

\* What is saved of a room ends the log of every member but the one who has joined
\* it and not been sent its history yet.
Remembered ==
    panicked = None =>
        \A u \in UserID : \A r \in RoomsIn(in_rooms[u]) :
            u \notin Unannounced(r) => Ends(get_history(messages[r]), client[u].log[r])

\* Ids increase wherever there are some, and the one that a join has put aside is
\* still above all those of its room.
InOrder ==
    /\ \A r \in RoomID : Increasing(messages[r]) /\ Below(messages[r], msgid_counter)
    /\ \A u \in UserID, r \in RoomID :
           Increasing(client[u].log[r]) /\ Below(client[u].log[r], msgid_counter)
    /\ \A d \in Pending(task) : /\ d.mid < msgid_counter /\ Below(messages[d.rid], d.mid)
                                /\ \A u \in UserID : Below(client[u].log[d.rid], d.mid)

\* The kinds of steps.  What a user remembers of a room it is in grows by what is
\* said to mem in room rid, and not otherwise.
LogsAfter(rid, mem, msg) ==
    \A u \in UserID, r \in RoomID :
        IF u \in mem /\ r = rid
        THEN client'[u].log[r] = LastN(Append(client[u].log[r], msg))
        ELSE \/ client'[u].log[r] = client[u].log[r]
             \/ client'[u].log[r] = <<>> /\ r \notin RoomsIn(in_rooms'[u])
NoRoomsMore == \A u \in UserID : RoomsIn(in_rooms'[u]) \subseteq RoomsIn(in_rooms[u])

\* Nothing is saved or said, but an id may be spent, or a history forgotten ...
Quiet ==
    /\ \A rid, msg : LogsAfter(rid, {}, msg)
    /\ NoRoomsMore
    /\ \/ messages' = messages
       \/ Pending(task') = {} /\ \A r \in RoomID : messages'[r] \in {messages[r], <<>>}
    /\ Pending(task') \subseteq Pending(task)
    /\ msgid_counter' \in {msgid_counter, NextMessageID}
    /\ panicked' = None => /\ panicked = None
                           /\ \A r \in RoomID : Unannounced(r) \subseteq Unannounced(r)'

\* ... a message is saved, and said to all of the room if it is public ...
Speaks(rid, mem, msg) ==
    /\ rid \in RoomID /\ msg \in Message /\ msg.id = msgid_counter
    /\ msgid_counter' = NextMessageID /\ panicked = None
    /\ messages' = [messages EXCEPT ![rid] = PushHistory(@, msg)]
    /\ LogsAfter(rid, mem, msg) /\ NoRoomsMore
    /\ Pending(task) = {} /\ Pending(task') = {}
    /\ IF msg.sent_to = None
       THEN \A u \in UserID : rid \in RoomsIn(in_rooms'[u]) => u \in mem
       ELSE mem = {}

\* ... a room is joined ...
Joins(sid, rid, d) ==
    Joining(sid, rid, d) /\ msgid_counter' = NextMessageID /\ UNCHANGED messages

\* ... or its second half comes.
Completes(sid, d, msg) ==
    /\ sid = task.sid /\ d \in Pending(task) /\ d.rid \in RoomID /\ panicked = None
    /\ msg \in Public /\ msg.id = d.mid
    /\ messages' = [messages EXCEPT ![d.rid] = PushHistory(@, msg)]
    /\ Briefed(client', sid, d.rid, d.hist, msg)
    /\ UNCHANGED <<in_rooms, msgid_counter>>
    /\ \A e \in Pending(task') : e \in Pending(task) /\ e.rid # d.rid
    /\ \A e \in Pending(task) : e \in Pending(task') \/ e.rid = d.rid
    /\ Pending(task') # {} => task'.sid = sid

PendingType == \A d \in Pending(task) : d.rid \in RoomID /\ d.mid \in Nat

LEMMA PendingIsTyped == ASSUME TypeOK PROVE PendingType
  BY DEF TypeOK, IsTask, PendingType

LEMMA MessagesAre ==
    ASSUME TypeOK
    PROVE  /\ messages = [r \in RoomID |-> messages[r]]
           /\ \A r \in RoomID : messages[r] \in Seq(Message)
           /\ msgid_counter \in Nat
  BY TalkerAssumption DEF TypeOK

LEMMA SavedMessages ==
    ASSUME TypeOK, NEW rid \in RoomID, NEW msg,
           messages' = [messages EXCEPT ![rid] = PushHistory(@, msg)]
    PROVE  \A r \in RoomID : messages'[r] = IF r = rid THEN PushHistory(messages[r], msg)
                                                       ELSE messages[r]
  BY DEF TypeOK

LEMMA PublicMessages == Public \subseteq Message /\ Seq(Public) \subseteq Seq(Message)
<1>1. Public \subseteq Message
  BY DEF Public
<1> QED
  BY <1>1
------------------------------------------------------------------------------
(* Logs are public. *)

\* A log of public messages stays one, if what is said is public.
LEMMA LogsAfterPublic ==
    ASSUME LogsOK, NEW rid, NEW mem, NEW msg, mem = {} \/ msg \in Public,
           LogsAfter(rid, mem, msg), NEW u \in UserID, NEW r \in RoomID
    PROVE  client'[u].log[r] \in Seq(Public)
<1>1. client[u].log[r] \in Seq(Public)
  BY DEF LogsOK
<1>2. CASE u \in mem /\ r = rid
  <2>1. client'[u].log[r] = LastN(Append(client[u].log[r], msg))
    BY <1>2 DEF LogsAfter
  <2> DEFINE more == Append(client[u].log[r], msg)
  <2>2. more \in Seq(Public)
    BY <1>1, <1>2
  <2> HIDE DEF more
  <2>3. LastN(more) \in Seq(Public)
    BY <2>2, LastNOf
  <2> QED
    BY <2>1, <2>3 DEF more
<1>3. CASE ~ (u \in mem /\ r = rid)
  <2>1. client'[u].log[r] \in {client[u].log[r], <<>>}
    BY <1>3 DEF LogsAfter
  <2>2. <<>> \in Seq(Public)
    OBVIOUS
  <2> QED
    BY <1>1, <2>1, <2>2
<1> QED
  BY <1>2, <1>3

LEMMA LogsQuiet == ASSUME TypeOK, LogsOK, Quiet PROVE LogsOK'
<1>1. \A u \in UserID, r \in RoomID : client'[u].log[r] \in Seq(Public)
  BY LogsAfterPublic DEF Quiet
<1>2. \A d \in Pending(task') : d.hist = get_history(messages'[d.rid])
  BY DEF Quiet, LogsOK
<1> QED
  BY <1>1, <1>2 DEF LogsOK

LEMMA LogsSpeaks ==
    ASSUME TypeOK, LogsOK, NEW rid, NEW mem, NEW msg, Speaks(rid, mem, msg) PROVE LogsOK'
<1>1. mem = {} \/ msg \in Public
  BY DEF Speaks, Public
<1>2. \A u \in UserID, r \in RoomID : client'[u].log[r] \in Seq(Public)
  BY <1>1, LogsAfterPublic DEF Speaks
<1> QED
  BY <1>2 DEF LogsOK, Speaks

LEMMA LogsJoins ==
    ASSUME TypeOK, LogsOK, NEW sid, NEW rid, NEW d, Joins(sid, rid, d) PROVE LogsOK'
  BY DEF Joins, Joining, LogsOK

LEMMA LogsCompletes ==
    ASSUME TypeOK, LogsOK, NEW sid, NEW d, NEW msg, Completes(sid, d, msg) PROVE LogsOK'
<1>1. d.hist \in Seq(Public)
  <2>1. d.hist = get_history(messages[d.rid]) /\ messages[d.rid] \in Seq(Message)
    BY MessagesAre DEF LogsOK, Completes
  <2> QED
    BY <2>1, PublicPart
<1>2. ASSUME NEW u \in UserID, NEW r \in RoomID PROVE client'[u].log[r] \in Seq(Public)
  <2> DEFINE old == IF u = sid THEN LastN(d.hist) ELSE client[u].log[r]
  <2>1. client[u].log[r] \in Seq(Public) /\ old \in Seq(Public)
    BY <1>1, LastNOf DEF LogsOK
  <2>2. client'[u].log[r] = client[u].log[r] \/ client'[u].log[r] = LastN(Append(old, msg))
    BY DEF Completes, Briefed
  <2> HIDE DEF old
  <2> DEFINE more == Append(old, msg)
  <2>3. more \in Seq(Public)
    BY <2>1 DEF Completes
  <2> HIDE DEF more
  <2>4. LastN(more) \in Seq(Public)
    BY <2>3, LastNOf
  <2> QED
    BY <2>1, <2>2, <2>4 DEF more
<1>3. \A e \in Pending(task') : e.hist = get_history(messages'[e.rid])
  <2> TAKE e \in Pending(task')
  <2>1. e \in Pending(task) /\ e.rid # d.rid /\ e.rid \in RoomID
    BY PendingIsTyped DEF Completes, PendingType
  <2>2. messages'[e.rid] = messages[e.rid]
    BY <2>1, SavedMessages DEF Completes
  <2> QED
    BY <2>1, <2>2 DEF LogsOK
<1> QED
  BY <1>2, <1>3 DEF LogsOK

------------------------------------------------------------------------------
(* Histories are remembered. *)

LEMMA NothingSaved == get_history(<<>>) = <<>>
<1>1. <<>> \in Seq(Message) /\ Len(<<>>) = 0
  OBVIOUS
<1>2. get_history(<<>>) \in Seq(Public) /\ Len(get_history(<<>>)) <= 0
  BY <1>1, PublicPart
<1> QED
  BY <1>2

LEMMA RememberedQuiet ==
    ASSUME TypeOK, LogsOK, Remembered, Quiet PROVE Remembered'
<1> SUFFICES ASSUME panicked' = None, NEW u \in UserID, NEW r \in RoomsIn(in_rooms'[u]),
                    u \notin Unannounced(r)'
             PROVE  Ends(get_history(messages'[r]), client'[u].log[r])
  BY DEF Remembered
<1>1. r \in RoomsIn(in_rooms[u]) /\ r \in RoomID /\ panicked = None
  BY RoomsType DEF Quiet, NoRoomsMore
<1>2. u \notin Unannounced(r)
  BY <1>1 DEF Quiet
<1>3. Ends(get_history(messages[r]), client[u].log[r])
  BY <1>1, <1>2 DEF Remembered
<1>4. client'[u].log[r] = client[u].log[r]
  BY <1>1 DEF Quiet, LogsAfter
<1>5. messages'[r] = messages[r] \/ messages'[r] = <<>>
  BY <1>1 DEF Quiet
<1>6. client[u].log[r] \in Seq(Public)
  BY <1>1 DEF LogsOK
<1>7. Ends(<<>>, client[u].log[r])
  BY <1>6, EndsNothing
<1> QED
  BY <1>3, <1>4, <1>5, <1>7, NothingSaved

LEMMA RememberedSpeaks ==
    ASSUME TypeOK, LogsOK, HistoryBounded, Remembered, HistoryMax <= LogMax, 1 <= LogMax,
           NEW rid, NEW mem, NEW msg, Speaks(rid, mem, msg)
    PROVE  Remembered'
<1> SUFFICES ASSUME NEW u \in UserID, NEW r \in RoomsIn(in_rooms'[u])
             PROVE  Ends(get_history(messages'[r]), client'[u].log[r])
  BY DEF Remembered
<1>1. /\ r \in RoomsIn(in_rooms[u]) /\ r \in RoomID /\ rid \in RoomID /\ msg \in Message
      /\ panicked = None
  BY RoomsType DEF Speaks, NoRoomsMore
<1>2. Ends(get_history(messages[r]), client[u].log[r])
  BY <1>1 DEF Remembered, Speaks, Unannounced
<1>3. messages'[r] = IF r = rid THEN PushHistory(messages[r], msg) ELSE messages[r]
  BY <1>1, SavedMessages DEF Speaks
<1>4. IF u \in mem /\ r = rid
      THEN client'[u].log[r] = LastN(Append(client[u].log[r], msg))
      ELSE client'[u].log[r] = client[u].log[r]
  BY <1>1 DEF Speaks, LogsAfter
<1>5. messages[r] \in Seq(Message) /\ client[u].log[r] \in Seq(Public)
  BY <1>1, MessagesAre DEF LogsOK
<1>6. CASE r # rid
  BY <1>2, <1>3, <1>4, <1>6
<1>7. CASE r = rid /\ msg.sent_to # None
  <2>1. mem = {}
    BY <1>7 DEF Speaks
  <2>2. Ends(get_history(PushHistory(messages[r], msg)), client[u].log[r])
    BY <1>1, <1>2, <1>5, <1>7, SavedOnly
  <2> QED
    BY <1>3, <1>4, <1>7, <2>1, <2>2
<1>8. CASE r = rid /\ msg.sent_to = None
  <2>1. u \in mem /\ msg \in Public
    BY <1>1, <1>8 DEF Speaks, Public
  <2> DEFINE new == PushHistory(messages[r], msg)
  <2>2. Len(new) <= HistoryMax \/ Len(new) = 1
    BY <1>1, <1>5, PushBounded DEF HistoryBounded
  <2> HIDE DEF new
  <2>3. Ends(get_history(new), LastN(Append(client[u].log[r], msg)))
    BY <1>2, <1>5, <2>1, <2>2, SavedAndSaid DEF new
  <2> QED
    BY <1>3, <1>4, <1>8, <2>1, <2>3 DEF new
<1> QED
  BY <1>6, <1>7, <1>8

LEMMA RememberedJoins ==
    ASSUME TypeOK, Remembered, NEW sid, NEW rid, NEW d, Joins(sid, rid, d) PROVE Remembered'
<1> SUFFICES ASSUME NEW u \in UserID, NEW r \in RoomsIn(in_rooms'[u]), u \notin Unannounced(r)'
             PROVE  Ends(get_history(messages'[r]), client'[u].log[r])
  BY DEF Remembered
<1>1. /\ task'.sid = sid /\ task.sid = sid /\ Pending(task') = Pending(task) \cup {d}
      /\ d.rid = rid /\ UNCHANGED <<messages, client>> /\ panicked = None /\ sid \in UserID
      /\ RoomsIn(in_rooms'[sid]) = RoomsIn(in_rooms[sid]) \cup {rid}
      /\ in_rooms' = [in_rooms EXCEPT ![sid] = AddRoom(@, rid)]
  BY DEF Joins, Joining
<1>2. u # sid => in_rooms'[u] = in_rooms[u]
  BY <1>1 DEF TypeOK
<1>3. Unannounced(rid)' = {sid} /\ Unannounced(r) \subseteq Unannounced(r)'
  BY <1>1 DEF Unannounced
<1>4. r \in RoomsIn(in_rooms[u]) /\ u \notin Unannounced(r)
  BY <1>1, <1>2, <1>3
<1> QED
  BY <1>1, <1>4 DEF Remembered

LEMMA RememberedCompletes ==
    ASSUME TypeOK, IInv, LogsOK, HistoryBounded, Remembered, HistoryMax <= LogMax, 1 <= LogMax,
           NEW sid, NEW d, NEW msg, Completes(sid, d, msg)
    PROVE  Remembered'
<1> SUFFICES ASSUME NEW u \in UserID, NEW r \in RoomsIn(in_rooms'[u]), u \notin Unannounced(r)'
             PROVE  Ends(get_history(messages'[r]), client'[u].log[r])
  BY DEF Remembered
<1> DEFINE rid == d.rid
           hist == get_history(messages[rid])
<1>1. /\ r \in RoomsIn(in_rooms[u]) /\ r \in RoomID /\ rid \in RoomID /\ msg \in Public
      /\ panicked = None /\ sid = task.sid /\ d \in Pending(task)
  BY RoomsType DEF Completes
<1>2. messages'[r] = IF r = rid THEN PushHistory(messages[r], msg) ELSE messages[r]
  BY <1>1, SavedMessages DEF Completes
<1>3. client'[u].log[r] =
          IF r # rid \/ u \notin members[rid] THEN client[u].log[r]
          ELSE LastN(Append(IF u = sid THEN LastN(d.hist) ELSE client[u].log[r], msg))
  BY <1>1 DEF Completes, Briefed
<1>4. messages[r] \in Seq(Message) /\ client[u].log[r] \in Seq(Public) /\ d.hist = hist
  BY <1>1, MessagesAre DEF LogsOK
<1>5. CASE r # rid
  <2>1. u \notin Unannounced(r)
    <3> SUFFICES ASSUME u \in Unannounced(r) PROVE FALSE
      OBVIOUS
    <3>1. PICK e \in Pending(task) : e.rid = r
      BY DEF Unannounced
    <3>2. u = sid /\ e \in Pending(task')
      BY <1>1, <1>5, <3>1 DEF Unannounced, Completes
    <3>3. task'.sid = sid
      BY <3>2 DEF Completes
    <3> QED
      BY <3>1, <3>2, <3>3 DEF Unannounced
  <2>2. Ends(get_history(messages[r]), client[u].log[r])
    BY <1>1, <2>1 DEF Remembered
  <2> QED
    BY <1>2, <1>3, <1>5, <2>2
<1>6. CASE r = rid
  <2> DEFINE old == IF u = sid THEN LastN(hist) ELSE client[u].log[r]
  <2>1. u \in members[rid]
    BY <1>1, <1>6, RoomsOfUser
  <2>2. old \in Seq(Public) /\ Ends(hist, old)
    <3>1. CASE u = sid
      <4>1. hist \in Seq(Public) /\ Len(hist) <= Len(messages[r])
        BY <1>4, <1>6, PublicPart
      <4>2. Len(messages[r]) <= HistoryMax \/ Len(messages[r]) = 1
        BY <1>1 DEF HistoryBounded
      <4> HIDE DEF hist
      <4>3. Len(hist) <= LogMax
        <5>1. Len(hist) \in Nat /\ Len(messages[r]) \in Nat
          BY <1>4, <4>1
        <5>2. HistoryMax \in Nat /\ LogMax \in Nat
          BY ClientsAssumption, TalkerAssumption
        <5> DEFINE l == Len(hist)
                   n == Len(messages[r])
        <5>3. l \in Nat /\ n \in Nat /\ l <= n /\ (n <= HistoryMax \/ n = 1)
          BY <4>1, <4>2, <5>1
        <5> HIDE DEF l, n
        <5>4. l <= LogMax
          BY <5>2, <5>3
        <5> QED
          BY <5>4 DEF l
      <4>4. Ends(hist, LastN(hist))
        BY <4>1, <4>3, EndsItself, EndsLast
      <4>5. LastN(hist) \in Seq(Public)
        BY <4>1, LastNOf
      <4> QED
        BY <3>1, <4>4, <4>5
    <3>2. CASE u # sid
      <4>1. u \notin Unannounced(r)
        BY <1>1, <3>2 DEF Unannounced
      <4>2. Ends(get_history(messages[r]), client[u].log[r])
        BY <1>1, <4>1 DEF Remembered
      <4> QED
        BY <1>4, <1>6, <3>2, <4>2
    <3> QED
      BY <3>1, <3>2
  <2>3. client'[u].log[r] = LastN(Append(old, msg))
    BY <1>3, <1>4, <1>6, <2>1
  <2> HIDE DEF old
  <2> DEFINE new == PushHistory(messages[r], msg)
  <2>4. Len(new) <= HistoryMax \/ Len(new) = 1
    BY <1>1, <1>4, PushBounded DEF HistoryBounded
  <2> HIDE DEF new
  <2>5. Ends(get_history(new), LastN(Append(old, msg)))
    BY <1>1, <1>4, <1>6, <2>2, <2>4, SavedAndSaid DEF new
  <2> QED
    BY <1>2, <1>6, <2>3, <2>5 DEF new
<1> QED
  BY <1>5, <1>6
------------------------------------------------------------------------------
(* Ids are in order. *)

LEMMA NextIs ==
    ASSUME TypeOK, msgid_counter + 1 < MessageIDs
    PROVE  NextMessageID = msgid_counter + 1
<1>1. msgid_counter \in Nat /\ MessageIDs \in Nat \ {0}
  BY MessagesAre, TalkerAssumption
<1> QED
  BY <1>1 DEF NextMessageID

LEMMA BelowMore ==
    ASSUME NEW s \in Seq(Message), NEW n \in Nat, NEW m \in Nat, n <= m, Below(s, n)
    PROVE  Below(s, m)
<1>1. \A i \in DOMAIN s : s[i].id \in Nat
  <2>1. \A i \in DOMAIN s : s[i] \in Message
    OBVIOUS
  <2> QED
    BY <2>1 DEF Message
<1> QED
  BY <1>1 DEF Below

LEMMA NothingInOrder == Increasing(<<>>) /\ \A b : Below(<<>>, b)
<1>1. DOMAIN <<>> = {}
  OBVIOUS
<1> QED
  BY <1>1 DEF Increasing, Below

\* A log stays in order if what is said has an id above those it holds.
LEMMA LogsAfterOrder ==
    ASSUME LogsOK, NEW rid, NEW mem, NEW msg, mem = {} \/ msg \in Public,
           LogsAfter(rid, mem, msg), NEW u \in UserID, NEW r \in RoomID, NEW b \in Nat,
           Increasing(client[u].log[r]), Below(client[u].log[r], b),
           mem # {} => Below(client[u].log[r], msg.id) /\ msg.id < b
    PROVE  Increasing(client'[u].log[r]) /\ Below(client'[u].log[r], b)
<1> DEFINE log == client[u].log[r]
           new == LastN(Append(log, msg))
<1>1. log \in Seq(Public)
  BY DEF LogsOK
<1>2. CASE u \in mem /\ r = rid
  <2>1. client'[u].log[r] = new
    BY <1>2 DEF LogsAfter
  <2>2. msg \in Public /\ Below(log, msg.id) /\ msg.id < b
    BY <1>2
  <2>3. Increasing(new) /\ Below(new, b)
    <3> HIDE DEF log
    <3> QED
      BY <1>1, <2>2, SaidOrder DEF log
  <2> HIDE DEF new
  <2> QED
    BY <2>1, <2>3
<1>3. CASE ~ (u \in mem /\ r = rid)
  <2>1. client'[u].log[r] = log \/ client'[u].log[r] = <<>>
    BY <1>3 DEF LogsAfter
  <2> QED
    BY <2>1, NothingInOrder
<1> QED
  BY <1>2, <1>3

LEMMA OrderQuiet ==
    ASSUME TypeOK, LogsOK, InOrder, msgid_counter + 1 < MessageIDs, Quiet PROVE InOrder'
<1>1. /\ msgid_counter \in Nat /\ msgid_counter' \in Nat /\ msgid_counter <= msgid_counter'
      /\ \A r \in RoomID : messages[r] \in Seq(Message)
      /\ \A u \in UserID, r \in RoomID : client[u].log[r] \in Seq(Message)
  BY MessagesAre, NextIs, PublicMessages DEF Quiet, LogsOK
<1>2. ASSUME NEW r \in RoomID PROVE Increasing(messages'[r]) /\ Below(messages'[r], msgid_counter')
  <2>1. Increasing(messages[r]) /\ Below(messages[r], msgid_counter')
    BY <1>1, BelowMore DEF InOrder
  <2>2. messages'[r] \in {messages[r], <<>>}
    BY DEF Quiet
  <2> QED
    BY <2>1, <2>2, NothingInOrder
<1>3. ASSUME NEW u \in UserID, NEW r \in RoomID
      PROVE  /\ Increasing(client'[u].log[r]) /\ Below(client'[u].log[r], msgid_counter')
             /\ client'[u].log[r] \in {client[u].log[r], <<>>}
  <2>1. client'[u].log[r] \in {client[u].log[r], <<>>}
    BY DEF Quiet, LogsAfter
  <2>2. Increasing(client[u].log[r]) /\ Below(client[u].log[r], msgid_counter')
    BY <1>1, BelowMore DEF InOrder
  <2> QED
    BY <2>1, <2>2, NothingInOrder
<1>4. ASSUME NEW d \in Pending(task')
      PROVE  /\ d.mid < msgid_counter' /\ Below(messages'[d.rid], d.mid)
             /\ \A u \in UserID : Below(client'[u].log[d.rid], d.mid)
  <2>1. d \in Pending(task) /\ d.rid \in RoomID /\ d.mid \in Nat /\ messages' = messages
    BY <1>4, PendingIsTyped DEF Quiet, PendingType
  <2>2. /\ d.mid < msgid_counter /\ Below(messages[d.rid], d.mid)
        /\ \A u \in UserID : Below(client[u].log[d.rid], d.mid)
    BY <2>1 DEF InOrder
  <2>3. d.mid < msgid_counter'
    BY <1>1, <2>1, <2>2
  <2>4. \A u \in UserID : Below(client'[u].log[d.rid], d.mid)
    BY <1>3, <2>1, <2>2, NothingInOrder
  <2> QED
    BY <2>1, <2>2, <2>3, <2>4
<1> QED
  BY <1>2, <1>3, <1>4 DEF InOrder

LEMMA OrderSpeaks ==
    ASSUME TypeOK, LogsOK, InOrder, msgid_counter + 1 < MessageIDs,
           NEW rid, NEW mem, NEW msg, Speaks(rid, mem, msg)
    PROVE  InOrder'
<1>1. /\ msgid_counter \in Nat /\ msgid_counter' = msgid_counter + 1
      /\ \A r \in RoomID : messages[r] \in Seq(Message)
      /\ \A u \in UserID, r \in RoomID : client[u].log[r] \in Seq(Message)
  BY MessagesAre, NextIs, PublicMessages DEF Speaks, LogsOK
<1>2. /\ rid \in RoomID /\ msg \in Message /\ msg.id = msgid_counter /\ LogsAfter(rid, mem, msg)
      /\ (mem = {} \/ msg \in Public) /\ Pending(task') = {}
  BY DEF Speaks, Public
<1>3. msgid_counter' \in Nat /\ msgid_counter <= msgid_counter' /\ msg.id < msgid_counter'
  BY <1>1, <1>2
<1>4. ASSUME NEW r \in RoomID PROVE Increasing(messages'[r]) /\ Below(messages'[r], msgid_counter')
  <2>1. Increasing(messages[r]) /\ Below(messages[r], msg.id)
    BY <1>2 DEF InOrder
  <2>2. messages'[r] = IF r = rid THEN PushHistory(messages[r], msg) ELSE messages[r]
    BY <1>2, SavedMessages DEF Speaks
  <2>3. CASE r = rid
    BY <1>1, <1>2, <1>3, <2>1, <2>2, <2>3, SavedOrder
  <2>4. CASE r # rid
    BY <1>1, <1>2, <1>3, <2>1, <2>2, <2>4, BelowMore
  <2> QED
    BY <2>3, <2>4
<1>5. ASSUME NEW u \in UserID, NEW r \in RoomID
      PROVE  Increasing(client'[u].log[r]) /\ Below(client'[u].log[r], msgid_counter')
  <2>1. Increasing(client[u].log[r]) /\ Below(client[u].log[r], msg.id)
    BY <1>2 DEF InOrder
  <2>2. Below(client[u].log[r], msgid_counter')
    BY <1>1, <1>2, <1>3, <2>1, BelowMore
  <2> QED
    BY <1>2, <1>3, <2>1, <2>2, LogsAfterOrder
<1> QED
  BY <1>2, <1>4, <1>5 DEF InOrder

LEMMA OrderJoins ==
    ASSUME TypeOK, LogsOK, InOrder, msgid_counter + 1 < MessageIDs,
           NEW sid, NEW rid, NEW d, Joins(sid, rid, d)
    PROVE  InOrder'
<1>1. /\ msgid_counter \in Nat /\ msgid_counter' = msgid_counter + 1
      /\ \A r \in RoomID : messages[r] \in Seq(Message)
      /\ \A u \in UserID, r \in RoomID : client[u].log[r] \in Seq(Message)
  BY MessagesAre, NextIs, PublicMessages DEF Joins, LogsOK
<1>2. /\ UNCHANGED <<messages, client>> /\ rid \in RoomID /\ d.rid = rid /\ d.mid = msgid_counter
      /\ Pending(task') = Pending(task) \cup {d}
  BY DEF Joins, Joining
<1>3. msgid_counter' \in Nat /\ msgid_counter <= msgid_counter' /\ msgid_counter < msgid_counter'
  BY <1>1
<1>4. \A r \in RoomID : Increasing(messages'[r]) /\ Below(messages'[r], msgid_counter')
  BY <1>1, <1>2, <1>3, BelowMore DEF InOrder
<1>5. \A u \in UserID, r \in RoomID :
          Increasing(client'[u].log[r]) /\ Below(client'[u].log[r], msgid_counter')
  BY <1>1, <1>2, <1>3, BelowMore DEF InOrder
<1>6. ASSUME NEW e \in Pending(task')
      PROVE  /\ e.mid < msgid_counter' /\ Below(messages'[e.rid], e.mid)
             /\ \A u \in UserID : Below(client'[u].log[e.rid], e.mid)
  <2>1. CASE e = d
    BY <1>2, <1>3, <2>1 DEF InOrder
  <2>2. CASE e \in Pending(task)
    <3>1. e.mid \in Nat
      BY <2>2, PendingIsTyped DEF PendingType
    <3>2. /\ e.mid < msgid_counter /\ Below(messages[e.rid], e.mid)
          /\ \A u \in UserID : Below(client[u].log[e.rid], e.mid)
      BY <2>2 DEF InOrder
    <3>3. e.mid < msgid_counter'
      BY <1>1, <3>1, <3>2
    <3> QED
      BY <1>2, <3>2, <3>3
  <2> QED
    BY <1>2, <2>1, <2>2
<1> QED
  BY <1>4, <1>5, <1>6 DEF InOrder

LEMMA OrderCompletes ==
    ASSUME TypeOK, LogsOK, InOrder, NEW sid, NEW d, NEW msg, Completes(sid, d, msg)
    PROVE  InOrder'
<1> DEFINE rid == d.rid
           hist == get_history(messages[rid])
<1>1. /\ rid \in RoomID /\ msg \in Public /\ msg \in Message /\ d \in Pending(task)
      /\ msg.id = d.mid /\ msgid_counter' = msgid_counter /\ msgid_counter \in Nat
  BY MessagesAre, PublicMessages DEF Completes
<1>2. /\ msg.id < msgid_counter /\ Below(messages[rid], msg.id)
      /\ \A u \in UserID : Below(client[u].log[rid], msg.id)
  BY <1>1 DEF InOrder
<1>3. messages[rid] \in Seq(Message) /\ Increasing(messages[rid]) /\ d.hist = hist
  BY <1>1, MessagesAre DEF LogsOK, InOrder
<1>4. \A r \in RoomID : messages'[r] = IF r = rid THEN PushHistory(messages[r], msg)
                                                  ELSE messages[r]
  BY <1>1, SavedMessages DEF Completes
<1>5. \A u \in UserID, r \in RoomID :
          client'[u].log[r] =
              IF r # rid \/ u \notin members[rid] THEN client[u].log[r]
              ELSE LastN(Append(IF u = sid THEN LastN(hist) ELSE client[u].log[r], msg))
  BY <1>3 DEF Completes, Briefed
<1>6. ASSUME NEW r \in RoomID PROVE Increasing(messages'[r]) /\ Below(messages'[r], msgid_counter')
  <2>1. CASE r = rid
    BY <1>1, <1>2, <1>3, <1>4, <2>1, SavedOrder
  <2>2. CASE r # rid
    BY <1>1, <1>4, <2>2 DEF InOrder
  <2> QED
    BY <2>1, <2>2
<1>7. ASSUME NEW u \in UserID, NEW r \in RoomID
      PROVE  Increasing(client'[u].log[r]) /\ Below(client'[u].log[r], msgid_counter')
  <2>1. CASE r # rid \/ u \notin members[rid]
    BY <1>1, <1>5, <2>1 DEF InOrder
  <2>2. CASE r = rid /\ u \in members[rid]
    <3> DEFINE old == IF u = sid THEN LastN(hist) ELSE client[u].log[r]
               new == LastN(Append(old, msg))
    <3>1. old \in Seq(Public) /\ Increasing(old) /\ Below(old, msg.id)
      <4>1. hist \in Seq(Public) /\ Increasing(hist) /\ Below(hist, msg.id)
        BY <1>2, <1>3, PublicPart
      <4> HIDE DEF hist
      <4>2. LastN(hist) \in Seq(Public) /\ Increasing(LastN(hist)) /\ Below(LastN(hist), msg.id)
        BY <4>1, LastNOf, LastNOrder
      <4>3. /\ client[u].log[r] \in Seq(Public) /\ Increasing(client[u].log[r])
            /\ Below(client[u].log[r], msg.id)
        BY <1>2, <2>2 DEF LogsOK, InOrder
      <4> QED
        BY <4>2, <4>3
    <3>2. client'[u].log[r] = new
      BY <1>5, <2>2
    <3> HIDE DEF old
    <3>3. Increasing(new) /\ Below(new, msgid_counter)
      BY <1>1, <1>2, <3>1, SaidOrder
    <3> HIDE DEF new
    <3> QED
      BY <1>1, <3>2, <3>3
  <2> QED
    BY <2>1, <2>2
<1>8. ASSUME NEW e \in Pending(task')
      PROVE  /\ e.mid < msgid_counter' /\ Below(messages'[e.rid], e.mid)
             /\ \A u \in UserID : Below(client'[u].log[e.rid], e.mid)
  <2>1. e \in Pending(task) /\ e.rid # rid /\ e.rid \in RoomID
    BY <1>8, PendingIsTyped DEF Completes, PendingType
  <2>2. /\ e.mid < msgid_counter /\ Below(messages[e.rid], e.mid)
        /\ \A u \in UserID : Below(client[u].log[e.rid], e.mid)
    BY <2>1 DEF InOrder
  <2>3. /\ messages'[e.rid] = messages[e.rid]
        /\ \A u \in UserID : client'[u].log[e.rid] = client[u].log[e.rid]
    BY <1>4, <1>5, <2>1
  <2> QED
    BY <1>1, <2>2, <2>3
<1> QED
  BY <1>6, <1>7, <1>8 DEF InOrder
------------------------------------------------------------------------------
(* The quiet steps. *)

LogsKept ==
    \A u \in UserID, r \in RoomID :
        \/ client'[u].log[r] = client[u].log[r]
        \/ client'[u].log[r] = <<>> /\ r \notin RoomsIn(in_rooms'[u])

LEMMA KeptLogs ==
    /\ SameLogs(client, client') => LogsKept
    /\ (\E S : TypingTold(client', S)) => LogsKept
    /\ client' = client => LogsKept
    /\ LogsKept => \A rid, msg : LogsAfter(rid, {}, msg)
  BY DEF SameLogs, TypingTold, LogsKept, LogsAfter

\* Nobody waits for the second half of a join, before or after.
LEMMA QuietIf ==
    ASSUME LogsKept, NoRoomsMore, panicked = None, Pending(task) = {}, Pending(task') = {},
           \A r \in RoomID : messages'[r] \in {messages[r], <<>>},
           msgid_counter' \in {msgid_counter, NextMessageID}
    PROVE  Quiet
<1>1. \A r : Unannounced(r) = {}
  BY DEF Unannounced
<1> QED
  BY <1>1, KeptLogs DEF Quiet

LEMMA NobodyPending ==
    /\ Pending(NoTask) = {}
    /\ \A op, sid, todo, rid : LET t == Loop(op, sid, todo, rid)
                               IN  Pending(t) = {} /\ Pending(EndOr(t)) = {}
  BY NoTaskFields, LoopFields, NoDone DEF EndOr

LEMMA SameRooms == in_rooms' = in_rooms => NoRoomsMore
  BY DEF NoRoomsMore

LEMMA QuietConnect ==
    ASSUME TypeOK, IInv, Replicas, NEW sid \in UserID,
           OnConnect(sid) \/ OnDisconnect(sid)
               \/ (\E prof, list : ReqUserJoined(sid, prof, list))
               \/ (\E prof : ReqUserChNick(sid, prof))
               \/ (\E rid, exclusive : ReqRoomJoin(sid, rid, exclusive))
    PROVE  Quiet
<1>1. \E stimulus : Ready(stimulus)
  BY DEF OnConnect, OnDisconnect, ReqUserJoined, ReqUserChNick, ReqRoomJoin
<1>2. AllShaped(client) /\ panicked = None /\ Pending(task) = {}
  BY <1>1, ReadyState, NoDone
<1>3. UNCHANGED <<messages, msgid_counter>>
  BY DEF OnConnect, OnDisconnect, ReqUserJoined, ReqUserChNick, ReqRoomJoin
<1>4. Pending(task') = {}
  <2>1. CASE OnConnect(sid)
    BY <1>2, <2>1 DEF OnConnect
  <2>2. CASE OnDisconnect(sid)
    BY <2>2, NobodyPending DEF OnDisconnect
  <2>3. CASE \E prof, list : ReqUserJoined(sid, prof, list)
    BY <2>3, NobodyPending DEF ReqUserJoined
  <2>4. CASE \E prof : ReqUserChNick(sid, prof)
    BY <2>4, NobodyPending DEF ReqUserChNick
  <2>5. CASE \E rid, exclusive : ReqRoomJoin(sid, rid, exclusive)
    BY <2>5, NobodyPending DEF ReqRoomJoin
  <2> QED
    BY <2>1, <2>2, <2>3, <2>4, <2>5
<1>5. LogsKept /\ NoRoomsMore
  <2>1. CASE OnConnect(sid) \/ \E rid, exclusive : ReqRoomJoin(sid, rid, exclusive)
    <3>1. UNCHANGED <<client, in_rooms>>
      BY <2>1 DEF OnConnect, ReqRoomJoin
    <3> QED
      BY <3>1, KeptLogs, SameRooms
  <2>2. CASE OnDisconnect(sid)
    <3>1. /\ in_rooms' = [in_rooms EXCEPT ![sid] = <<>>]
          /\ client' = [client EXCEPT ![sid] = NewClient]
      BY <2>2 DEF OnDisconnect
    <3>2. /\ in_rooms'[sid] = <<>> /\ client'[sid] = NewClient
          /\ \A u \in UserID : u # sid => in_rooms'[u] = in_rooms[u] /\ client'[u] = client[u]
      BY <1>2, <3>1 DEF TypeOK, AllShaped
    <3>3. RoomsIn(<<>>) = {} /\ \A r \in RoomID : NewClient.log[r] = <<>>
      BY DEF RoomsIn, NewClient
    <3> QED
      BY <3>2, <3>3 DEF LogsKept, NoRoomsMore
  <2>3. CASE (\E prof, list : ReqUserJoined(sid, prof, list))
             \/ \E prof : ReqUserChNick(sid, prof)
    <3>1. in_rooms' = in_rooms /\ \E prof, unannounced : Renamed(sid, prof, unannounced)
      BY <2>3 DEF ReqUserJoined, ReqUserChNick
    <3>2. \A u \in UserID : client'[u].log = client[u].log
      BY <1>2, <3>1, RenamedClients
    <3> QED
      BY <3>1, <3>2, SameRooms DEF LogsKept
  <2> QED
    BY <2>1, <2>2, <2>3
<1> QED
  BY <1>2, <1>3, <1>4, <1>5, QuietIf

\* What is sent to members of a room that no log holds.
LEMMA QuietSent ==
    ASSUME TypeOK, IInv, NEW rid \in RoomID, NEW mem, Reachable(client, rid, mem),
           AllShaped(client), NEW e, IsEvent(e), e.type \notin {"HISTORY", "MESSAGE"},
           Deliver(<<ToRoom(rid, mem, e)>>)
    PROVE  SameLogs(client, client')
<1>1. client' = DeliverBatch(client, ToRoom(rid, mem, e))
  BY DeliverOne
<1> QED
  BY <1>1, SendHeard, NothingSaid

\* The users of a room a request is about.
LEMMA RequestRoom ==
    ASSUME TypeOK, IInv, Replicas, NEW op, NEW sid \in UserID, NEW h, MemberRequest(op, sid, h)
    PROVE  LET rid == in_rooms[sid][h]
           IN  /\ rid \in RoomID /\ sid \in members[rid] /\ InStep /\ AllShaped(client)
               /\ Reachable(client, rid, members[rid])
               /\ \A u \in members[rid] : Reachable(client, rid, {u, sid})
                                          /\ Reachable(client, rid, {u})
               /\ in_rooms' = in_rooms /\ NoRoomsMore /\ panicked = None
               /\ Pending(task) = {} /\ Pending(task') = {}
<1> DEFINE rid == in_rooms[sid][h]
<1>1. /\ InStep /\ AllShaped(client) /\ in_rooms' = in_rooms /\ task' = task /\ rid \in RoomID
      /\ Reachable(client, rid, members[rid])
  BY RequestIdle
<1>2. Ready(op) /\ rid \in RoomsIn(in_rooms[sid])
  BY HandleType DEF MemberRequest
<1>3. panicked = None /\ Pending(task) = {}
  BY <1>2, ReadyState, NoDone
<1>4. sid \in members[rid]
  BY <1>2, RoomsOfUser
<1> HIDE DEF rid
<1>5. \A u \in members[rid] : Reachable(client, rid, {u, sid}) /\ Reachable(client, rid, {u})
  BY <1>1, <1>4 DEF Reachable
<1> QED
  BY <1>1, <1>3, <1>4, <1>5, SameRooms DEF rid

LEMMA QuietRequest ==
    ASSUME TypeOK, IInv, Replicas, NEW sid \in UserID, NEW h,
           ReqMouse(sid, h) \/ ReqCustomR(sid, h)
               \/ (\E is_typing \in BOOLEAN : ReqTyping(sid, h, is_typing))
               \/ (\E target \in UserID : ReqCustomU(sid, h, target))
    PROVE  Quiet
<1> DEFINE rid == in_rooms[sid][h]
<1>1. PICK op : MemberRequest(op, sid, h)
  BY DEF ReqMouse, ReqCustomR, ReqTyping, ReqCustomU
<1>2. /\ rid \in RoomID /\ Reachable(client, rid, members[rid]) /\ AllShaped(client)
      /\ \A u \in members[rid] : Reachable(client, rid, {u})
      /\ NoRoomsMore /\ panicked = None /\ Pending(task) = {} /\ Pending(task') = {}
  BY <1>1, RequestRoom
<1>3. UNCHANGED <<messages, msgid_counter>>
  BY DEF ReqMouse, ReqCustomR, ReqTyping, ReqCustomU
<1> DEFINE mouse  == [type |-> "MOUSE", sid |-> sid]
           room   == [type |-> "CUSTOM_R", sid |-> sid]
           single == [type |-> "CUSTOM_U", sid |-> sid]
<1>4. \A e \in {mouse, room, single} : IsEvent(e) /\ e.type \notin {"HISTORY", "MESSAGE"}
  BY DEF IsEvent, Types
<1>5. LogsKept
  <2>1. CASE ReqMouse(sid, h)
    <3>1. Deliver(<<ToRoom(rid, members[rid], mouse)>>)
      BY <2>1 DEF ReqMouse
    <3> HIDE DEF mouse, rid
    <3> QED
      BY <1>2, <1>4, <3>1, QuietSent, KeptLogs
  <2>2. CASE ReqCustomR(sid, h)
    <3>1. Deliver(<<ToRoom(rid, members[rid], room)>>)
      BY <2>2 DEF ReqCustomR
    <3> HIDE DEF room, rid
    <3> QED
      BY <1>2, <1>4, <3>1, QuietSent, KeptLogs
  <2>3. CASE \E is_typing \in BOOLEAN : ReqTyping(sid, h, is_typing)
    <3>1. \E S : TypingTold(client', S)
      BY <2>3, ClientTyping
    <3> QED
      BY <3>1, KeptLogs
  <2>4. CASE \E target \in UserID : ReqCustomU(sid, h, target)
    <3>1. PICK target \in UserID : /\ rid \in RoomsIn(in_rooms[target])
                                   /\ Deliver(<<ToRoom(rid, {target}, single)>>)
      BY <2>4 DEF ReqCustomU
    <3>2. target \in members[rid]
      BY <3>1, RoomsOfUser
    <3> HIDE DEF single, rid
    <3> QED
      BY <1>2, <1>4, <3>1, <3>2, QuietSent, KeptLogs
  <2> QED
    BY <2>1, <2>2, <2>3, <2>4
<1> QED
  BY <1>2, <1>3, <1>5, QuietIf

LEMMA QuietTick ==
    ASSUME TypeOK, IInv, Replicas, FiniteOK, EverySecond PROVE Quiet
<1>1. task = NoTask /\ task' = task /\ panicked = None /\ UNCHANGED <<in_rooms, msgid_counter>>
  BY DEF EverySecond
<1>2. \A r \in RoomID : messages'[r] \in {messages[r], <<>>}
  <2>1. messages' = [r \in RoomID |->
                       IF r \in {q \in Unused : saturating_sub1(empty_timer[q]) = 0}
                       THEN <<>> ELSE messages[r]]
    BY DEF EverySecond
  <2> QED
    BY <2>1
<1>3. LogsKept
  BY ClientEverySecond, KeptLogs
<1> QED
  BY <1>1, <1>2, <1>3, NobodyPending, SameRooms, QuietIf

LEMMA QuietLoop ==
    ASSUME TypeOK, IInv, Replicas, ExclusiveJoin \/ JoinRefused \/ SendRooms PROVE Quiet
<1>1. panicked = None /\ InStep /\ AllShaped(client)
  BY DEF ExclusiveJoin, JoinRefused, Running, SendRooms, Replicas
<1>2. CASE ExclusiveJoin
  <2>1. /\ UNCHANGED <<client, messages, msgid_counter>> /\ task.op = "exclusive"
        /\ task' = Loop("room_join", task.sid, <<task.rid>>, task.rid)
        /\ in_rooms' = [in_rooms EXCEPT ![task.sid] =
               IF task.rid \in RoomsIn(in_rooms[task.sid]) THEN in_rooms[task.sid] ELSE <<>>]
    BY <1>2 DEF ExclusiveJoin
  <2>2. Pending(task) = {} /\ Pending(task') = {}
    BY <1>1, <2>1, NoDone, NobodyPending DEF InStep, DoneOK
  <2>3. RoomsIn(<<>>) = {} /\ \A u \in UserID : in_rooms'[u] \in {in_rooms[u], <<>>}
    BY <2>1 DEF TypeOK, RoomsIn
  <2>4. NoRoomsMore
    BY <2>3 DEF NoRoomsMore
  <2> QED
    BY <1>1, <2>1, <2>2, <2>4, KeptLogs, QuietIf
<1>3. CASE JoinRefused
  <2>1. /\ UNCHANGED <<client, in_rooms, messages, msgid_counter>> /\ task' = NoTask
        /\ task.op \in {"user_joined", "room_join"} /\ HasNext(task.todo)
        /\ Expect(task.op = "room_join", "init_rooms")
    BY <1>3 DEF JoinRefused, Running
  <2>2. panicked' = None => \A r : Unannounced(r) = {}
    <3>1. panicked' = None => task.op = "room_join"
      BY <2>1, TalkerAssumption DEF Expect
    <3>2. task.op = "room_join" => task.done = <<>>
      BY <1>1, <2>1 DEF InStep, DoneOK
    <3> QED
      BY <1>1, <3>1, <3>2, NobodyWaits
  <2> QED
    BY <1>1, <2>1, <2>2, KeptLogs, SameRooms, NobodyPending DEF Quiet
<1>4. CASE SendRooms
  <2>0. PICK sid \in UserID : sid = task.sid
    BY <1>4, IdleOrLoop DEF SendRooms, IInv, TaskInStep, TypeOK
  <2> DEFINE next == [task EXCEPT !.op = "complete"]
  <2>1. /\ Deliver(<<ToUser(sid, [type |-> "ROOM", rooms |-> in_rooms[sid]])>>)
        /\ task' = IF task.done = <<>> THEN NoTask ELSE next
        /\ task.op \in {"user_joined", "room_join"}
        /\ UNCHANGED <<in_rooms, messages, msgid_counter, panicked>>
    BY <1>4, <2>0 DEF SendRooms
  <2>2. IsTask(task) /\ task # NoTask
    BY <2>1, IdleOrLoop DEF TypeOK
  <2>3. Pending(next) = Pending(task) /\ next.sid = sid
    BY <2>0, <2>2, CompleteIsTask DEF IsTask
  <2> HIDE DEF next
  <2>4. Pending(task') = Pending(task) /\ (Pending(task) # {} => task'.sid = sid)
    <3>1. task.done = <<>> => Pending(task) = {}
      BY NoDone
    <3> QED
      BY <2>1, <2>3, <3>1, NobodyPending
  <2>5. \A r : Unannounced(r)' = Unannounced(r)
    BY <2>0, <2>4 DEF Unannounced
  <2>6. Opened(client, client', sid, in_rooms[sid])
    <3>1. client' = DeliverBatch(client, ToUser(sid, [type |-> "ROOM", rooms |-> in_rooms[sid]]))
      BY <2>1, DeliverOne
    <3> QED
      BY <1>1, <3>1, RoomOpened DEF TypeOK
  <2>7. LogsKept
    BY <2>1, <2>6 DEF Opened, LogsKept
  <2> QED
    BY <1>1, <2>1, <2>4, <2>5, <2>7, KeptLogs, SameRooms DEF Quiet
<1> QED
  BY <1>2, <1>3, <1>4
------------------------------------------------------------------------------
(* The steps that say something. *)

LEMMA SaidAfter ==
    ASSUME NEW rid, NEW mem, NEW msg, Said(client, client', rid, mem, msg)
    PROVE  LogsAfter(rid, mem, msg)
  BY DEF Said, LogsAfter

\* A message of the talker about a room, sent to all of it.
LEMMA SpeaksIf ==
    ASSUME TypeOK, IInv, NEW rid \in RoomID, NEW mem, NEW content \in Content,
           NEW sid \in UserID \cup {SYSTEM}, NEW msg,
           msg = TextMessage(msgid_counter, content, sid, None),
           msgid_counter' = NextMessageID, panicked = None,
           messages' = [messages EXCEPT ![rid] = PushHistory(@, msg)],
           LogsAfter(rid, mem, msg), NoRoomsMore, Pending(task) = {}, Pending(task') = {},
           \A u \in members[rid] : rid \in RoomsIn(in_rooms'[u]) => u \in mem
    PROVE  Speaks(rid, mem, msg)
<1>1. msg \in Message
  BY MessagesAre, SystemMessage
<1>2. msg.id = msgid_counter /\ msg.sent_to = None
  BY DEF TextMessage
<1>3. \A u \in UserID : rid \in RoomsIn(in_rooms'[u]) => u \in mem
  BY RoomsOfUser DEF NoRoomsMore
<1> QED
  BY <1>1, <1>2, <1>3 DEF Speaks

LEMMA PendingLess ==
    ASSUME NEW t, t.done = task.done, Pending(task) = {}
    PROVE  Pending(t) = {} /\ Pending(EndOr(t)) = {}
<1>1. Pending(t) = {}
  BY DEF Pending
<1> QED
  BY <1>1, NobodyPending DEF EndOr

LEMMA SpeaksLeft ==
    ASSUME TypeOK, IInv, Replicas, DisconnectRoom \/ ExclusiveLeave
    PROVE  \E rid, mem, msg : Speaks(rid, mem, msg)
<1> DEFINE rid  == First(task.todo)
           mem  == members[rid] \ {task.sid}
           msg  == TextMessage(msgid_counter, "user_left", SYSTEM, None)
           rest == [task EXCEPT !.todo = Rest(@)]
<1>0. PICK sid \in UserID : sid = task.sid
  BY RunningType DEF DisconnectRoom, ExclusiveLeave
<1>1. /\ task.op \in {"disconnect", "exclusive"} /\ rid \in RoomID /\ IsTask(task)
      /\ rid \in RoomsIn(task.todo) /\ panicked = None
  BY RunningType DEF DisconnectRoom, ExclusiveLeave
<1>2. LeaveRoom(sid, rid, <<>>) /\ task' \in {rest, EndOr(rest)}
  BY <1>0 DEF DisconnectRoom, ExclusiveLeave, user_room_leave
<1>3. InStep /\ AllShaped(client)
  BY <1>1 DEF Replicas
<1>4. task.done = <<>> /\ Pending(task) = {} /\ \A u \in UserID : ~ Unread(u)
  BY <1>1, <1>3, NoDone DEF InStep, DoneOK, Unread
<1>5. Pending(task') = {}
  <2>1. rest.done = task.done
    BY <1>1 DEF IsTask
  <2> HIDE DEF rest
  <2> QED
    BY <1>2, <1>4, <2>1, PendingLess
<1>6. /\ msgid_counter' = NextMessageID
      /\ messages' = [messages EXCEPT ![rid] = PushHistory(@, msg)]
  BY <1>2 DEF LeaveRoom
<1> HIDE DEF rid, rest
<1>7. rid \notin RoomsIn(in_rooms'[sid]) /\ NoRoomsMore
  <2>1. CASE DisconnectRoom
    <3>1. in_rooms' = in_rooms /\ task.op = "disconnect"
      BY <2>1 DEF DisconnectRoom, Running
    <3>2. sid \in UserID \ users
      BY <1>0, <3>1 DEF IInv, TaskInStep
    <3>3. in_rooms'[sid] = <<>> /\ RoomsIn(<<>>) = {}
      BY <3>1, <3>2 DEF IInv, TaskInStep, RoomsIn
    <3> QED
      BY <3>1, <3>3, SameRooms
  <2>2. CASE ExclusiveLeave
    <3>1. in_rooms' = [in_rooms EXCEPT ![sid] = Trim(Vacate(@, rid))]
      BY <1>0, <2>2 DEF ExclusiveLeave, user_room_leave, rid
    <3> QED
      BY <1>1, <1>3, <1>4, <3>1, LeaverFinds DEF NoRoomsMore
  <2> QED
    BY <2>1, <2>2
<1>8. Said(client, client', rid, mem, msg)
  BY <1>0, <1>1, <1>2, <1>3, <1>4, LeaveDelivered
<1>9. \A u \in members[rid] : rid \in RoomsIn(in_rooms'[u]) => u \in mem
  BY <1>0, <1>7
<1>10. "user_left" \in Content
  BY DEF Content
<1>11. LogsAfter(rid, mem, msg)
  BY <1>8, SaidAfter
<1> DEFINE said == msg
<1>12. Speaks(rid, mem, said)
  <2>1. said = TextMessage(msgid_counter, "user_left", SYSTEM, None)
    OBVIOUS
  <2> HIDE DEF said, mem
  <2> QED
    BY <1>1, <1>4, <1>5, <1>6, <1>7, <1>9, <1>10, <1>11, <2>1, SpeaksIf DEF said
<1> QED
  BY <1>12

LEMMA SpeaksRoomLeave ==
    ASSUME TypeOK, IInv, Replicas, NEW sid \in UserID, NEW h, ReqRoomLeave(sid, h)
    PROVE  \E rid, mem, msg : Speaks(rid, mem, msg)
<1> DEFINE rid   == in_rooms[sid][h]
           array == Trim(Vacate(in_rooms[sid], rid))
           mem   == members[rid] \ {sid}
           msg   == TextMessage(msgid_counter, "user_left", SYSTEM, None)
           a     == MessageTo(rid, mem, msg)
           b     == ToRoom(rid, mem, [type |-> "USER_LEFT", sid |-> sid])
           c     == ToUser(sid, [type |-> "ROOM", rooms |-> array])
           cs    == DeliverBatch(DeliverBatch(client, a), b)
<1>1. Ready("ROOM_LEAVE") /\ rid \in RoomID /\ task' = task
  BY HandleType DEF ReqRoomLeave
<1>2. /\ in_rooms' = [in_rooms EXCEPT ![sid] = Trim(Vacate(@, rid))]
      /\ Deliver(<<a, b>> \o <<c>>) /\ msgid_counter' = NextMessageID
      /\ messages' = [messages EXCEPT ![rid] = PushHistory(@, msg)]
  BY DEF ReqRoomLeave, user_room_leave, LeaveRoom
<1>3. /\ InStep /\ AllShaped(client) /\ task.op = "idle" /\ panicked = None
      /\ Pending(task) = {} /\ \A u \in UserID : ~ Unread(u)
  BY <1>1, ReadyState, NoDone
<1>4. LeftBy(cs, sid, rid) /\ Said(client, cs, rid, mem, msg)
  BY <1>1, <1>3, LeaveSent
<1>5. array \in Vector /\ in_rooms'[sid] = array
  <2>1. in_rooms[sid] \in Vector
    BY DEF TypeOK
  <2> HIDE DEF rid
  <2>2. Vacate(in_rooms[sid], rid) \in Vector
    BY <1>1, <2>1, VacateOf
  <2> QED
    BY <1>2, <2>2, TrimOf DEF TypeOK
<1> HIDE DEF rid
<1>6. rid \notin RoomsIn(in_rooms'[sid]) /\ NoRoomsMore
  BY <1>1, <1>2, <1>3, LeaverFinds DEF NoRoomsMore
<1> HIDE DEF array, a, b
<1>7. client' = DeliverBatch(cs, c)
  <2> DEFINE s == <<a, b>> \o <<c>>
  <2>1. Len(s) = 3 /\ s[1] = a /\ s[2] = b /\ s[3] = c
    <3> HIDE DEF c
    <3> QED
      BY ConcatOne
  <2> HIDE DEF s, c
  <2>2. client' = DeliverBatch(DeliverBatch(DeliverBatch(client, s[1]), s[2]), s[3])
    BY <1>2, <2>1, DeliverThree DEF s
  <2> QED
    BY <2>1, <2>2
<1> HIDE DEF cs
<1>8. Opened(cs, client', sid, array)
  <2>1. AllShaped(cs)
    BY <1>4 DEF LeftBy
  <2> QED
    BY <1>5, <1>7, <2>1, RoomOpened
<1> HIDE DEF c
<1>9. LogsAfter(rid, mem, msg)
  <2> HIDE DEF msg
  <2>1. ASSUME NEW u \in UserID, u # sid, NEW r \in RoomID
        PROVE  client'[u].log[r] = IF u \in mem /\ r = rid
                                   THEN LastN(Append(client[u].log[r], msg))
                                   ELSE client[u].log[r]
    BY <1>4, <1>8, <2>1 DEF Said, Opened
  <2>2. ASSUME NEW r \in RoomID
        PROVE  \/ client'[sid].log[r] = client[sid].log[r]
               \/ client'[sid].log[r] = <<>> /\ r \notin RoomsIn(in_rooms'[sid])
    <3>1. cs[sid].log[r] = client[sid].log[r]
      BY <1>4 DEF Said
    <3> QED
      BY <1>5, <1>8, <3>1 DEF Opened
  <2>3. sid \notin mem
    OBVIOUS
  <2> HIDE DEF mem
  <2> QED
    BY <2>1, <2>2, <2>3 DEF LogsAfter
<1>10. (\A u \in members[rid] : rid \in RoomsIn(in_rooms'[u]) => u \in mem) /\ Pending(task') = {}
  BY <1>1, <1>3, <1>6
<1>11. "user_left" \in Content
  BY DEF Content
<1>12. msg = TextMessage(msgid_counter, "user_left", SYSTEM, None)
  OBVIOUS
<1> HIDE DEF msg, mem
<1>13. Speaks(rid, mem, msg)
  BY <1>1, <1>2, <1>3, <1>6, <1>9, <1>10, <1>11, <1>12, SpeaksIf
<1> QED
  BY <1>13

LEMMA SpeaksChNick ==
    ASSUME TypeOK, IInv, Replicas, ChNickRoom
    PROVE  \E rid, mem, msg : Speaks(rid, mem, msg)
<1>0. PICK sid \in UserID, rid \in RoomID : sid = task.sid /\ rid = First(task.todo)
  BY RunningType DEF ChNickRoom
<1> DEFINE mem  == members[rid]
           msg  == TextMessage(msgid_counter, "user_ch_nick", SYSTEM, None)
           b1   == ToRoom(rid, mem, [type |-> "USER_CHANGE_NICK", user |-> <<sid, profile[sid]>>])
           b2   == MessageTo(rid, mem, msg)
           rest == [task EXCEPT !.todo = Rest(@)]
<1>1. task.op = "ch_nick" /\ IsTask(task) /\ panicked = None
  BY <1>0, RunningType DEF ChNickRoom
<1>2. /\ in_rooms' = in_rooms /\ Deliver(<<b1, b2>>) /\ task' = EndOr(rest)
      /\ msgid_counter' = NextMessageID
      /\ messages' = [messages EXCEPT ![rid] = PushHistory(@, msg)]
  BY <1>0 DEF ChNickRoom
<1>3. InStep /\ AllShaped(client) /\ Pending(task) = {}
  BY <1>1, NoDone DEF Replicas, InStep, DoneOK
<1>4. Pending(task') = {}
  <2>1. rest.done = task.done
    BY <1>1 DEF IsTask
  <2> HIDE DEF rest
  <2> QED
    BY <1>2, <1>3, <2>1, PendingLess
<1> HIDE DEF rest
<1>5. Said(client, client', rid, mem, msg)
  <2>1. client' = DeliverBatch(DeliverBatch(client, b1), b2)
    <3> HIDE DEF b1, b2
    <3> QED
      BY <1>2, DeliverTwo
  <2> HIDE DEF msg
  <2>2. Said(client, DeliverBatch(DeliverBatch(client, b1), b2), rid, mem, msg)
    BY <1>1, <1>3, Introduce
  <2> HIDE DEF b1, b2
  <2> QED
    BY <2>1, <2>2
<1>6. LogsAfter(rid, mem, msg) /\ NoRoomsMore
  BY <1>2, <1>5, SaidAfter, SameRooms
<1>7. "user_ch_nick" \in Content /\ msg = TextMessage(msgid_counter, "user_ch_nick", SYSTEM, None)
  BY DEF Content
<1>8. \A u \in members[rid] : rid \in RoomsIn(in_rooms'[u]) => u \in mem
  OBVIOUS
<1> HIDE DEF msg, mem
<1>9. Speaks(rid, mem, msg)
  BY <1>1, <1>2, <1>3, <1>4, <1>6, <1>7, <1>8, SpeaksIf
<1> QED
  BY <1>9

LEMMA SpeaksMessage ==
    ASSUME TypeOK, IInv, Replicas, NEW sid \in UserID, NEW h, ReqMessage(sid, h)
    PROVE  \E rid, mem, msg : Speaks(rid, mem, msg)
<1> DEFINE rid == in_rooms[sid][h]
           mem == members[rid]
           msg == TextMessage(msgid_counter, "message", sid, None)
           e   == [type |-> "MESSAGE", msg |-> msg]
<1>1. /\ MemberRequest("MESSAGE", sid, h) /\ msgid_counter' = NextMessageID
      /\ messages' = [messages EXCEPT ![rid] = PushHistory(@, msg)]
      /\ Deliver(<<ToRoom(rid, mem, e)>>)
  BY DEF ReqMessage, MessageTo
<1>2. /\ rid \in RoomID /\ Reachable(client, rid, mem) /\ AllShaped(client)
      /\ NoRoomsMore /\ panicked = None /\ Pending(task) = {} /\ Pending(task') = {}
  BY <1>1, RequestRoom
<1>3. IsEvent(e)
  BY TalkEvents
<1>4. LogsAfter(rid, mem, msg)
  <2> HIDE DEF rid, mem, msg, e
  <2>1. client' = DeliverBatch(client, ToRoom(rid, mem, e))
    BY <1>1, DeliverOne
  <2>2. Heard(client, client', rid, mem, e)
    BY <1>2, <1>3, <2>1, SendHeard
  <2> QED
    BY <2>2, SaidHeard, SaidAfter DEF e
<1>5. "message" \in Content /\ msg = TextMessage(msgid_counter, "message", sid, None)
  BY DEF Content
<1>6. \A u \in members[rid] : rid \in RoomsIn(in_rooms'[u]) => u \in mem
  OBVIOUS
<1> HIDE DEF rid, mem, msg, e
<1>7. Speaks(rid, mem, msg)
  BY <1>1, <1>2, <1>4, <1>5, <1>6, SpeaksIf
<1> QED
  BY <1>7

\* A private message is saved and sent to two, or neither.
LEMMA SpeaksPrivate ==
    ASSUME TypeOK, IInv, Replicas, NEW sid \in UserID, NEW h, NEW target \in UserID,
           ReqMessageDM(sid, h, target)
    PROVE  Quiet \/ \E rid, mem, msg : Speaks(rid, mem, msg)
<1> DEFINE rid  == in_rooms[sid][h]
           msg  == TextMessage(msgid_counter, "message", sid, target)
           sent == target \in users /\ rid \in RoomsIn(in_rooms[target])
           e    == [type |-> "MESSAGE_DM", msg |-> msg]
<1>1. /\ MemberRequest("MESSAGE_DM", sid, h) /\ msgid_counter' = NextMessageID
      /\ messages' = IF sent THEN [messages EXCEPT ![rid] = PushHistory(@, msg)] ELSE messages
      /\ Deliver(IF sent THEN <<ToRoom(rid, {sid, target}, e)>> ELSE <<>>)
  BY DEF ReqMessageDM
<1>2. /\ rid \in RoomID /\ AllShaped(client) /\ NoRoomsMore /\ panicked = None
      /\ Pending(task) = {} /\ Pending(task') = {}
      /\ \A u \in members[rid] : Reachable(client, rid, {u, sid})
  BY <1>1, RequestRoom
<1>3. IsEvent(e) /\ e.type \notin {"HISTORY", "MESSAGE"}
  BY TalkEvents
<1>4. /\ msg \in Message /\ msg.id = msgid_counter /\ msg.sent_to = target /\ target # None
  <2>1. "message" \in Content /\ msgid_counter \in Nat
    BY MessagesAre DEF Content
  <2> QED
    BY <2>1, SystemMessage, TalkerAssumption DEF TextMessage
<1>5. sent => target \in members[rid]
  BY RoomsOfUser
<1> HIDE DEF rid, msg, e, sent
<1>6. CASE sent
  <2>1. Deliver(<<ToRoom(rid, {target, sid}, e)>>)
    <3>1. {sid, target} = {target, sid}
      OBVIOUS
    <3> QED
      BY <1>1, <1>6, <3>1
  <2>2. Reachable(client, rid, {target, sid})
    BY <1>2, <1>5, <1>6
  <2>3. LogsAfter(rid, {}, msg)
    BY <1>2, <1>3, <2>1, <2>2, QuietSent, KeptLogs
  <2>4. Speaks(rid, {}, msg)
    BY <1>1, <1>2, <1>4, <1>6, <2>3 DEF Speaks
  <2> QED
    BY <2>4
<1>7. CASE ~ sent
  <2>1. client' = client
    BY <1>1, <1>7, DeliverNone
  <2> QED
    BY <1>1, <1>2, <1>7, <2>1, KeptLogs, QuietIf
<1> QED
  BY <1>6, <1>7

LEMMA JoinsRoom ==
    ASSUME TypeOK, IInv, JoinRoom PROVE \E sid, rid, d : Joins(sid, rid, d)
<1>1. PICK sid, rid, d : Joining(sid, rid, d)
  BY JoinRoomJoins
<1>2. msgid_counter' = NextMessageID /\ UNCHANGED messages
  BY DEF JoinRoom
<1>3. Joins(sid, rid, d)
  BY <1>1, <1>2 DEF Joins
<1> QED
  BY <1>3

LEMMA CompletesJoin ==
    ASSUME TypeOK, IInv, Replicas, user_room_join_unimmediate_complete
    PROVE  \E sid, d, msg : Completes(sid, d, msg)
<1>0. PICK sid \in UserID : sid = task.sid
  BY IdleOrLoop DEF user_room_join_unimmediate_complete, IInv, TaskInStep, TypeOK
<1>d. PICK d : d = Head(task.done)
  OBVIOUS
<1> DEFINE rid  == d.rid
           mem  == members[rid]
           msg  == TextMessage(d.mid, "user_joined", SYSTEM, None)
           next == [task EXCEPT !.done = Tail(@)]
           own(e) == ToUser(sid, About(rid, d.rh, e))
           b1 == own([type |-> "HISTORY", hist |-> d.hist])
           b2 == ToRoom(rid, mem, [type |-> "USER_JOINED", user |-> <<sid, profile[sid]>>])
           b3 == own([type |-> "USER_UPDATE", users |-> d.users])
           b4 == MessageTo(rid, mem, msg)
<1>1. /\ panicked = None /\ task.op = "complete" /\ task.done # <<>>
      /\ Deliver(<<b1, b2, b3, b4>>) /\ task' = IF Len(task.done) = 1 THEN NoTask ELSE next
      /\ UNCHANGED <<in_rooms, msgid_counter>>
      /\ messages' = [messages EXCEPT ![rid] = PushHistory(@, msg)]
  BY <1>0, <1>d DEF user_room_join_unimmediate_complete
<1>2. InStep /\ AllShaped(client)
  BY <1>1 DEF Replicas
<1>3. IsTask(task) /\ task # NoTask
  BY <1>1, IdleOrLoop DEF TypeOK
<1>4. next.sid = sid /\ next.done = Tail(task.done)
  BY <1>0, <1>1, <1>3 DEF IsTask
<1> HIDE DEF next
<1>5. /\ d \in Pending(task) /\ \A e \in Pending(next) : e \in Pending(task)
      /\ \A e \in Pending(task) : e \in Pending(next) <=> e.rid # rid
      /\ Len(task.done) = 1 => Pending(next) = {}
  BY <1>d, <1>1, <1>2, <1>3, <1>4, DoneRest DEF InStep
<1>6. Pending(task') = Pending(next) /\ (Pending(next) # {} => task'.sid = sid)
  BY <1>1, <1>4, <1>5, NobodyPending
<1>7. rid \in RoomID /\ sid \in mem
  <2>1. rid \in RoomsIn(in_rooms[sid])
    BY <1>0, <1>1, <1>5 DEF IInv, TaskInStep
  <2> QED
    BY <2>1, RoomsOfUser
<1>8. /\ d.rh \in Nat /\ d.rh + 1 \in DOMAIN in_rooms[sid] /\ in_rooms[sid][d.rh + 1] = rid
      /\ d.users = get_users(mem, profile)
  BY <1>0, <1>2, <1>5 DEF InStep, DoneOK
<1>9. Briefed(client', sid, rid, d.hist, msg)
  <2>1. client' = DeliverBatch(DeliverBatch(DeliverBatch(DeliverBatch(client, b1), b2), b3), b4)
    <3> HIDE DEF b1, b2, b3, b4
    <3> QED
      BY <1>1, DeliverFour
  <2> HIDE DEF msg
  <2>2. Briefed(DeliverBatch(DeliverBatch(DeliverBatch(DeliverBatch(client, b1), b2), b3), b4),
                sid, rid, d.hist, msg)
    BY <1>1, <1>2, <1>7, <1>8, Welcome
  <2> HIDE DEF b1, b2, b3, b4
  <2> QED
    BY <2>1, <2>2
<1>10. msg \in Public /\ msg.id = d.mid
  <2>1. d.mid \in Nat /\ "user_joined" \in Content
    BY <1>5, PendingIsTyped DEF PendingType, Content
  <2>2. msg \in Message
    BY <2>1, SystemMessage
  <2>3. msg.sent_to = None /\ msg.id = d.mid
    BY DEF TextMessage
  <2> HIDE DEF msg
  <2> QED
    BY <2>2, <2>3 DEF Public
<1> HIDE DEF b1, b2, b3, b4, mem, msg
<1>11. Completes(sid, d, msg)
  BY <1>0, <1>1, <1>5, <1>6, <1>7, <1>9, <1>10 DEF Completes
<1> QED
  BY <1>11
------------------------------------------------------------------------------
(* The invariant holds. *)

Kinds == \/ Quiet
         \/ \E rid, mem, msg : Speaks(rid, mem, msg)
         \/ \E sid, rid, d : Joins(sid, rid, d)
         \/ \E sid, d, msg : Completes(sid, d, msg)

LEMMA StepKinds == ASSUME TypeOK, IInv, CInv, [Next]_vars PROVE Kinds
<1>0. Replicas /\ FiniteOK
  BY DEF CInv
<1>1. ASSUME NEW sid \in UserID, OnMessage(sid) PROVE Kinds
  <2>1. CASE OnConnect(sid) \/ OnDisconnect(sid)
             \/ \E prof \in Profile, list \in InitRooms : ReqUserJoined(sid, prof, list)
    BY <1>0, <2>1, QuietConnect DEF Kinds
  <2>2. CASE UserRequest(sid)
    BY <1>0, <2>2, QuietConnect DEF UserRequest, Kinds
  <2>3. ASSUME NEW h, RoomRequest(sid, h) PROVE Kinds
    <3>1. CASE ReqRoomLeave(sid, h)
      BY <1>0, <3>1, SpeaksRoomLeave DEF Kinds
    <3>2. CASE ReqMessage(sid, h)
      BY <1>0, <3>2, SpeaksMessage DEF Kinds
    <3>3. CASE \E target \in UserID : ReqMessageDM(sid, h, target)
      BY <1>0, <3>3, SpeaksPrivate DEF Kinds
    <3>4. CASE \/ ReqMouse(sid, h) \/ ReqCustomR(sid, h)
               \/ \E is_typing \in BOOLEAN : ReqTyping(sid, h, is_typing)
               \/ \E target \in UserID : ReqCustomU(sid, h, target)
      BY <1>0, <3>4, QuietRequest DEF Kinds
    <3> QED
      BY <2>3, <3>1, <3>2, <3>3, <3>4 DEF RoomRequest
  <2> QED
    BY <1>1, <2>1, <2>2, <2>3 DEF OnMessage
<1>2. CASE Continue
  <2>1. CASE DisconnectRoom \/ ExclusiveLeave
    BY <1>0, <2>1, SpeaksLeft DEF Kinds
  <2>2. CASE ExclusiveJoin \/ JoinRefused \/ SendRooms
    BY <1>0, <2>2, QuietLoop DEF Kinds
  <2>3. CASE JoinRoom
    BY <2>3, JoinsRoom DEF Kinds
  <2>4. CASE user_room_join_unimmediate_complete
    BY <1>0, <2>4, CompletesJoin DEF Kinds
  <2>5. CASE ChNickRoom
    BY <1>0, <2>5, SpeaksChNick DEF Kinds
  <2> QED
    BY <1>2, <2>1, <2>2, <2>3, <2>4, <2>5 DEF Continue
<1>3. CASE EverySecond
  BY <1>0, <1>3, QuietTick DEF Kinds
<1>4. CASE UNCHANGED vars
  <2>1. UNCHANGED <<in_rooms, messages, msgid_counter, task, client, panicked>>
    BY <1>4 DEF vars
  <2>2. \A r : Unannounced(r)' = Unannounced(r)
    BY <2>1 DEF Unannounced
  <2> QED
    BY <2>1, <2>2, KeptLogs, SameRooms DEF Quiet, Kinds
<1> QED
  BY <1>1, <1>2, <1>3, <1>4 DEF Next

LEMMA LogsInit == Init => LogsOK /\ Remembered /\ InOrder
<1> SUFFICES ASSUME Init PROVE LogsOK /\ Remembered /\ InOrder
  OBVIOUS
<1>1. /\ \A u \in UserID : in_rooms[u] = <<>>
      /\ \A u \in UserID, r \in RoomID : client[u].log[r] = <<>>
      /\ \A r \in RoomID : messages[r] = <<>>
      /\ Pending(task) = {}
  BY NobodyPending DEF Init, NewClient
<1>2. <<>> \in Seq(Public) /\ RoomsIn(<<>>) = {}
  BY DEF RoomsIn
<1> QED
  BY <1>1, <1>2, NothingInOrder DEF LogsOK, Remembered, InOrder

LEMMA LogsStep == TypeOK /\ IInv /\ CInv /\ LogsOK /\ [Next]_vars => LogsOK'
  BY StepKinds, LogsQuiet, LogsSpeaks, LogsJoins, LogsCompletes DEF Kinds

LEMMA LogsInvariant == Spec => [](TypeOK /\ IInv /\ CInv /\ LogsOK)
<1>1. TypeOK /\ IInv /\ CInv /\ LogsOK /\ [Next]_vars => LogsOK'
  BY LogsStep
<1> QED
  BY <1>1, LogsInit, ClientInvariant, PTL DEF Spec

LEMMA WhenPublic == LogsOK => LogsPublic
<1> SUFFICES ASSUME LogsOK, NEW u \in UserID, NEW r \in RoomID, NEW i \in DOMAIN client[u].log[r]
             PROVE  client[u].log[r][i].sent_to = None
  BY DEF LogsPublic
<1>1. client[u].log[r] \in Seq(Public)
  BY DEF LogsOK
<1>2. client[u].log[r][i] \in Public
  BY <1>1
<1> QED
  BY <1>2 DEF Public

\* Nothing a client is sent as said in a room, or as the history of one, was said
\* to one of its members: MESSAGE_DM goes to two, and get_history leaves it out.
THEOREM LogsArePublic == Spec => []LogsPublic
  BY WhenPublic, LogsInvariant, PTL

LEMMA WhenInOrder == LogsOK /\ InOrder => LogsOrdered
<1> SUFFICES ASSUME LogsOK, InOrder, NEW u \in UserID, NEW r \in RoomID,
                    NEW i \in DOMAIN client[u].log[r], i > 1
             PROVE  client[u].log[r][i - 1].id < client[u].log[r][i].id
  BY DEF LogsOrdered
<1> DEFINE log == client[u].log[r]
<1>1. log \in Seq(Public) /\ Increasing(log)
  BY DEF LogsOK, InOrder
<1> HIDE DEF log
<1>2. i \in DOMAIN log /\ i - 1 \in DOMAIN log /\ i - 1 < i
  BY <1>1 DEF log
<1> QED
  BY <1>1, <1>2 DEF Increasing, log

\* As long as msgid_counter has not come round, whatever is said in a room while
\* others join, leave or change their nicks, and however many rooms USER_JOINED
\* draws its ids for before it sends any of them, every client gets the messages
\* of a room in the order of their ids and none of them twice.
THEOREM LogsStayInOrder ==
    Spec /\ [](msgid_counter + 1 < MessageIDs) => []LogsPublicAndOrdered
<1>1. TypeOK /\ IInv /\ CInv /\ LogsOK /\ InOrder /\ msgid_counter + 1 < MessageIDs
          /\ [Next]_vars => InOrder'
  BY StepKinds, OrderQuiet, OrderSpeaks, OrderJoins, OrderCompletes DEF Kinds
<1>2. LogsOK /\ InOrder => LogsPublicAndOrdered
  BY WhenPublic, WhenInOrder DEF LogsPublicAndOrdered
<1> QED
  BY <1>1, <1>2, LogsInit, LogsInvariant, PTL DEF Spec

\* A client that joins a room now is sent, as its history, what every old member
\* has seen last, as many private messages and joins of other rooms as there may
\* have been between, if clients remember as much as the talker does.
THEOREM HistoriesAreRight ==
    ASSUME HistoryMax <= LogMax, 1 <= LogMax PROVE Spec => []HistoryInStep
<1>1. TypeOK /\ IInv /\ CInv /\ LogsOK /\ HistoryBounded /\ Remembered /\ [Next]_vars
          => Remembered'
  BY StepKinds, RememberedQuiet, RememberedSpeaks, RememberedJoins, RememberedCompletes DEF Kinds
<1>2. TypeOK /\ LogsOK /\ Remembered => HistoryInStep
  <2> SUFFICES ASSUME TypeOK, LogsOK, Remembered, Idle, NEW u \in users,
                      NEW r \in RoomsIn(in_rooms[u])
               PROVE  IsSuffix(get_history(messages[r]), client[u].log[r])
    BY DEF HistoryInStep
  <2>1. u \in UserID /\ r \in RoomID
    BY RoomsType DEF TypeOK
  <2>2. Unannounced(r) = {} /\ panicked = None
    BY NobodyPending DEF Unannounced, Idle
  <2>3. Ends(get_history(messages[r]), client[u].log[r])
    BY <2>1, <2>2 DEF Remembered
  <2>4. get_history(messages[r]) \in Seq(Public) /\ client[u].log[r] \in Seq(Public)
    BY <2>1, MessagesAre, PublicPart DEF LogsOK
  <2> QED
    BY <2>3, <2>4, EndsSuffix
<1> QED
  BY <1>1, <1>2, LogsInit, LogsInvariant, HistoryStaysBounded, PTL DEF Spec
==============================================================================
