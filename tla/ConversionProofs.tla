--------------------------- MODULE ConversionProofs ---------------------------
(***************************************************************************)
(* Theorems about Conversions: what is written can be read again, over     *)
(* either protocol; which clients have the same home, and which have not;  *)
(* what the listener makes of a head as clients write it.                  *)
(***************************************************************************)
EXTENDS Conversions, TLAPS

\* Four digits make up a word, and a plus sign is none of them.
LEMMA WordDigits ==
    ASSUME NEW w \in Word
    PROVE  /\ Digit3(w) \in Digit /\ Digit2(w) \in Digit /\ Digit1(w) \in Digit /\ Digit0(w) \in Digit
           /\ 4096 * Digit3(w) + 256 * Digit2(w) + 16 * Digit1(w) + Digit0(w) = w
<1>0. w \in Nat /\ w < 65536
    BY DEF Word
<1>1. /\ w \div 16 \in Nat /\ w \div 256 \in Nat /\ w \div 4096 \in Nat
      /\ w % 16 \in 0 .. 15 /\ (w \div 16) % 16 \in 0 .. 15 /\ (w \div 256) % 16 \in 0 .. 15
      /\ w \div 4096 < 16
    BY <1>0, SMT
<1>2. (w \div 16) \div 16 = w \div 256 /\ (w \div 256) \div 16 = w \div 4096
    BY <1>0, SMT
<1>3. w = 16 * (w \div 16) + (w % 16)
    BY <1>0, SMT
<1>4. (w \div 16) = 16 * (w \div 256) + ((w \div 16) % 16)
    BY <1>1, <1>2, SMT
<1>5. (w \div 256) = 16 * (w \div 4096) + ((w \div 256) % 16)
    BY <1>1, <1>2, SMT
<1>6. 4096 * (w \div 4096) + 256 * ((w \div 256) % 16) + 16 * ((w \div 16) % 16) + (w % 16) = w
    <2> DEFINE a == w \div 16
               b == w \div 256
               d3 == w \div 4096
               d2 == (w \div 256) % 16
               d1 == (w \div 16) % 16
               d0 == w % 16
    <2>1. /\ w \in Int /\ a \in Int /\ b \in Int /\ d3 \in Int /\ d2 \in Int /\ d1 \in Int /\ d0 \in Int
          /\ w = 16 * a + d0 /\ a = 16 * b + d1 /\ b = 16 * d3 + d2
        BY <1>0, <1>1, <1>3, <1>4, <1>5
    <2> HIDE DEF a, b, d3, d2, d1, d0
    <2>2. 4096 * d3 + 256 * d2 + 16 * d1 + d0 = w
        BY <2>1, SMT
    <2> QED BY <1>0, <1>1, <2>2 DEF d3, d2, d1, d0
<1> QED BY <1>0, <1>1, <1>6 DEF Digit, Digit3, Digit2, Digit1, Digit0

LEMMA PlaceOfDigit ==
    ASSUME NEW t, NEW i, t[i] \in Digit
    PROVE  Place(t, i) = t[i]
BY DEF Place, Digit, PLUS

LEMMA ByteDigits ==
    ASSUME NEW b \in 0 .. 255
    PROVE  /\ Digit1(b) \in Digit /\ Digit0(b) \in Digit
           /\ 16 * Digit1(b) + Digit0(b) = b
BY SMT DEF Digit, Digit1, Digit0

\* from_str_radix of {:0>8x} is the number.
LEMMA Hex8Read ==
    ASSUME NEW n \in U32
    PROVE  /\ Len(Hex8(n)) = 8
           /\ IsHex(Hex8(n), 1)
           /\ WordAt(Hex8(n), 1) = n[1]
           /\ WordAt(Hex8(n), 5) = n[2]
           /\ n = <<n[1], n[2]>>
<1>0. n[1] \in Word /\ n[2] \in Word /\ n = <<n[1], n[2]>>
    BY DEF U32
<1> DEFINE t == Hex8(n)
<1>1. /\ Len(t) = 8
      /\ t[1] = Digit3(n[1]) /\ t[2] = Digit2(n[1]) /\ t[3] = Digit1(n[1]) /\ t[4] = Digit0(n[1])
      /\ t[5] = Digit3(n[2]) /\ t[6] = Digit2(n[2]) /\ t[7] = Digit1(n[2]) /\ t[8] = Digit0(n[2])
    BY DEF Hex8
<1>2. \A i \in 1 .. 8 : t[i] \in Digit
    <2>1. /\ t[1] \in Digit /\ t[2] \in Digit /\ t[3] \in Digit /\ t[4] \in Digit
          /\ t[5] \in Digit /\ t[6] \in Digit /\ t[7] \in Digit /\ t[8] \in Digit
        BY <1>0, <1>1, WordDigits
    <2> QED BY <2>1
<1>3. IsHex(t, 1)
    BY <1>1, <1>2 DEF IsHex
<1>4. \A i \in 1 .. 8 : Place(t, i) = t[i]
    BY <1>2, PlaceOfDigit
<1>5. /\ WordAt(t, 1) = 4096 * t[1] + 256 * t[2] + 16 * t[3] + t[4]
      /\ WordAt(t, 5) = 4096 * t[5] + 256 * t[6] + 16 * t[7] + t[8]
    BY <1>4 DEF WordAt
<1>6. WordAt(t, 1) = n[1] /\ WordAt(t, 5) = n[2]
    BY <1>0, <1>1, <1>5, WordDigits
<1> QED BY <1>0, <1>1, <1>3, <1>6
------------------------------------------------------------------------------
\* A message id is the same at both ends, over JSON and over MessagePack.
THEOREM MessageIDRead ==
    \A human \in BOOLEAN, id \in U32 :
        MessageID_deserialize(human, MessageID_serialize(human, id)) = id
BY Hex8Read DEF MessageID_deserialize, MessageID_serialize, MessageID_from_str, MessageID_fmt

\* So is a user's id, the one that is written as a word included; no other id is
\* written as that word.
THEOREM UserIDRead ==
    \A human \in BOOLEAN, id \in U32 :
        UserID_deserialize(human, UserID_serialize(human, id)) = id
<1> SUFFICES ASSUME NEW id \in U32
             PROVE  UserID_from_str(UserID_fmt(id)) = id
    BY DEF UserID_deserialize, UserID_serialize
<1>1. CASE id = SYSTEM
    BY <1>1 DEF UserID_from_str, UserID_fmt
<1>2. CASE id # SYSTEM
    <2>1. Hex8(id) # SYSTEM_TEXT
        <3>1. Len(Hex8(id)) = 8
            BY Hex8Read
        <3>2. Len(SYSTEM_TEXT) = 6
            BY DEF SYSTEM_TEXT
        <3> QED BY <3>1, <3>2
    <2> QED BY <1>2, <2>1, Hex8Read DEF UserID_from_str, UserID_fmt
<1> QED BY <1>1, <1>2

\* Any number is taken for a colour, its upper byte dropped; a colour is then the
\* same at both ends.
THEOREM UserColorRead ==
    /\ \A n \in U32 : UserColor(n) \in UserColors
    /\ \A human \in BOOLEAN, c \in UserColors :
           UserColor_deserialize(human, UserColor_serialize(human, c)) = c
<1>1. ASSUME NEW n \in U32
      PROVE  UserColor(n) \in UserColors
    <2>1. n[1] \in Word /\ n[2] \in Word
        BY DEF U32
    <2>2. \A w \in Word : w % 256 \in 0 .. 255
        BY DEF Word
    <2>3. n[1] % 256 \in 0 .. 255
        BY <2>1, <2>2
    <2> QED BY <2>1, <2>3 DEF UserColor, UserColors
<1>2. ASSUME NEW c \in UserColors
      PROVE  UserColor(c) = c
    <2>1. c[1] \in 0 .. 255 /\ c = <<c[1], c[2]>>
        BY DEF UserColors
    <2>2. c[1] % 256 = c[1]
        BY <2>1
    <2> QED BY <2>1, <2>2 DEF UserColor
<1>3. ASSUME NEW c \in UserColors
      PROVE  UserColor_from_str(UserColor_fmt(c)) = c
    <2>0. c[1] \in 0 .. 255 /\ c[2] \in Word /\ c = <<c[1], c[2]>>
        BY DEF UserColors
    <2> DEFINE t == UserColor_fmt(c)
    <2>1. /\ Len(t) = 7 /\ t[1] = HASH
          /\ t[2] = Digit1(c[1]) /\ t[3] = Digit0(c[1])
          /\ t[4] = Digit3(c[2]) /\ t[5] = Digit2(c[2]) /\ t[6] = Digit1(c[2]) /\ t[7] = Digit0(c[2])
        BY DEF UserColor_fmt
    <2>2. \A i \in 2 .. 7 : t[i] \in Digit
        <3>1. /\ t[2] \in Digit /\ t[3] \in Digit /\ t[4] \in Digit
              /\ t[5] \in Digit /\ t[6] \in Digit /\ t[7] \in Digit
            BY <2>0, <2>1, WordDigits, ByteDigits
        <3> QED BY <3>1
    <2>3. IsHex(t, 2)
        BY <2>1, <2>2 DEF IsHex
    <2>4. \A i \in 2 .. 7 : Place(t, i) = t[i]
        BY <2>2, PlaceOfDigit
    <2>5. WordAt(t, 4) = 4096 * t[4] + 256 * t[5] + 16 * t[6] + t[7]
        BY <2>4 DEF WordAt
    <2>6. WordAt(t, 4) = c[2]
        BY <2>0, <2>1, <2>5, WordDigits
    <2>7. 16 * Place(t, 2) + Place(t, 3) = c[1]
        BY <2>0, <2>1, <2>4, ByteDigits
    <2>8. UserColor_from_str(t) = UserColor(<<c[1], c[2]>>)
        BY <2>1, <2>3, <2>6, <2>7 DEF UserColor_from_str
    <2> QED BY <2>0, <2>8, <1>2
<1> QED BY <1>1, <1>2, <1>3 DEF UserColor_deserialize, UserColor_serialize
------------------------------------------------------------------------------
LEMMA TwoBytes ==
    ASSUME NEW a \in Byte, NEW b \in Byte
    PROVE  /\ 256 * a + b \in Word
           /\ (256 * a + b) \div 256 = a
           /\ (256 * a + b) % 256 = b
<1> DEFINE w == 256 * a + b
<1>1. a \in Nat /\ a < 256 /\ b \in Nat /\ b < 256
    BY DEF Byte
<1>2. w \in Nat /\ w < 65536 /\ w = 256 * a + b
    BY <1>1
<1> HIDE DEF w
<1>3. /\ w \div 256 \in Nat /\ w % 256 \in 0 .. 255
      /\ w = 256 * (w \div 256) + (w % 256)
    BY <1>2, SMT
<1>4. w \div 256 = a /\ w % 256 = b
    <2> DEFINE q == w \div 256
               r == w % 256
    <2>1. q \in Nat /\ r \in 0 .. 255 /\ 256 * a + b = 256 * q + r
        BY <1>2, <1>3
    <2> HIDE DEF q, r
    <2>2. q = a /\ r = b
        BY <1>1, <2>1, SMT
    <2> QED BY <2>2 DEF q, r
<1> QED BY <1>1, <1>2, <1>4 DEF w, Word

LEMMA Octets ==
    ASSUME NEW a \in V4
    PROVE  /\ a.family = "v4"
           /\ a = [family |-> "v4", octets |-> a.octets]
           /\ a.octets[1] \in Byte /\ a.octets[2] \in Byte /\ a.octets[3] \in Byte /\ a.octets[4] \in Byte
           /\ a.octets = <<a.octets[1], a.octets[2], a.octets[3], a.octets[4]>>
BY DEF V4

LEMMA Segments ==
    ASSUME NEW a \in V6
    PROVE  /\ a.family = "v6"
           /\ \A i \in 1 .. 8 : a.segments[i] \in Word
<1>1. /\ a.segments[1] \in Word /\ a.segments[2] \in Word /\ a.segments[3] \in Word /\ a.segments[4] \in Word
      /\ a.segments[5] \in Word /\ a.segments[6] \in Word /\ a.segments[7] \in Word /\ a.segments[8] \in Word
      /\ a.family = "v6"
    BY DEF V6
<1> QED BY <1>1

\* Every address gives a home of 64 bits, nothing being shifted out at the top
\* but the upper word of a group id.
THEOREM HomeIsU64 ==
    \A addr \in RemoteAddress : UserHome(addr) \in U64
<1>0. 0 \in Word /\ 65534 \in Word /\ 65535 \in Word
    BY DEF Word
<1>1. \A a \in V4 : UserHome(a) \in U64
    <2> SUFFICES ASSUME NEW a \in V4
                 PROVE  UserHome(a) \in U64
        OBVIOUS
    <2> DEFINE hi == 256 * a.octets[1] + a.octets[2]
               lo == 256 * a.octets[3] + a.octets[4]
    <2>1. hi \in Word /\ lo \in Word
        BY Octets, TwoBytes
    <2>2. UserHome(a) = <<hi, lo, 65535, 0>>
        BY Octets DEF UserHome
    <2> HIDE DEF hi, lo
    <2> QED BY <1>0, <2>1, <2>2 DEF U64
<1>2. \A b \in V6 : UserHome(b) \in U64
    BY Segments DEF UserHome, U64
<1>3. \A c \in Unix : UserHome(c) \in U64
    <2>1. \A c \in Unix : c.family = "unix" /\ c.gid[2] \in Word
        BY DEF Unix, U32
    <2> QED BY <1>0, <2>1 DEF UserHome, U64
<1> QED BY <1>1, <1>2, <1>3 DEF RemoteAddress

\* The home of an IPv4 address, which no other IPv4 address has.
THEOREM HomesOfIPv4 ==
    \A a, b \in V4 : UserHome(a) = UserHome(b) => a = b
<1> SUFFICES ASSUME NEW a \in V4, NEW b \in V4, UserHome(a) = UserHome(b)
             PROVE  a = b
    OBVIOUS
<1>1. /\ 256 * a.octets[1] + a.octets[2] = 256 * b.octets[1] + b.octets[2]
      /\ 256 * a.octets[3] + a.octets[4] = 256 * b.octets[3] + b.octets[4]
    BY Octets DEF UserHome
<1>2. /\ a.octets[1] = b.octets[1] /\ a.octets[2] = b.octets[2]
      /\ a.octets[3] = b.octets[3] /\ a.octets[4] = b.octets[4]
    BY <1>1, Octets, TwoBytes
<1> QED BY <1>2, Octets

\* The home of an IPv6 address is its first 64 bits, the network it is in.
THEOREM HomesOfIPv6 ==
    \A a, b \in V6 :
        UserHome(a) = UserHome(b) <=> \A i \in 1 .. 4 : a.segments[i] = b.segments[i]
<1> SUFFICES ASSUME NEW a \in V6, NEW b \in V6
             PROVE  UserHome(a) = UserHome(b) <=> \A i \in 1 .. 4 : a.segments[i] = b.segments[i]
    OBVIOUS
<1>1. /\ UserHome(a) = <<a.segments[4], a.segments[3], a.segments[2], a.segments[1]>>
      /\ UserHome(b) = <<b.segments[4], b.segments[3], b.segments[2], b.segments[1]>>
    BY Segments DEF UserHome
<1> QED BY <1>1

\* A client on a Unix socket is told apart by the lower half of its group id
\* alone.
THEOREM HomesOfUnix ==
    \A a, b \in Unix : UserHome(a) = UserHome(b) <=> a.gid[2] = b.gid[2]
<1> SUFFICES ASSUME NEW a \in Unix, NEW b \in Unix
             PROVE  UserHome(a) = UserHome(b) <=> a.gid[2] = b.gid[2]
    OBVIOUS
<1>1. a.family = "unix" /\ b.family = "unix"
    BY DEF Unix
<1> QED BY <1>1 DEF UserHome

\* Clients of different kinds never have the same home, but for IPv6 addresses
\* whose first segment is zero (no global address is of these).
THEOREM HomesApart ==
    /\ \A a \in V4, c \in Unix : UserHome(a) # UserHome(c)
    /\ \A b \in V6, a \in V4 \cup Unix : UserHome(a) = UserHome(b) => b.segments[1] = 0
<1>1. \A a \in V4 : UserHome(a)[3] = 65535 /\ UserHome(a)[4] = 0
    BY Octets DEF UserHome
<1>2. \A c \in Unix : UserHome(c)[3] = 65534 /\ UserHome(c)[4] = 0
    <2>1. \A c \in Unix : c.family = "unix"
        BY DEF Unix
    <2> QED BY <2>1 DEF UserHome
<1>3. \A b \in V6 : UserHome(b)[4] = b.segments[1]
    BY Segments DEF UserHome
<1> QED BY <1>1, <1>2, <1>3

\* A client that connects over IPv4 has one address, whether the socket it
\* reaches is for IPv4 alone or for both.
THEOREM OneAddressOnEitherSocket ==
    \A a \in V4 : AcceptedFrom(a) = a /\ AcceptedFrom(Mapped(a)) = a
<1> SUFFICES ASSUME NEW a \in V4
             PROVE  AcceptedFrom(a) = a /\ AcceptedFrom(Mapped(a)) = a
    OBVIOUS
<1>1. AcceptedFrom(a) = a
    BY Octets DEF AcceptedFrom, IsMapped
<1> DEFINE m == Mapped(a)
<1>2. /\ m.family = "v6"
      /\ m.segments[1] = 0 /\ m.segments[2] = 0 /\ m.segments[3] = 0 /\ m.segments[4] = 0
      /\ m.segments[5] = 0 /\ m.segments[6] = 65535
      /\ m.segments[7] = 256 * a.octets[1] + a.octets[2]
      /\ m.segments[8] = 256 * a.octets[3] + a.octets[4]
    BY DEF Mapped
<1> HIDE DEF m
<1>3. IsMapped(m)
    BY <1>2 DEF IsMapped
<1>4. Unmapped(m) = [family |-> "v4", octets |-> <<a.octets[1], a.octets[2], a.octets[3], a.octets[4]>>]
    BY <1>2, Octets, TwoBytes DEF Unmapped
<1>5. Unmapped(m) = a
    BY <1>4, Octets
<1> QED BY <1>1, <1>3, <1>5 DEF AcceptedFrom, m

\* Of the addresses that proxies report the last that can be read counts.
THEOREM LastForwardedCounts ==
    ASSUME NEW addr, NEW n \in Nat, NEW forwarded, DOMAIN forwarded = 1 .. n, NEW k \in 1 .. n,
           EntryAddress(forwarded[k]) # Err,
           \A j \in k + 1 .. n : EntryAddress(forwarded[j]) = Err
    PROVE  ClientAddress(addr, forwarded, TRUE) = EntryAddress(forwarded[k])
<1> DEFINE parsed == {i \in DOMAIN forwarded : EntryAddress(forwarded[i]) # Err}
<1>1. k \in parsed /\ parsed \subseteq 1 .. n
    OBVIOUS
<1>2. \A j \in parsed : j <= k
    OBVIOUS
<1>3. (CHOOSE i \in parsed : \A j \in parsed : j <= i) = k
    <2> HIDE DEF parsed
    <2>1. \A i \in parsed : (\A j \in parsed : j <= i) => i = k
        BY <1>1, <1>2
    <2> QED BY <1>1, <1>2, <2>1
<1> QED BY <1>1, <1>3 DEF ClientAddress

\* Behind a proxy that reports IPv4 clients by their mapped addresses all of
\* them have one home: headcb takes an address as it is, accept alone maps it
\* back.
THEOREM ForwardedMappedShareHome ==
    \A peer \in RemoteAddress, a \in V4 :
        UserHome(ClientAddress(peer, <<[addr |-> Mapped(a), spaced |-> FALSE]>>, TRUE)) = <<0, 0, 0, 0>>
<1> SUFFICES ASSUME NEW peer \in RemoteAddress, NEW a \in V4
             PROVE  UserHome(ClientAddress(peer, <<[addr |-> Mapped(a), spaced |-> FALSE]>>, TRUE))
                        = <<0, 0, 0, 0>>
    OBVIOUS
<1>1. /\ Mapped(a).family = "v6"
      /\ Mapped(a).segments[1] = 0 /\ Mapped(a).segments[2] = 0
      /\ Mapped(a).segments[3] = 0 /\ Mapped(a).segments[4] = 0
    BY DEF Mapped
<1>2. UserHome(Mapped(a)) = <<0, 0, 0, 0>>
    BY <1>1 DEF UserHome
<1>3. Mapped(a) # Err
    BY DEF Mapped, Err
<1> DEFINE f == <<[addr |-> Mapped(a), spaced |-> FALSE]>>
<1>4. DOMAIN f = {1} /\ EntryAddress(f[1]) = Mapped(a)
    BY DEF EntryAddress
<1>5. ClientAddress(peer, f, TRUE) = EntryAddress(f[1])
    <2> HIDE DEF f
    <2> QED BY <1>3, <1>4 DEF ClientAddress
<1> QED BY <1>2, <1>4, <1>5
------------------------------------------------------------------------------
\* c2s_decode reads out of a frame the request id and the type that a client put
\* into its head, whatever the id (zero bytes in it included) and the message
\* that follows.
THEOREM HeadRead ==
    ASSUME NEW rid \in U32 \cup {<<>>}, NEW msgtype \in 1 .. 255, NEW data \in Seq(Byte),
           Len(data) > Len(ClientHead(rid, msgtype)),
           \A i \in 1 .. Len(ClientHead(rid, msgtype)) : data[i] = ClientHead(rid, msgtype)[i]
    PROVE  C2SHead(data) = [ok |-> TRUE, rid |-> rid, msgtype |-> msgtype,
                            body |-> Len(ClientHead(rid, msgtype)) + 1]
<1> DEFINE h == ClientHead(rid, msgtype)
<1>1. CASE rid = <<>>
    <2>1. Len(h) = 1 /\ h[1] = msgtype
        BY <1>1 DEF ClientHead
    <2>2. data[1] = msgtype /\ Len(data) >= 2 /\ Len(data) \in Nat
        BY <2>1
    <2>3. C2SHead(data) = [ok |-> TRUE, rid |-> <<>>, msgtype |-> data[1], body |-> 2]
        <3>1. data[1] # 0 /\ ~ (Len(data) < 2)
            BY <2>2
        <3> QED BY <3>1, Zenon DEF C2SHead
    <2>4. Len(h) + 1 = 2
        BY <2>1
    <2> QED BY <1>1, <2>2, <2>3, <2>4
<1>2. CASE rid # <<>>
    <2>1. rid[1] \in Word /\ rid[2] \in Word /\ rid = <<rid[1], rid[2]>>
        BY <1>2 DEF U32
    <2>2. /\ Len(h) = 6 /\ h[1] = 0 /\ h[2] = rid[2] % 256 /\ h[3] = rid[2] \div 256
          /\ h[4] = rid[1] % 256 /\ h[5] = rid[1] \div 256 /\ h[6] = msgtype
        BY <1>2 DEF ClientHead
    <2>3. /\ data[1] = 0 /\ data[2] = rid[2] % 256 /\ data[3] = rid[2] \div 256
          /\ data[4] = rid[1] % 256 /\ data[5] = rid[1] \div 256 /\ data[6] = msgtype
          /\ Len(data) >= 7 /\ Len(data) \in Nat
        BY <2>2
    <2>4. \A w \in Word : 256 * (w \div 256) + (w % 256) = w
        BY SMT DEF Word
    <2>5. 256 * data[5] + data[4] = rid[1] /\ 256 * data[3] + data[2] = rid[2]
        BY <2>1, <2>3, <2>4
    <2>6. C2SHead(data) = [ok |-> TRUE, rid |-> <<rid[1], rid[2]>>, msgtype |-> data[6], body |-> 7]
        <3>1. C2SHead(data) = [ok |-> TRUE, rid |-> <<256 * data[5] + data[4], 256 * data[3] + data[2]>>,
                               msgtype |-> data[6], body |-> 7]
            BY <2>3 DEF C2SHead
        <3> QED BY <2>5, <3>1
    <2>7. Len(h) + 1 = 7
        BY <2>2
    <2> QED BY <2>1, <2>3, <2>6, <2>7
<1> QED BY <1>1, <1>2

\* No two requests have the same type, and none the type that announces a
\* request id.
THEOREM RequestCodesApart ==
    /\ \A r \in DOMAIN RequestCode : RequestCode[r] \in 1 .. 255
    /\ \A r, s \in DOMAIN RequestCode : RequestCode[r] = RequestCode[s] => r = s
BY DEF RequestCode
==============================================================================
