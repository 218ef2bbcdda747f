------------------------------ MODULE Conversions ------------------------------
(***************************************************************************)
(* What src/types.rs makes of numbers, texts and addresses: ids, colours   *)
(* and homes on the wire of either protocol (serialize, deserialize, fmt,  *)
(* from_str), where the home of a client comes from (UserHome::from, and   *)
(* accept and headcb of listener.rs), and the head of a msgpack frame.     *)
(* There is no state here: the talker and the listener carry the results   *)
(* about without looking at them.                                          *)
(*                                                                         *)
(* An integer is the sequence of its 16-bit words, the highest first: a    *)
(* u32 has two and a u64 has four.  A text is a sequence of characters, a  *)
(* character is a number: 0 to 15 are the hexadecimal digits, of either    *)
(* case, and the others follow.  Human is serde's is_human_readable, which *)
(* holds for JSON and not for MessagePack.                                 *)
(***************************************************************************)
EXTENDS Integers, Sequences

Byte  == 0 .. 255
Word  == {w \in Nat : w < 65536}
U32   == Word \X Word
U64   == Word \X Word \X Word \X Word
Digit == 0 .. 15

PLUS == 16
HASH == 17
NonHex == 18 .. 255   \* other letters and signs; the bytes of what is not ASCII

Text == Seq(Digit \cup {PLUS, HASH} \cup NonHex)

\* "system", its e being a digit.
SYSTEM_TEXT == <<18, 19, 18, 20, 14, 21>>

\* UserID::SYSTEM, 0xffffffff.
SYSTEM == <<65535, 65535>>

\* The Err of a from_str.
Err == <<>>
------------------------------------------------------------------------------
\* Digit k of a word, of the weight 16^k.
Digit3(w) == w \div 4096
Digit2(w) == (w \div 256) % 16
Digit1(w) == (w \div 16) % 16
Digit0(w) == w % 16

\* {:0>8x} of a u32 and {:0>16x} of a u64.
Hex8(n) == <<Digit3(n[1]), Digit2(n[1]), Digit1(n[1]), Digit0(n[1]),
             Digit3(n[2]), Digit2(n[2]), Digit1(n[2]), Digit0(n[2])>>

Hex16(n) == <<Digit3(n[1]), Digit2(n[1]), Digit1(n[1]), Digit0(n[1]),
              Digit3(n[2]), Digit2(n[2]), Digit1(n[2]), Digit0(n[2]),
              Digit3(n[3]), Digit2(n[3]), Digit1(n[3]), Digit0(n[3]),
              Digit3(n[4]), Digit2(n[4]), Digit1(n[4]), Digit0(n[4])>>

\* u32::from_str_radix of the text from a place on: digits, and before them
\* perhaps a plus, which takes the place of a digit and counts for nothing.
IsHex(t, from) == \A i \in from .. Len(t) : t[i] \in Digit \/ (i = from /\ t[i] = PLUS)

Place(t, i) == IF t[i] = PLUS THEN 0 ELSE t[i]

WordAt(t, i) ==
    4096 * Place(t, i) + 256 * Place(t, i + 1) + 16 * Place(t, i + 2) + Place(t, i + 3)
------------------------------------------------------------------------------
\* MessageID: eight digits, or a number.
MessageID_fmt(id) == Hex8(id)

MessageID_from_str(t) ==
    IF Len(t) = 8 /\ IsHex(t, 1) THEN <<WordAt(t, 1), WordAt(t, 5)>> ELSE Err

MessageID_serialize(human, id) == IF human THEN MessageID_fmt(id) ELSE id

MessageID_deserialize(human, wire) == IF human THEN MessageID_from_str(wire) ELSE wire

\* UserID: the same, but for the user that sends system messages.
UserID_fmt(id) == IF id = SYSTEM THEN SYSTEM_TEXT ELSE Hex8(id)

UserID_from_str(t) ==
    IF t = SYSTEM_TEXT THEN SYSTEM
    ELSE IF Len(t) = 8 /\ IsHex(t, 1) THEN <<WordAt(t, 1), WordAt(t, 5)>> ELSE Err

UserID_serialize(human, id) == IF human THEN UserID_fmt(id) ELSE id

UserID_deserialize(human, wire) == IF human THEN UserID_from_str(wire) ELSE wire

\* UserColor::new: whatever the number, the low 24 bits of it.
UserColor(n) == <<n[1] % 256, n[2]>>

UserColors == (0 .. 255) \X Word

\* A hash sign and {:0>6x}.
UserColor_fmt(c) == <<HASH, Digit1(c[1]), Digit0(c[1]),
                      Digit3(c[2]), Digit2(c[2]), Digit1(c[2]), Digit0(c[2])>>

UserColor_from_str(t) ==
    IF Len(t) = 7 /\ t[1] = HASH /\ IsHex(t, 2)
    THEN UserColor(<<16 * Place(t, 2) + Place(t, 3), WordAt(t, 4)>>)
    ELSE Err

UserColor_serialize(human, c) == IF human THEN UserColor_fmt(c) ELSE c

UserColor_deserialize(human, wire) ==
    IF human THEN UserColor_from_str(wire) ELSE UserColor(wire)

\* UserHome: sixteen digits, or a number.  Nothing reads one.
UserHome_serialize(human, home) == IF human THEN Hex16(home) ELSE home
------------------------------------------------------------------------------
\* Where a client connects from: RemoteAddress.
V4   == [family : {"v4"}, octets : Byte \X Byte \X Byte \X Byte]
V6   == [family : {"v6"}, segments : Word \X Word \X Word \X Word \X Word \X Word \X Word \X Word]
Unix == [family : {"unix"}, gid : U32]

RemoteAddress == V4 \cup V6 \cup Unix

\* UserHome::from.  Of the 64 bits an IPv4 address has the upper half, the
\* lower half being 0xffff0000; an IPv6 address has them all, its segments from
\* the lowest word up; a group id is shifted by 48 bits, so that its upper word
\* falls out.
UserHome(addr) ==
    CASE addr.family = "v4" ->
             <<256 * addr.octets[1] + addr.octets[2], 256 * addr.octets[3] + addr.octets[4], 65535, 0>>
      [] addr.family = "v6" ->
             <<addr.segments[4], addr.segments[3], addr.segments[2], addr.segments[1]>>
      [] addr.family = "unix" -> <<addr.gid[2], 0, 65534, 0>>

\* An IPv4 address as a socket for both kinds shows it, ::ffff:a.b.c.d.
IsMapped(addr) ==
    /\ addr.family = "v6"
    /\ \A i \in 1 .. 5 : addr.segments[i] = 0
    /\ addr.segments[6] = 65535

\* to_ipv4_mapped
Unmapped(addr) ==
    [family |-> "v4",
     octets |-> <<addr.segments[7] \div 256, addr.segments[7] % 256,
                  addr.segments[8] \div 256, addr.segments[8] % 256>>]

\* The other way, as the network stack does it.
Mapped(addr) ==
    [family |-> "v6",
     segments |-> <<0, 0, 0, 0, 0, 65535,
                    256 * addr.octets[1] + addr.octets[2], 256 * addr.octets[3] + addr.octets[4]>>]

\* ListenerType::accept
AcceptedFrom(peer) == IF IsMapped(peer) THEN Unmapped(peer) ELSE peer

\* The last entry of an x-forwarded-for header, as an address or Err.  It is not
\* trimmed: after a comma and a space no address can be read.
EntryAddress(entry) == IF entry.spaced THEN Err ELSE entry.addr

\* headcb on these headers of a handshake, given by their last entries: the last
\* that can be read counts.
ClientAddress(addr, forwarded, trust_real_ip_header) ==
    LET parsed == {i \in DOMAIN forwarded : EntryAddress(forwarded[i]) # Err}
    IN  IF trust_real_ip_header /\ parsed # {}
        THEN EntryAddress(forwarded[CHOOSE i \in parsed : \A j \in parsed : j <= i])
        ELSE addr
------------------------------------------------------------------------------
\* The message types of msgpack-v1 that a client may send.
RequestCode ==
    [USER_JOINED |-> 19, MOUSE |-> 16, TYPING |-> 22, MESSAGE |-> 23, MESSAGE_DM |-> 24,
     ROOM_JOIN |-> 17, ROOM_LEAVE |-> 18, USER_CHANGE_NICK |-> 20, CUSTOM_R |-> 33, CUSTOM_U |-> 34]

\* c2s_decode on the bytes of a frame: whether the head can be read, the request
\* id (little-endian, after a zero byte) or <<>>, the type, and where the
\* message itself begins.
C2SHead(data) ==
    IF Len(data) < 2 \/ (data[1] = 0 /\ Len(data) < 7)
    THEN [ok |-> FALSE, rid |-> <<>>, msgtype |-> 0, body |-> 0]
    ELSE IF data[1] = 0
         THEN [ok |-> TRUE, rid |-> <<256 * data[5] + data[4], 256 * data[3] + data[2]>>,
               msgtype |-> data[6], body |-> 7]
         ELSE [ok |-> TRUE, rid |-> <<>>, msgtype |-> data[1], body |-> 2]

\* A head as docs/protocol.md has clients write it: perhaps a zero byte and a
\* request id, then the type.
ClientHead(rid, msgtype) ==
    IF rid = <<>> THEN <<msgtype>>
    ELSE <<0, rid[2] % 256, rid[2] \div 256, rid[1] % 256, rid[1] \div 256, msgtype>>
==============================================================================
