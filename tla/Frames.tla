-------------------------------- MODULE Frames --------------------------------
(***************************************************************************)
(* What the two protocol handlers make of a WebSocket message: c2s_decode  *)
(* and do_message of proto_json_v2.rs and proto_msgpack_v1.rs, and         *)
(* finish_msg_what of the former.  A frame of the kind the protocol uses   *)
(* has a head, which holds a request id, holds none or cannot be read, and *)
(* a body: a request, a custom message whose data is null, or something    *)
(* that cannot be parsed.  A frame of the other kind has neither.          *)
(*                                                                         *)
(* A handler is a record: pc, what it does; waits, whether a message waits *)
(* for its binary data (unfinished_msg_what); rid, whether the request at  *)
(* hand has an id; data, what its custom data is.                          *)
(***************************************************************************)
PROTOCOLS == {"json-v2", "msgpack-v1"}

Carrier(protocol) == IF protocol = "json-v2" THEN "text" ELSE "binary"

Frames(protocol) ==
    [kind : {Carrier(protocol)}, head : {"rid", "plain", "bad"}, body : {"request", "null", "bad"}]
    \cup [kind : {"text", "binary"} \ {Carrier(protocol)}, head : {"none"}, body : {"none"}]

NewHandler == [pc |-> "none", waits |-> FALSE, rid |-> FALSE, data |-> "whole"]
------------------------------------------------------------------------------
\* The handler returns; its connection is closed.
Left == [NewHandler EXCEPT !.pc = "leaving"]

\* tx.send of a request.
Forward(h, data, rid) == [h EXCEPT !.pc = "request", !.waits = FALSE, !.rid = rid, !.data = data]

\* A response the handler gives itself: sent if there is an id to send it
\* under; without one the connection ends.
Refuse(h, rid) == IF rid THEN [h EXCEPT !.pc = "write"] ELSE Left

\* What the head and the body say; null is what becomes of a message that has
\* no data yet.
Decode(h, f, null) ==
    LET rid == f.head = "rid"
    IN  IF f.head = "bad" THEN Left
        ELSE CASE f.body = "bad"     -> Refuse(h, rid)
               [] f.body = "null"    -> null
               [] f.body = "request" -> Forward(h, "whole", rid)

\* Mutant: finish_msg_what forgets the id.
JsonFrame_anonymous(h, f) ==
    CASE f.kind = "binary" /\ h.waits -> Forward(h, "bytes", FALSE)
      [] f.kind = "text" /\ ~ h.waits -> Decode(h, f, [h EXCEPT !.waits = TRUE, !.rid = f.head = "rid"])
      [] OTHER -> Left

\* Binary data belongs to the message before it, and to nothing else.
JsonFrame(h, f) ==
    CASE f.kind = "binary" /\ h.waits -> Forward(h, "bytes", h.rid)
      [] f.kind = "text" /\ ~ h.waits -> Decode(h, f, [h EXCEPT !.waits = TRUE, !.rid = f.head = "rid"])
      [] OTHER -> Left

\* Bytes are part of a binary frame: null is refused, whatever the id.
MsgpackFrame(h, f) == IF f.kind = "text" THEN Left ELSE Decode(h, f, Left)

\* What the client means by its frames, as docs/protocol.md has it: the message
\* it has written when said is what it had written before.  Binary data in the
\* place of null belongs to the message right before it.
Unsaid == [rid |-> FALSE, data |-> "none"]

Meant(protocol, said, f) ==
    IF f.kind # Carrier(protocol) THEN [said EXCEPT !.data = "bytes"]
    ELSE CASE f.body = "request" -> [rid |-> f.head = "rid", data |-> "whole"]
           [] f.body = "null"    -> [rid |-> f.head = "rid", data |-> "null"]
           [] f.body = "bad"     -> Unsaid

AfterFrame(protocol, h, f) == IF protocol = "json-v2" THEN JsonFrame(h, f) ELSE MsgpackFrame(h, f)
==============================================================================
