------------------------------ MODULE Message ------------------------------
(***************************************************************************)
(* The decoders of message.rs, on sequences of octets.                     *)
(*                                                                         *)
(* b is the slice an Octets cursor runs over and i its offset: b[i + 1] is *)
(* the next octet.  A decoder yields a result: the value read and the new  *)
(* offset, an Error with its code and subcode, or a panic.  The operator ? *)
(* of Rust is Then.  A u32 is kept as its four octets.                     *)
(***************************************************************************)
EXTENDS Naturals, Sequences

CONSTANTS
    NoPeer,         \* BgpConn.peer before an OPEN
    OverflowChecks  \* the build checks for overflow (the dev profile does)

Octet == 0..255  \* u8

ASSUME BuildAssumption == OverflowChecks \in BOOLEAN

(***************************************************************************)
(* Results (error.rs)                                                      *)
(***************************************************************************)
Ok(v, i) == [code |-> "Ok", sub |-> "", val |-> v, off |-> i]
Err(c, s) == [code |-> c, sub |-> s, val |-> <<>>, off |-> 0]
ErrHeader(s) == Err("MessageHeaderError", s)
ErrOpen(s) == Err("OpenMessageError", s)
ErrUpdate(s) == Err("UpdateMessageError", s)
BufferTooShort == Err("LocalLogicError", "BufferTooShortError")
Panic == Err("Panic", "")

GoOn(r, F(_, _)) == IF r.code = "Ok" THEN F(r.val, r.off) ELSE r

\* GoOn(r, F), with r bound so that TLC evaluates it once.
Then(r, F(_, _)) == CHOOSE y \in {GoOn(x, F) : x \in {r}} : TRUE

(***************************************************************************)
(* The cursor (crate octets)                                               *)
(***************************************************************************)
get_bytes(b, i, n) ==
    IF Len(b) - i < n THEN BufferTooShort ELSE Ok(SubSeq(b, i + 1, i + n), i + n)

get_u8(b, i) ==
    IF Len(b) - i < 1 THEN BufferTooShort ELSE Ok(b[i + 1], i + 1)

get_u16(b, i) ==
    IF Len(b) - i < 2 THEN BufferTooShort ELSE Ok(256 * b[i + 1] + b[i + 2], i + 2)

get_bytes_with_u16_length(b, i) ==
    Then(get_u16(b, i), LAMBDA n, j : get_bytes(b, j, n))

\* v in front of what else was read.
Prepend(v, r) == Then(r, LAMBDA vs, l : Ok(<<v>> \o vs, l))

\* while b.cap() > 0, from offset i.
All(b, i, D(_, _)) ==
    LET from[k \in 0..Len(b)] ==
          IF k = Len(b) THEN Ok(<<>>, k)
          ELSE Then(D(b, k), LAMBDA v, j : Prepend(v, from[j]))
    IN from[i]

(***************************************************************************)
(* Header                                                                  *)
(***************************************************************************)
MARKER == [i \in 1..16 |-> 1]
MIN_MSG_LEN == 19
MsgType == <<"Open", "Update", "Notification", "Keepalive">>
MinLen == <<29, 23, 21, 19>>

BadLength(t, length) ==
    length < MinLen[t] \/ (MsgType[t] = "Keepalive" /\ length # MinLen[t])

\* The checks of type and length.
TypeAndLength(t, length, i) ==
    CASE t \notin 1..4 -> ErrHeader("BadMessageType")
      [] t \in 1..4 /\ BadLength(t, length) -> ErrHeader("BadMessageLength")
      [] OTHER -> Ok([length |-> length, msg_type |-> MsgType[t]], i)

MessageHeader(b) ==
    Then(get_bytes(b, 0, 16), LAMBDA marker, i :
      IF marker # MARKER THEN ErrHeader("ConnectionNotSync") ELSE
      Then(get_u16(b, i), LAMBDA length, j :
        Then(get_u8(b, j), LAMBDA t, k : TypeAndLength(t, length, k))))

(***************************************************************************)
(* OPEN                                                                    *)
(***************************************************************************)
MpExtCap(b, i) ==
    Then(get_bytes(b, i, 4), LAMBDA s, j : Ok([afi |-> 256 * s[1] + s[2], safi |-> s[4]], j))

NoParams == [mp_ext_caps |-> <<>>, four_octet_as_cap |-> <<>>]

\* One parameter, added to those in ps.
OptParam(b, i, ext_op, ps) ==
    Then(get_u8(b, i), LAMBDA t, j :
      Then(IF ext_op THEN get_u16(b, j) ELSE get_u8(b, j), LAMBDA len, k :
        CASE t \notin {1, 63} -> ErrOpen("UnsupportedOptionalParameter")
          [] t \in {1, 63} /\ len # 4 -> ErrOpen("UnSupportedCapability")
          [] t = 1 /\ len = 4 ->
               Then(MpExtCap(b, k), LAMBDA c, l :
                 Ok([ps EXCEPT !.mp_ext_caps = Append(@, c)], l))
          [] t = 63 /\ len = 4 ->
               Then(get_bytes(b, k, 4), LAMBDA a, l :
                 Ok([ps EXCEPT !.four_octet_as_cap = a], l))))

\* opt_params_len parameters, whatever their length.
OptParams(b, i, opt_params_len, ext_op) ==
    LET after[n \in Nat] ==
          IF n = 0 THEN Ok(NoParams, i)
          ELSE Then(after[n - 1], LAMBDA ps, j : OptParam(b, j, ext_op, ps))
    IN after[opt_params_len]

\* Mutant: the bound on the hold time is off by one.
UnacceptableHoldTimeBelowTwo(h) == h # 0 /\ h < 2

UnacceptableHoldTime(h) == h # 0 /\ h < 3

BadIdentifier(id) == id \in {<<0, 0, 0, 0>>, <<255, 255, 255, 255>>}

\* The fields are read at the offsets of the rows of the diagram: version at
\* 0, AS number at 4, hold time at 8, identifier at 12, lengths at 16.
OpenMsg(b) ==
    Then(get_u8(b, 0), LAMBDA version, i0 :
      IF version # 4 THEN ErrOpen("UnsupportedVersionNumber") ELSE
      Then(get_bytes(b, i0, 3), LAMBDA pad1, i1 :
      Then(get_u16(b, i1), LAMBDA as_number, i2 :
      Then(get_bytes(b, i2, 2), LAMBDA pad2, i3 :
      Then(get_u16(b, i3), LAMBDA hold_time, i4 :
      IF UnacceptableHoldTime(hold_time) THEN ErrOpen("UnacceptableHoldTime") ELSE
      Then(get_bytes(b, i4, 2), LAMBDA pad3, i5 :
      Then(get_bytes(b, i5, 4), LAMBDA id, i6 :
      IF BadIdentifier(id) THEN ErrOpen("BadBgpIdentifier") ELSE
      Then(get_u8(b, i6), LAMBDA non_ext_op_len, i7 :
      Then(get_u8(b, i7), LAMBDA non_ext_op_type, i8 :
      Then(get_u16(b, i8), LAMBDA ext_opt_parm_len, i9 :
        LET ext == non_ext_op_type = 255
            len == IF ext THEN ext_opt_parm_len ELSE non_ext_op_len
        IN Then(OptParams(b, i9, len, ext), LAMBDA ps, i10 :
             Ok([as_number |-> as_number, hold_time |-> hold_time,
                 bgp_identifier |-> id, ext_opt_param |-> ext,
                 opt_params_len |-> len, opt_params |-> ps], i10))))))))))))

(***************************************************************************)
(* UPDATE                                                                  *)
(***************************************************************************)
Padded(s, n) == [k \in 1..n |-> IF k <= Len(s) THEN s[k] ELSE 0]

\* Mutant: rounded down.
PaddedLengthFloor(length) == length \div 8

\* (length + 7) / 8 in u8.
PaddedLength(length) == ((length + 7) % 256) \div 8

Cidr(b, i) ==
    Then(get_u8(b, i), LAMBDA length, j :
      IF OverflowChecks /\ length + 7 > 255 THEN Panic ELSE
      Then(get_bytes(b, j, PaddedLength(length)), LAMBDA s, k :
        CASE Len(s) <= 4 -> Ok([length |-> length, prefix |-> Padded(s, 4)], k)
          [] Len(s) \in 5..16 -> Ok([length |-> length, prefix |-> Padded(s, 16)], k)
          [] OTHER -> Panic))

Origin(b, i, attr_len) ==
    IF attr_len # 1 THEN ErrUpdate("AttributeLengthError") ELSE
    Then(get_u8(b, i), LAMBDA o, j :
      IF o \in 0..2 THEN Ok(o, j) ELSE ErrUpdate("InvalidOriginAttribute"))

\* One segment, which has to fill the attribute.
AsPathSegment(b, i, attr_len) ==
    Then(get_u8(b, i), LAMBDA t, j :
      IF t \notin {1, 2} THEN ErrUpdate("MalformedAsPath") ELSE
      Then(get_u8(b, j), LAMBDA n, k :
        IF 2 * n + 2 # attr_len THEN ErrUpdate("MalformedAsPath") ELSE
        Then(get_bytes(b, k, 2 * n), LAMBDA s, l :
          Ok([segment_type |-> t,
              segment_value |-> [m \in 1..n |-> 256 * s[2 * m - 1] + s[2 * m]]], l))))

\* Mutant: AS numbers are taken to have four octets.
AggregatorFour(b, i, four_octets) == get_bytes(b, i, 8)

Aggregator(b, i, four_octets) == get_bytes(b, i, IF four_octets THEN 8 ELSE 6)

\* The length of types 4 to 7 is not looked at.
PathAttributeValue(b, i, peer, type, attr_len) ==
    CASE type = 1 -> Origin(b, i, attr_len)
      [] type = 2 -> AsPathSegment(b, i, attr_len)
      [] type = 3 /\ attr_len # 4 -> ErrUpdate("AttributeLengthError")
      [] type = 3 /\ attr_len = 4 -> get_bytes(b, i, 4)
      [] type \in {4, 5} -> get_bytes(b, i, 4)
      [] type = 6 -> Ok(TRUE, i)
      [] type = 7 -> Aggregator(b, i, peer.opt_params.four_octet_as_cap # <<>>)
      [] OTHER -> get_bytes(b, i, attr_len)

ExtendedLength(flags) == (flags \div 16) % 2 = 1

PathAttribute(b, i, peer) ==
    Then(get_u8(b, i), LAMBDA flags, j :
      Then(get_u8(b, j), LAMBDA type, k :
        Then(IF ExtendedLength(flags) THEN get_u16(b, k) ELSE get_u8(b, k), LAMBDA len, l :
          Then(PathAttributeValue(b, l, peer, type, len), LAMBDA v, m :
            Ok([attr_flags |-> flags, attr_type_code |-> type, attr_value |-> v], m)))))

\* The length of a prefix is read twice: once here, once by Cidr.
Nlri(b, i) ==
    Then(get_u8(b, i), LAMBDA length, j :
      Then(Cidr(b, j), LAMBDA c, k : Ok([length |-> length, prefix |-> c.prefix], k)))

UpdateMsg(b, peer) ==
    Then(get_bytes_with_u16_length(b, 0), LAMBDA w, i :
      Then(All(w, 0, Cidr), LAMBDA withdrawn, iw :
        Then(get_bytes_with_u16_length(b, i), LAMBDA a, j :
          Then(All(a, 0, LAMBDA c, k : PathAttribute(c, k, peer)), LAMBDA attrs, ia :
            Then(All(b, j, Nlri), LAMBDA nlri, k :
              Ok([withdrawn_routes |-> withdrawn, path_attributes |-> attrs,
                  nlri |-> nlri], k))))))

(***************************************************************************)
(* NOTIFICATION and the messages                                           *)
(***************************************************************************)
\* The data is whatever is left of the slice.
NotificationMsg(b) ==
    Then(get_u8(b, 0), LAMBDA code, i :
      Then(get_u8(b, i), LAMBDA subcode, j :
        Then(get_bytes(b, j, Len(b) - j), LAMBDA data, k :
          Ok([error_code |-> code, error_subcode |-> subcode, data |-> data], k))))

Body(msg_type, b, peer) ==
    CASE msg_type = "Open" -> OpenMsg(b)
      [] msg_type = "Update" /\ peer = NoPeer -> ErrHeader("ConnectionNotSync")
      [] msg_type = "Update" /\ peer # NoPeer -> UpdateMsg(b, peer)
      [] msg_type = "Keepalive" -> Ok(<<>>, 0)
      [] msg_type = "Notification" -> NotificationMsg(b)

\* The message with header h, and how far the buffer is to be advanced.
Payload(h, b, peer) ==
    Then(Body(h.msg_type, b, peer), LAMBDA v, k :
      Ok([type |-> h.msg_type, msg |-> v], k + MIN_MSG_LEN))

\* Mutant: a message is decoded as soon as its own octets are there.
DecodeEarly(buf, peer) ==
    IF Len(buf) < MIN_MSG_LEN THEN BufferTooShort ELSE
    Then(MessageHeader(buf), LAMBDA h, i :
      IF Len(buf) < h.length THEN BufferTooShort ELSE
      Payload(h, SubSeq(buf, i + 1, Len(buf)), peer))

\* Message::decode.  The slice of the body starts behind the header and has
\* header.length octets, although the header is part of that length.
Decode(buf, peer) ==
    IF Len(buf) < MIN_MSG_LEN THEN BufferTooShort ELSE
    Then(MessageHeader(buf), LAMBDA h, i :
      IF Len(buf) < h.length THEN BufferTooShort ELSE
      Then(get_bytes(buf, i, h.length), LAMBDA body, j : Payload(h, body, peer)))
=============================================================================
