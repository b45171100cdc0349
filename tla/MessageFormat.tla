--------------------------- MODULE MessageFormat ---------------------------
(***************************************************************************)
(* The decoders of Message against the formats that the diagrams and       *)
(* comments of message.rs give.  A behaviour takes one input and decodes   *)
(* it.  The definitions below are the sender's side: they put octets       *)
(* together and say what they mean, without reference to the decoders.     *)
(***************************************************************************)
EXTENDS Message, SequencesExt

CONSTANTS
    PrefixLength,   \* lengths of prefixes
    OpenFields,     \* fields of OPEN messages
    Frames,         \* messages with what follows them, well-formed or not
    Withdrawn,      \* lists of withdrawn routes
    Attributes,     \* lists of path attributes
    Following,      \* what has arrived behind an UPDATE
    Peers           \* what the peer's OPEN said

U16MAX == 256 * 256 - 1

\* The fields of an OPEN and of an attribute, as wide as message.rs reads them.
AnyFields == [version : Octet, as_number : 0..U16MAX, hold_time : 0..U16MAX,
              id : [1..4 -> Octet]]
AnyAttribute == [type : Octet, octets : Seq(Octet), ext : BOOLEAN]

\* The lengths a prefix can have, in bits.
CidrLength == 0..128

ASSUME OctetAssumption ==
    /\ PrefixLength \subseteq Octet
    /\ OpenFields \subseteq AnyFields
    /\ Frames \subseteq Seq(Octet)
    /\ Withdrawn \subseteq Seq(CidrLength)
    /\ Attributes \subseteq Seq(AnyAttribute)
    /\ Following \subseteq Seq(Octet)
    /\ NoPeer \notin Peers

VARIABLES
    input,  \* what is decoded
    result  \* what came of it

formatVars == <<input, result>>

(***************************************************************************)
(* The sender                                                              *)
(***************************************************************************)
U16(n) == <<n \div 256, n % 256>>
Frame(t, body) == MARKER \o U16(MIN_MSG_LEN + Len(body)) \o <<t>> \o body
KeepaliveFrame == Frame(4, <<>>)

\* Octets that differ from each other and from a marker.
Filler(n) == [k \in 1..n |-> 100 + k]

\* The least number of octets that hold n bits.
OctetsFor(n) == CHOOSE k \in 0..32 : 8 * k >= n /\ (k > 0 => 8 * (k - 1) < n)

Prefix(n) == <<n>> \o Filler(OctetsFor(n))

\* An OPEN without optional parameters, of the least length that message.rs
\* gives: the fields follow each other, and 29 octets hold them all.
Open(f) ==
    <<f.version>> \o U16(f.as_number) \o U16(f.hold_time) \o f.id \o <<0>>

Valid(f) ==
    /\ f.version = 4
    /\ f.hold_time \notin {1, 2}
    /\ \E k \in 1..4 : f.id[k] # 0
    /\ \E k \in 1..4 : f.id[k] # 255

\* An attribute a has a type, octets, and a flag for two octets of length.
Attribute(a) ==
    IF a.ext THEN <<16, a.type>> \o U16(Len(a.octets)) \o a.octets
    ELSE <<0, a.type, Len(a.octets)>> \o a.octets

PrefixesOf(ps) == FlattenSeq([k \in DOMAIN ps |-> Prefix(ps[k])])
AttributesOf(as) == FlattenSeq([k \in DOMAIN as |-> Attribute(as[k])])

UpdateBody(ws, as, nlri) ==
    U16(Len(PrefixesOf(ws))) \o PrefixesOf(ws)
    \o U16(Len(AttributesOf(as))) \o AttributesOf(as) \o PrefixesOf(nlri)

\* Whether an AS number has four octets or two is said by the peer's OPEN.
AsWidth(peer) == IF peer.opt_params.four_octet_as_cap # <<>> THEN 4 ELSE 2

\* An attribute of a known type has the octets of its diagram, and the octets
\* are as many as its length can say.
WellFormed(a) ==
    /\ Len(a.octets) <= IF a.ext THEN U16MAX ELSE 255
    /\ a.type = 1 => Len(a.octets) = 1 /\ a.octets[1] \in 0..2
    /\ a.type \in {3, 4, 5} => Len(a.octets) = 4
    /\ a.type = 6 => Len(a.octets) = 0

\* The AS numbers of AS_PATH and AGGREGATOR are as wide as the peer said.
Fits(a, peer) ==
    /\ a.type = 2 => /\ Len(a.octets) >= 2 /\ a.octets[1] \in {1, 2}
                     /\ Len(a.octets) = 2 + AsWidth(peer) * a.octets[2]
    /\ a.type = 7 => Len(a.octets) = AsWidth(peer) + 4

\* An UPDATE is no longer than its length, and those of its lists, can say.
ASSUME UpdateAssumption ==
    /\ \A as \in Attributes : \A k \in DOMAIN as : WellFormed(as[k])
    /\ \A ws \in Withdrawn, as \in Attributes :
          MIN_MSG_LEN + Len(UpdateBody(ws, as, <<>>)) <= U16MAX

\* The AS numbers of the segment s, one of two octets as a number, one of four
\* as its octets.
AsNumbers(s, width) ==
    [m \in 1..s[2] |-> IF width = 2 THEN 256 * s[2 * m + 1] + s[2 * m + 2]
                       ELSE SubSeq(s, 4 * m - 1, 4 * m + 2)]

\* What an attribute says.
Meaning(a, peer) ==
    CASE a.type = 1 -> a.octets[1]
      [] a.type = 2 -> [segment_type |-> a.octets[1],
                        segment_value |-> AsNumbers(a.octets, AsWidth(peer))]
      [] a.type = 6 -> TRUE
      [] OTHER -> a.octets

(***************************************************************************)
(* Inputs and what decodes them                                            *)
(***************************************************************************)
Input ==
    \/ \E n \in PrefixLength : input = [of |-> "prefix", length |-> n]
    \/ \E f \in OpenFields : input = [of |-> "open", fields |-> f]
    \/ \E f \in Frames, peer \in Peers \cup {NoPeer} :
         \E n \in 0..Len(f) : input = [of |-> "cut", frame |-> f, cut |-> n, peer |-> peer]
    \/ \E ws \in Withdrawn, as \in Attributes, peer \in Peers, next \in Following :
         /\ \A k \in DOMAIN as : Fits(as[k], peer)
         /\ input = [of |-> "update", withdrawn |-> ws, attributes |-> as,
                     peer |-> peer, next |-> next]

Result ==
    CASE input.of = "prefix" -> Cidr(<<input.length>> \o Filler(32), 0)
      [] input.of = "open" ->
           Decode(Frame(1, Open(input.fields)) \o KeepaliveFrame, NoPeer)
      [] input.of = "cut" -> Decode(SubSeq(input.frame, 1, input.cut), input.peer)
      [] input.of = "update" ->
           Decode(Frame(2, UpdateBody(input.withdrawn, input.attributes, <<>>))
                    \o input.next, input.peer)

Undecoded == Err("Undecoded", "")

Init == Input /\ result = Undecoded

DecodeInput ==
    /\ result = Undecoded
    /\ result' = Result
    /\ UNCHANGED input

Next == DecodeInput

Spec == Init /\ [][Next]_formatVars

Decoded(of) == input.of = of /\ result # Undecoded

(***************************************************************************)
(* Properties                                                              *)
(***************************************************************************)
\* A prefix of up to 128 bits is read from as many octets as hold it, no
\* more, and filled with zeros to four octets if they suffice, else sixteen:
\* the rounding in u8 of Cidr::decode is right up to the longest prefix.  (What
\* becomes of a length that no prefix has is ConversionCannotFail.)
PrefixDecodes ==
    Decoded("prefix") /\ input.length \in CidrLength =>
        LET n == OctetsFor(input.length)
            size == IF input.length <= 32 THEN 4 ELSE 16
        IN result = Ok([length |-> input.length,
                        prefix |-> [k \in 1..size |-> IF k <= n THEN 100 + k ELSE 0]],
                       n + 1)

\* Whatever octets have arrived, and wherever the fields of an OPEN are read
\* from, an OPEN that Message::decode returns has a hold time and an
\* identifier that a session may negotiate with: run divides the hold time
\* by three and compares the identifier without looking at them again.
AcceptedOpenIsUsable ==
    result.code = "Ok" /\ input.of \in {"open", "cut"} =>
        (result.val.type = "Open" =>
            /\ result.val.msg.hold_time \notin {1, 2}
            /\ ~BadIdentifier(result.val.msg.bgp_identifier))

\* A message that has not arrived as a whole is waited for: whatever part of
\* it, and of what follows it, is in the buffer, Message::decode asks for more
\* octets or says what it says of all of them.
CutIsWaitedFor ==
    Decoded("cut") =>
        result = BufferTooShort \/ result = Decode(input.frame, input.peer)

\* The path attributes of input have AS numbers as AsPathSegment::decode takes
\* them: AS_PATH only from a peer with AS numbers of two octets.
NarrowPaths ==
    \A k \in DOMAIN input.attributes :
        input.attributes[k].type = 2 => AsWidth(input.peer) = 2

\* An UPDATE with NarrowPaths is not refused, and if it is decoded, its
\* withdrawn routes and path attributes are those that were sent, in their
\* order, whatever attributes come before them and whatever octets behind the
\* UPDATE its decoder takes for prefixes.
UpdateBodyDecodes ==
    Decoded("update") /\ NarrowPaths =>
        /\ result.code # "UpdateMessageError"
        /\ result.code = "Ok" =>
             LET u == result.val.msg IN
             /\ Len(u.withdrawn_routes) = Len(input.withdrawn)
             /\ \A k \in DOMAIN input.withdrawn :
                   u.withdrawn_routes[k].length = input.withdrawn[k]
             /\ Len(u.path_attributes) = Len(input.attributes)
             /\ \A k \in DOMAIN input.attributes :
                   /\ u.path_attributes[k].attr_type_code = input.attributes[k].type
                   /\ u.path_attributes[k].attr_value
                        = Meaning(input.attributes[k], input.peer)

(***************************************************************************)
(* What diagrams and comments of message.rs say and the code does not do:  *)
(* TLC finds a counterexample to each among the inputs of MCMessage.       *)
(***************************************************************************)
\* message.rs:658: the length of a NOTIFICATION is 21 and that of its data;
\* message.rs:234: an OPEN may be as short as 29 octets.  So the length in a
\* header is that of the message with its header, and a message that is
\* decoded is taken from the buffer up to its length, neither more nor less.
MessageEndsAtItsLength ==
    Decoded("cut") /\ result.code = "Ok" =>
        result.off = 256 * input.frame[17] + input.frame[18]

\* message.rs:574-586: what follows the path attributes of an UPDATE is its
\* Network Layer Reachability Information.  So an UPDATE that announces a
\* prefix and is followed by another message is decoded, with that prefix.
AnnouncementDecodes ==
    Decoded("update") /\ Len(input.attributes) = 1 /\ input.withdrawn = <<>> /\ NarrowPaths =>
        LET r == Decode(Frame(2, UpdateBody(<<>>, input.attributes, <<24>>))
                          \o KeepaliveFrame, input.peer)
        IN r.code = "Ok" /\ r.val.msg.nlri = <<[length |-> 24, prefix |-> <<101, 102, 103, 0>>]>>

\* message.rs:234: the least length of an OPEN is 29 octets.  So an OPEN of
\* that length is decoded, if what it says is acceptable, with its fields.
OpenDecodes ==
    Decoded("open") /\ Valid(input.fields) =>
        /\ result.code = "Ok"
        /\ result.val.msg.as_number = input.fields.as_number
        /\ result.val.msg.hold_time = input.fields.hold_time
        /\ result.val.msg.bgp_identifier = input.fields.id

\* message.rs:346 and 356: the conversion of a prefix cannot fail.
ConversionCannotFail == Decoded("prefix") => result # Panic

\* message.rs:125: the code supports AS numbers of four octets (RFC 6793), and
\* line 513 takes their width from the peer's OPEN.  So no UPDATE is refused
\* for the AS numbers of a peer that said it uses such.
FourOctetPathsDecode == Decoded("update") => result.code # "UpdateMessageError"
=============================================================================
