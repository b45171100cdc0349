----------------------------- MODULE MCMessage -----------------------------
(***************************************************************************)
(* Inputs for the decoders: the boundaries of every field they check.      *)
(***************************************************************************)
EXTENDS MessageFormat

AllLengths == 0..255

Fields ==
    [version : {3, 4, 5}, as_number : {0, 65535}, hold_time : {0, 1, 2, 3, 65535},
     id : {<<0, 0, 0, 0>>, <<0, 0, 0, 1>>, <<1, 1, 1, 1>>, <<255, 255, 255, 254>>,
           <<255, 255, 255, 255>>}]

GoodFields ==
    [version |-> 4, as_number |-> 65000, hold_time |-> 9, id |-> <<192, 0, 2, 1>>]

FourOctets == [opt_params |-> [four_octet_as_cap |-> <<0, 0, 253, 232>>]]
TwoOctets == [opt_params |-> [four_octet_as_cap |-> <<>>]]
BothPeers == {FourOctets, TwoOctets}

Att(t, os, x) == [type |-> t, octets |-> os, ext |-> x]

SomeAttributes ==
    {Att(p[1], p[2], x) : x \in BOOLEAN,
       p \in {<<1, <<0>>>>, <<1, <<2>>>>, <<2, <<1, 0>>>>, <<2, <<2, 2, 0, 7, 253, 232>>>>,
              <<2, <<2, 1, 0, 0, 0, 7>>>>, <<3, <<192, 0, 2, 1>>>>, <<4, <<0, 0, 0, 9>>>>, <<5, <<0, 0, 0, 100>>>>,
              <<6, <<>>>>, <<7, <<0, 7, 192, 0, 2, 1>>>>,
              <<7, <<0, 0, 0, 7, 192, 0, 2, 1>>>>, <<99, <<>>>>, <<99, <<1, 2, 3>>>>}}

AttributeLists ==
    {<<>>} \cup {<<a>> : a \in SomeAttributes}
    \cup {<<a, b>> : a \in SomeAttributes, b \in SomeAttributes}

WithdrawnLists == {<<>>, <<0>>, <<24, 8>>, <<33>>}

\* Nothing, a KEEPALIVE, and the header of an UPDATE of 2304 octets: read as
\* prefixes, the octets of this last one come out even.
SomeFollowing == {<<>>, KeepaliveFrame, MARKER \o U16(2304) \o <<2>>}

\* An OPEN as OpenMsg::decode reads it, each field at the start of a row.
PaddedOpen(f) ==
    <<f.version, 0, 0, 0>> \o U16(f.as_number) \o <<0, 0>>
    \o U16(f.hold_time) \o <<0, 0>> \o f.id \o <<0, 0, 0, 0>>

\* Messages of every type, good and bad, each followed by a KEEPALIVE.
SomeFrames ==
    {f \o KeepaliveFrame :
       f \in {KeepaliveFrame,
              Frame(1, Open(GoodFields)),
              Frame(2, UpdateBody(<<24>>, <<Att(1, <<0>>, FALSE)>>, <<>>)),
              Frame(2, UpdateBody(<<>>, <<>>, <<8>>)),
              Frame(3, <<6, 0>>),
              Frame(3, <<2, 1, 9>>),
              Frame(3, <<>>),
              Frame(4, <<1>>),
              Frame(5, <<>>),
              Filler(19)}
             \cup {Frame(1, PaddedOpen(f)) : f \in {g \in Fields : g.as_number = 0 /\ g.version = 4}}}
=============================================================================
