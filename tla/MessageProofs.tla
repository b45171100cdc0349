--------------------------- MODULE MessageProofs ---------------------------
(***************************************************************************)
(* What Message::decode makes of a buffer does not depend on what follows  *)
(* the message in it, and a message it decodes lies within the buffer, for *)
(* any octets.                                                             *)
(*                                                                         *)
(* The second needs a look at every decoder: a chain of Then is followed   *)
(* from its last continuation to its first, the loops by induction.        *)
(***************************************************************************)
EXTENDS Message, SequenceTheorems, NaturalsInduction, WellFoundedInduction, TLAPS

\* Then is GoOn.
LEMMA ThenGoesOn ==
    ASSUME NEW F(_, _), NEW r
    PROVE  Then(r, F) = GoOn(r, F)
  <1> DEFINE S == {GoOn(x, F) : x \in {r}}
             v == GoOn(r, F)
  <1>1. S = {v}
    OBVIOUS
  <1> HIDE DEF S, v
  <1>2. (CHOOSE y \in S : TRUE) = v
    BY <1>1
  <1> QED BY <1>2 DEF Then, S, v

(***************************************************************************)
(* The header                                                              *)
(***************************************************************************)
\* What the octets of a header say.
HeaderOf(marker, length, t) ==
    IF marker # MARKER THEN ErrHeader("ConnectionNotSync")
    ELSE TypeAndLength(t, length, 19)

\* MessageHeader::decode looks at the first 19 octets.
LEMMA HeaderOfOctets ==
    ASSUME NEW S, NEW b \in Seq(S), Len(b) >= 19
    PROVE  MessageHeader(b) = HeaderOf(SubSeq(b, 1, 16), 256 * b[17] + b[18], b[19])
  <1> DEFINE length == 256 * b[17] + b[18]
             marker == SubSeq(b, 1, 16)
  <1>1. Len(b) \in Nat
    OBVIOUS
  <1>2. get_bytes(b, 0, 16) = Ok(marker, 16)
    BY <1>1 DEF get_bytes
  <1>3. get_u16(b, 16) = Ok(length, 18)
    BY <1>1 DEF get_u16
  <1>4. get_u8(b, 18) = Ok(b[19], 19)
    BY <1>1 DEF get_u8
  <1> HIDE DEF length, marker
  <1>5. Then(get_u8(b, 18), LAMBDA t, k : TypeAndLength(t, length, k))
          = TypeAndLength(b[19], length, 19)
    <2>1. Then(get_u8(b, 18), LAMBDA t, k : TypeAndLength(t, length, k))
            = GoOn(get_u8(b, 18), LAMBDA t, k : TypeAndLength(t, length, k))
      BY ThenGoesOn
    <2>2. GoOn(Ok(b[19], 19), LAMBDA t, k : TypeAndLength(t, length, k))
            = TypeAndLength(b[19], length, 19)
      BY DEF GoOn, Ok
    <2> QED BY <1>4, <2>1, <2>2
  <1> DEFINE Typed(n, j) == Then(get_u8(b, j), LAMBDA t, k : TypeAndLength(t, n, k))
  <1>6. Then(get_u16(b, 16), LAMBDA n, j : Typed(n, j)) = Typed(length, 18)
    <2> HIDE DEF Typed
    <2>1. Then(get_u16(b, 16), LAMBDA n, j : Typed(n, j))
            = GoOn(get_u16(b, 16), LAMBDA n, j : Typed(n, j))
      BY ThenGoesOn
    <2>2. GoOn(Ok(length, 18), LAMBDA n, j : Typed(n, j)) = Typed(length, 18)
      BY DEF GoOn, Ok
    <2> QED BY <1>3, <2>1, <2>2
  <1> DEFINE Measured(i) == Then(get_u16(b, i), LAMBDA n, j : Typed(n, j))
             Marked(m, i) == IF m # MARKER THEN ErrHeader("ConnectionNotSync") ELSE Measured(i)
  <1>7. Then(get_bytes(b, 0, 16), LAMBDA m, i : Marked(m, i)) = Marked(marker, 16)
    <2> HIDE DEF Marked
    <2>1. Then(get_bytes(b, 0, 16), LAMBDA m, i : Marked(m, i))
            = GoOn(get_bytes(b, 0, 16), LAMBDA m, i : Marked(m, i))
      BY ThenGoesOn
    <2>2. GoOn(Ok(marker, 16), LAMBDA m, i : Marked(m, i)) = Marked(marker, 16)
      BY DEF GoOn, Ok
    <2> QED BY <1>2, <2>1, <2>2
  <1>8. MessageHeader(b) = Marked(marker, 16)
    BY <1>7 DEF MessageHeader
  <1>9. Measured(16) = TypeAndLength(b[19], length, 19)
    BY <1>5, <1>6
  <1> HIDE DEF Measured
  <1>10. MessageHeader(b) = HeaderOf(marker, length, b[19])
    BY <1>8, <1>9 DEF HeaderOf
  <1> QED BY <1>10 DEF marker, length

\* A header that is accepted has a length, and ends after 19 octets.
LEMMA HeaderAccepted ==
    ASSUME NEW b \in Seq(0..255), Len(b) >= 19, MessageHeader(b).code = "Ok"
    PROVE  /\ MessageHeader(b).off = 19 /\ MessageHeader(b).val.length \in Nat
           /\ MessageHeader(b).val.msg_type \in {"Open", "Update", "Notification", "Keepalive"}
  <1> DEFINE length == 256 * b[17] + b[18]
             marker == SubSeq(b, 1, 16)
  <1>1. Len(b) \in Nat /\ \A i \in 1 .. Len(b) : b[i] \in 0..255
    BY ElementOfSeq, LenProperties
  <1>2. 17 \in 1 .. Len(b) /\ 18 \in 1 .. Len(b)
    BY <1>1
  <1>3. b[17] \in 0..255 /\ b[18] \in 0..255
    BY <1>1, <1>2, Zenon
  <1>4. length \in Nat
    <2> DEFINE m == b[17]
               n == b[18]
    <2>1. m \in 0..255 /\ n \in 0..255
      BY <1>3
    <2> HIDE DEF m, n
    <2>2. 256 * m + n \in Nat
      BY <2>1
    <2> QED BY <2>2 DEF m, n
  <1>5. MessageHeader(b) = HeaderOf(marker, length, b[19])
    BY HeaderOfOctets
  <1> HIDE DEF length, marker
  <1>6. marker = MARKER
    BY <1>5 DEF HeaderOf, ErrHeader, Err
  <1>7. TypeAndLength(b[19], length, 19).code = "Ok"
    BY <1>5, <1>6 DEF HeaderOf
  <1>8. TypeAndLength(b[19], length, 19)
          = Ok([length |-> length, msg_type |-> MsgType[b[19]]], 19)
    <2> DEFINE t == b[19]
    <2> HIDE DEF t
    <2>1. TypeAndLength(t, length, 19).code = "Ok"
      BY <1>7 DEF t
    <2>2. t \in 1..4
      BY <2>1 DEF TypeAndLength, ErrHeader, Err
    <2>3. ~BadLength(t, length)
      BY <2>1, <2>2 DEF TypeAndLength, ErrHeader, Err
    <2>4. TypeAndLength(t, length, 19) = Ok([length |-> length, msg_type |-> MsgType[t]], 19)
      BY <2>2, <2>3 DEF TypeAndLength
    <2> QED BY <2>4 DEF t
  <1>9. /\ MessageHeader(b).off = 19 /\ MessageHeader(b).val.length = length
        /\ MessageHeader(b).val.msg_type = MsgType[b[19]]
    <2> DEFINE h == [length |-> length, msg_type |-> MsgType[b[19]]]
    <2>1. h.length = length /\ h.msg_type = MsgType[b[19]]
      OBVIOUS
    <2> HIDE DEF h
    <2>2. MessageHeader(b) = Ok(h, 19)
      BY <1>5, <1>6, <1>8 DEF HeaderOf, h
    <2>3. Ok(h, 19).off = 19 /\ Ok(h, 19).val = h
      BY DEF Ok
    <2> QED BY <2>1, <2>2, <2>3
  <1>10. MsgType[b[19]] \in {"Open", "Update", "Notification", "Keepalive"}
    <2>1. b[19] \in 1..4
      BY <1>7 DEF TypeAndLength, ErrHeader, Err
    <2> QED BY <2>1 DEF MsgType
  <1> QED BY <1>4, <1>9, <1>10

(***************************************************************************)
(* Message::decode                                                         *)
(***************************************************************************)
\* Once the header is there, it says how many octets are waited for, and what
\* is made of these.
LEMMA DecodeByHeader ==
    ASSUME NEW b \in Seq(0..255), NEW peer, Len(b) >= 19, NEW H, H = MessageHeader(b)
    PROVE  /\ H.code # "Ok" => Decode(b, peer) = H
           /\ H.code = "Ok" =>
                Decode(b, peer) =
                  IF Len(b) < 19 + H.val.length THEN BufferTooShort
                  ELSE Payload(H.val, SubSeq(b, 20, 19 + H.val.length), peer)
  <1>1. Len(b) \in Nat
    OBVIOUS
  <1> DEFINE Sliced(h, i) == Then(get_bytes(b, i, h.length), LAMBDA s, j : Payload(h, s, peer))
             Framed(h, i) == IF Len(b) < h.length THEN BufferTooShort ELSE Sliced(h, i)
  <1>2. Decode(b, peer) = GoOn(H, LAMBDA h, i : Framed(h, i))
    <2>1. Decode(b, peer) = Then(H, LAMBDA h, i : Framed(h, i))
      <3>1. ~(Len(b) < MIN_MSG_LEN)
        BY <1>1 DEF MIN_MSG_LEN
      <3> QED BY <3>1, Zenon DEF Decode
    <2> HIDE DEF Framed
    <2>2. Then(H, LAMBDA h, i : Framed(h, i)) = GoOn(H, LAMBDA h, i : Framed(h, i))
      BY ThenGoesOn
    <2> QED BY <2>1, <2>2
  <1>3. CASE H.code # "Ok"
    <2> HIDE DEF Framed
    <2>1. GoOn(H, LAMBDA h, i : Framed(h, i)) = H
      BY <1>3 DEF GoOn
    <2> QED BY <1>2, <1>3, <2>1
  <1>4. CASE H.code = "Ok"
    <2>1. H.off = 19 /\ H.val.length \in Nat
      BY <1>4, HeaderAccepted
    <2>2. Decode(b, peer) = Framed(H.val, 19)
      <3> HIDE DEF Framed
      <3>1. GoOn(H, LAMBDA h, i : Framed(h, i)) = Framed(H.val, H.off)
        BY <1>4 DEF GoOn
      <3> QED BY <1>2, <2>1, <3>1
    <2> DEFINE g == get_bytes(b, 19, H.val.length)
               Paid(s) == Payload(H.val, s, peer)
    <2>3. Sliced(H.val, 19) = GoOn(g, LAMBDA s, j : Paid(s))
      <3> HIDE DEF g
      <3>1. Then(g, LAMBDA s, j : Paid(s)) = GoOn(g, LAMBDA s, j : Paid(s))
        BY ThenGoesOn
      <3> QED BY <3>1, Zenon DEF g
    <2> HIDE DEF Sliced
    <2>4. CASE Len(b) < 19 + H.val.length
      <3>1. g = BufferTooShort
        BY <1>1, <2>1, <2>4 DEF get_bytes
      <3> HIDE DEF g, Paid
      <3>2. GoOn(g, LAMBDA s, j : Paid(s)) = BufferTooShort
        BY <3>1 DEF GoOn, BufferTooShort, Err
      <3> QED BY <1>4, <2>2, <2>3, <2>4, <3>2
    <2>5. CASE ~(Len(b) < 19 + H.val.length)
      <3>1. g = Ok(SubSeq(b, 20, 19 + H.val.length), 19 + H.val.length)
        BY <1>1, <2>1, <2>5 DEF get_bytes
      <3> HIDE DEF g, Paid
      <3>2. GoOn(g, LAMBDA s, j : Paid(s)) = Paid(SubSeq(b, 20, 19 + H.val.length))
        BY <3>1 DEF GoOn, Ok
      <3>3. ~(Len(b) < H.val.length)
        BY <1>1, <2>1, <2>5
      <3>4. Decode(b, peer) = Paid(SubSeq(b, 20, 19 + H.val.length))
        BY <2>2, <2>3, <3>2, <3>3
      <3> QED BY <1>4, <2>5, <3>4 DEF Paid
    <2> QED BY <2>4, <2>5
  <1> QED BY <1>3, <1>4

\* Two buffers with the same octets from m to n have the same slice there.
LEMMA SameSlice ==
    ASSUME NEW S, NEW b \in Seq(S), NEW c \in Seq(S), NEW m \in Nat, NEW n \in Nat,
           m > 0, n <= Len(b), n <= Len(c), \A i \in m .. n : c[i] = b[i]
    PROVE  SubSeq(c, m, n) = SubSeq(b, m, n)
  <1>1. /\ Len(b) \in Nat /\ \A i \in 1 .. Len(b) : b[i] \in S
        /\ Len(c) \in Nat /\ \A i \in 1 .. Len(c) : c[i] \in S
    BY ElementOfSeq, LenProperties
  <1>2. \A i \in m .. n : i \in 1 .. Len(b) /\ i \in 1 .. Len(c)
    BY <1>1
  <1>3. \A i \in m .. n : b[i] \in S /\ c[i] \in S
    BY <1>1, <1>2
  <1> DEFINE d == SubSeq(b, m, n)
             e == SubSeq(c, m, n)
  <1>4. /\ d \in Seq(S) /\ Len(d) = IF m <= n THEN n - m + 1 ELSE 0
        /\ \A i \in 1 .. n - m + 1 : d[i] = b[m + i - 1]
    BY <1>3, SubSeqProperties
  <1>5. /\ e \in Seq(S) /\ Len(e) = IF m <= n THEN n - m + 1 ELSE 0
        /\ \A i \in 1 .. n - m + 1 : e[i] = c[m + i - 1]
    BY <1>3, SubSeqProperties
  <1> HIDE DEF d, e
  <1>6. ASSUME NEW i \in 1 .. Len(e) PROVE e[i] = d[i]
    <2>1. i \in 1 .. n - m + 1 /\ m + i - 1 \in m .. n
      BY <1>5
    <2> QED BY <1>4, <1>5, <2>1
  <1>7. e = d
    BY <1>4, <1>5, <1>6, SeqEqual
  <1> QED BY <1>7 DEF d, e

\* If a buffer is enough for decode to come to a result, then it comes to the
\* same with more octets behind: the result is the message's own.
THEOREM DecodeStable ==
    ASSUME NEW b \in Seq(0..255), NEW c \in Seq(0..255), NEW peer,
           Len(b) <= Len(c), \A i \in 1 .. Len(b) : c[i] = b[i],
           Decode(b, peer) # BufferTooShort
    PROVE  Decode(c, peer) = Decode(b, peer)
  <1>1. Len(b) \in Nat /\ Len(c) \in Nat
    OBVIOUS
  <1>2. Len(b) >= 19
    <2> SUFFICES ASSUME Len(b) < 19 PROVE FALSE
      BY <1>1
    <2>1. Len(b) < MIN_MSG_LEN
      BY DEF MIN_MSG_LEN
    <2> QED BY <2>1, Zenon DEF Decode
  <1>3. Len(c) >= 19
    BY <1>1, <1>2
  <1>4. MessageHeader(c) = MessageHeader(b)
    <2>1. SubSeq(c, 1, 16) = SubSeq(b, 1, 16)
      <3>1. \A i \in 1 .. 16 : c[i] = b[i]
        BY <1>1, <1>2
      <3> QED BY <1>1, <1>2, <1>3, <3>1, SameSlice
    <2>2. c[17] = b[17] /\ c[18] = b[18] /\ c[19] = b[19]
      BY <1>1, <1>2
    <2>3. /\ MessageHeader(b) = HeaderOf(SubSeq(b, 1, 16), 256 * b[17] + b[18], b[19])
          /\ MessageHeader(c) = HeaderOf(SubSeq(c, 1, 16), 256 * c[17] + c[18], c[19])
      BY <1>1, <1>2, <1>3, HeaderOfOctets, Zenon
    <2> QED BY <2>1, <2>2, <2>3, Zenon
  <1> DEFINE H == MessageHeader(b)
  <1> HIDE DEF H
  <1>5. CASE H.code # "Ok"
    <2>1. Decode(b, peer) = H
      BY <1>2, <1>5, DecodeByHeader DEF H
    <2>2. Decode(c, peer) = H
      BY <1>3, <1>4, <1>5, DecodeByHeader DEF H
    <2> QED BY <2>1, <2>2
  <1>6. CASE H.code = "Ok"
    <2> DEFINE n == 19 + H.val.length
    <2>1. n \in Nat
      BY <1>2, <1>6, HeaderAccepted DEF H
    <2>2. Decode(b, peer) = IF Len(b) < n THEN BufferTooShort
                            ELSE Payload(H.val, SubSeq(b, 20, n), peer)
      BY <1>2, <1>6, DecodeByHeader DEF H
    <2>3. Decode(c, peer) = IF Len(c) < n THEN BufferTooShort
                            ELSE Payload(H.val, SubSeq(c, 20, n), peer)
      BY <1>3, <1>4, <1>6, DecodeByHeader DEF H
    <2> HIDE DEF n
    <2>4. n <= Len(b) /\ n <= Len(c)
      BY <1>1, <2>1, <2>2
    <2>5. SubSeq(c, 20, n) = SubSeq(b, 20, n)
      <3>1. \A i \in 20 .. n : c[i] = b[i]
        BY <1>1, <2>1, <2>4
      <3> QED BY <2>1, <2>4, <3>1, SameSlice
    <2>6. ~(Len(b) < n) /\ ~(Len(c) < n)
      BY <1>1, <2>1, <2>4
    <2> QED BY <2>2, <2>3, <2>5, <2>6, Zenon
  <1> QED BY <1>5, <1>6

(***************************************************************************)
(* Induction and recursion.  The library states its principles for any     *)
(* predicate and any definition; the provers can use them for the members  *)
(* of a set, and for an operator that is only passed on.                   *)
(***************************************************************************)
\* A set of numbers that is not empty has a least one.
LEMMA LeastNumber ==
    ASSUME NEW T, T \subseteq Nat, T # {}
    PROVE  \E m \in T : \A n \in T : m <= n
  <1> DEFINE R == OpToRel(<, Nat)
  <1>1. \E m \in T : \A n \in T : ~ (<<n, m>> \in R)
    <2> HIDE DEF R
    <2>1. IsWellFoundedOn(R, Nat)
      BY NatLessThanWellFounded DEF R
    <2> QED BY <2>1, WFMin
  <1>2. PICK m \in T : \A n \in T : ~ (<<n, m>> \in R)
    BY <1>1
  <1>3. \A n \in T : ~(n < m)
    BY <1>2 DEF OpToRel
  <1> QED BY <1>3

\* What holds of 0 and of the successor of each number holds of all.
LEMMA SetInduction ==
    ASSUME NEW T, 0 \in T, \A n \in Nat : n \in T => n + 1 \in T
    PROVE  \A n \in Nat : n \in T
  <1> SUFFICES ASSUME NEW m \in Nat, m \notin T PROVE FALSE
    OBVIOUS
  <1> DEFINE C == {n \in Nat : n \notin T}
  <1>1. C \subseteq Nat /\ C # {}
    OBVIOUS
  <1>2. PICK x \in C : \A n \in C : x <= n
    <2> HIDE DEF C
    <2> QED BY <1>1, LeastNumber
  <1>3. x - 1 \in Nat /\ (x - 1) + 1 = x /\ ~(x <= x - 1)
    OBVIOUS
  <1>4. x - 1 \in T
    BY <1>2, <1>3
  <1> QED BY <1>3, <1>4

\* The numbers up to n, from n downwards.
Down(n) == {ss \in (0 .. n) \X (0 .. n) : ss[2] < ss[1]}

LEMMA DownIsWellFounded ==
    ASSUME NEW n \in Nat
    PROVE  IsWellFoundedOn(Down(n), 0 .. n)
  <1> SUFFICES ASSUME NEW T, T \subseteq 0 .. n, T # {}
               PROVE  \E x \in T : \A y \in T : ~(<<y, x>> \in Down(n))
    BY MinWF
  <1> DEFINE U == {m \in Nat : n - m \in T}
  <1>1. U \subseteq Nat /\ U # {}
    <2>1. PICK t \in T : TRUE
      OBVIOUS
    <2>2. n - t \in U
      OBVIOUS
    <2> QED BY <2>2
  <1>2. PICK m \in U : \A k \in U : m <= k
    <2> HIDE DEF U
    <2> QED BY <1>1, LeastNumber
  <1>3. \A y \in T : y <= n - m
    <2> TAKE y \in T
    <2>1. n - y \in U
      OBVIOUS
    <2> QED BY <1>2, <2>1
  <1> QED BY <1>2, <1>3 DEF Down

(***************************************************************************)
(* The cursor stays in its slice                                           *)
(***************************************************************************)
\* A decoder that succeeds has read one of V, and left the cursor at an
\* offset from i to n.
Reads(r, V, i, n) == r.code = "Ok" => r.val \in V /\ r.off \in i .. n

\* The same, whatever it has read.
Ends(r, i, n) == r.code = "Ok" => r.off \in i .. n

\* What follows a decoder leaves the cursor at an offset from i to n if it
\* is given such an offset, and one of V.
Follows(F(_, _), V, i, n) == \A v \in V : \A j \in i .. n : Ends(F(v, j), i, n)

\* The same, given anything.
FollowsAny(F(_, _), i, n) == \A v : \A j \in i .. n : Ends(F(v, j), i, n)

LEMMA ThenEnds ==
    ASSUME NEW F(_, _), NEW r, NEW V, NEW i, NEW n,
           Reads(r, V, i, n), Follows(F, V, i, n)
    PROVE  Ends(Then(r, F), i, n)
  <1>1. Then(r, F) = GoOn(r, F)
    BY ThenGoesOn
  <1>2. CASE r.code = "Ok"
    <2>1. r.val \in V /\ r.off \in i .. n
      BY <1>2 DEF Reads
    <2>2. Ends(F(r.val, r.off), i, n)
      BY <2>1 DEF Follows
    <2>3. GoOn(r, F) = F(r.val, r.off)
      BY <1>2 DEF GoOn
    <2> QED BY <1>1, <2>2, <2>3
  <1>3. CASE r.code # "Ok"
    <2>1. GoOn(r, F) = r
      BY <1>3 DEF GoOn
    <2> QED BY <1>1, <1>3, <2>1 DEF Ends
  <1> QED BY <1>2, <1>3

LEMMA ThenEndsAny ==
    ASSUME NEW F(_, _), NEW r, NEW i, NEW n,
           Ends(r, i, n), FollowsAny(F, i, n)
    PROVE  Ends(Then(r, F), i, n)
  <1>1. Then(r, F) = GoOn(r, F)
    BY ThenGoesOn
  <1>2. CASE r.code = "Ok"
    <2>1. r.off \in i .. n
      BY <1>2 DEF Ends
    <2>2. Ends(F(r.val, r.off), i, n)
      BY <2>1 DEF FollowsAny
    <2>3. GoOn(r, F) = F(r.val, r.off)
      BY <1>2 DEF GoOn
    <2> QED BY <1>1, <2>2, <2>3
  <1>3. CASE r.code # "Ok"
    <2>1. GoOn(r, F) = r
      BY <1>3 DEF GoOn
    <2> QED BY <1>1, <1>3, <2>1 DEF Ends
  <1> QED BY <1>2, <1>3

\* A cursor that does not go back before j does not go back before i.
LEMMA EndsEarlier ==
    ASSUME NEW r, NEW i \in Nat, NEW j \in Nat, NEW n \in Nat, i <= j, Ends(r, j, n)
    PROVE  Ends(r, i, n)
  BY DEF Ends

\* The cursor's own reads.
LEMMA GetBytesReads ==
    ASSUME NEW b \in Seq(Octet), NEW i \in 0 .. Len(b), NEW n \in Nat
    PROVE  /\ Reads(get_bytes(b, i, n), Seq(Octet), i, Len(b))
           /\ Ends(get_bytes(b, i, n), i, Len(b))
           /\ get_bytes(b, i, n).code = "Ok" => Len(get_bytes(b, i, n).val) = n
  <1>1. Len(b) \in Nat /\ \A k \in 1 .. Len(b) : b[k] \in Octet
    BY ElementOfSeq, LenProperties
  <1>2. CASE Len(b) - i < n
    <2>1. get_bytes(b, i, n).code # "Ok"
      BY <1>2 DEF get_bytes, BufferTooShort, Err
    <2> QED BY <2>1 DEF Reads, Ends
  <1>3. CASE ~(Len(b) - i < n)
    <2> DEFINE s == SubSeq(b, i + 1, i + n)
    <2>1. i + n \in i .. Len(b) /\ i + 1 \in Int /\ i + n \in Int
      BY <1>1, <1>3
    <2>2. \A k \in i + 1 .. i + n : b[k] \in Octet
      BY <1>1, <2>1
    <2>3. s \in Seq(Octet) /\ Len(s) = n
      <3> DEFINE p == i + 1
                 q == i + n
      <3> HIDE DEF p, q
      <3>1. p \in Int /\ q \in Int /\ \A k \in p .. q : b[k] \in Octet
        BY <2>1, <2>2 DEF p, q
      <3>2. /\ SubSeq(b, p, q) \in Seq(Octet)
            /\ Len(SubSeq(b, p, q)) = IF p <= q THEN q - p + 1 ELSE 0
        <4> HIDE DEF Octet
        <4> QED BY <3>1, SubSeqProperties
      <3>3. (IF p <= q THEN q - p + 1 ELSE 0) = n
        BY DEF p, q
      <3> QED BY <3>2, <3>3 DEF p, q
    <2> HIDE DEF s
    <2>4. get_bytes(b, i, n) = Ok(s, i + n)
      BY <1>3 DEF get_bytes, s
    <2>5. Ok(s, i + n).val = s /\ Ok(s, i + n).off = i + n
      BY DEF Ok
    <2> QED BY <2>1, <2>3, <2>4, <2>5 DEF Reads, Ends
  <1> QED BY <1>2, <1>3

LEMMA GetU8Reads ==
    ASSUME NEW b \in Seq(Octet), NEW i \in 0 .. Len(b)
    PROVE  Reads(get_u8(b, i), Octet, i + 1, Len(b))
  <1>1. Len(b) \in Nat /\ \A k \in 1 .. Len(b) : b[k] \in Octet
    BY ElementOfSeq, LenProperties
  <1>2. CASE Len(b) - i < 1
    BY <1>2 DEF get_u8, BufferTooShort, Err, Reads
  <1>3. CASE ~(Len(b) - i < 1)
    <2>1. i + 1 \in i + 1 .. Len(b) /\ b[i + 1] \in Octet
      BY <1>1, <1>3
    <2>2. get_u8(b, i) = Ok(b[i + 1], i + 1)
      BY <1>3 DEF get_u8
    <2>3. Ok(b[i + 1], i + 1).val = b[i + 1] /\ Ok(b[i + 1], i + 1).off = i + 1
      BY DEF Ok
    <2> QED BY <2>1, <2>2, <2>3 DEF Reads
  <1> QED BY <1>2, <1>3

LEMMA GetU16Reads ==
    ASSUME NEW b \in Seq(Octet), NEW i \in 0 .. Len(b)
    PROVE  Reads(get_u16(b, i), Nat, i + 1, Len(b))
  <1>1. Len(b) \in Nat /\ \A k \in 1 .. Len(b) : b[k] \in Octet
    BY ElementOfSeq, LenProperties
  <1>2. CASE Len(b) - i < 2
    BY <1>2 DEF get_u16, BufferTooShort, Err, Reads
  <1>3. CASE ~(Len(b) - i < 2)
    <2> DEFINE v == 256 * b[i + 1] + b[i + 2]
    <2>1. i + 2 \in i + 1 .. Len(b) /\ b[i + 1] \in Octet /\ b[i + 2] \in Octet
      BY <1>1, <1>3
    <2>2. v \in Nat
      <3>1. \A m, n \in Octet : 256 * m + n \in Nat
        BY DEF Octet
      <3> QED BY <2>1, <3>1
    <2>3. get_u16(b, i) = Ok(v, i + 2)
      BY <1>3 DEF get_u16
    <2> HIDE DEF v
    <2>4. Ok(v, i + 2).val = v /\ Ok(v, i + 2).off = i + 2
      BY DEF Ok
    <2> QED BY <2>1, <2>2, <2>3, <2>4 DEF Reads
  <1> QED BY <1>2, <1>3

\* A value and an offset are where they are put.
LEMMA OkEnds ==
    ASSUME NEW v, NEW i \in Nat, NEW n \in Nat, NEW j \in i .. n
    PROVE  Ends(Ok(v, j), i, n)
  BY DEF Ends, Ok

\* An error ends nowhere.
LEMMA ErrEnds ==
    ASSUME NEW s, NEW i, NEW n
    PROVE  /\ Ends(ErrHeader(s), i, n) /\ Ends(ErrOpen(s), i, n)
           /\ Ends(ErrUpdate(s), i, n) /\ Ends(Panic, i, n)
  BY DEF Ends, ErrHeader, ErrOpen, ErrUpdate, Panic, Err

\* The same from an offset before.
LEMMA ReadsEarlier ==
    ASSUME NEW r, NEW V, NEW i \in Nat, NEW j \in Nat, NEW n \in Nat, i <= j,
           Reads(r, V, j, n)
    PROVE  Reads(r, V, i, n)
  BY DEF Reads

\* A slice with its length in front.
LEMMA GetSliceReads ==
    ASSUME NEW b \in Seq(Octet), NEW i \in 0 .. Len(b)
    PROVE  Reads(get_bytes_with_u16_length(b, i), Seq(Octet), i, Len(b))
  <1> DEFINE r == get_u16(b, i)
             s == get_bytes_with_u16_length(b, i)
  <1>1. Len(b) \in Nat
    BY LenProperties
  <1>2. Reads(r, Nat, i + 1, Len(b))
    BY GetU16Reads
  <1>3. s = GoOn(r, LAMBDA n, j : get_bytes(b, j, n))
    BY ThenGoesOn DEF get_bytes_with_u16_length
  <1> HIDE DEF r, s
  <1>4. CASE r.code = "Ok"
    <2>1. r.val \in Nat /\ r.off \in 0 .. Len(b) /\ i <= r.off
      BY <1>1, <1>2, <1>4 DEF Reads
    <2>2. s = get_bytes(b, r.off, r.val)
      BY <1>3, <1>4 DEF GoOn
    <2>3. Reads(s, Seq(Octet), r.off, Len(b))
      BY <2>1, <2>2, GetBytesReads
    <2>4. Reads(s, Seq(Octet), i, Len(b))
      BY <1>1, <2>1, <2>3, ReadsEarlier
    <2> QED BY <2>4 DEF s
  <1>5. CASE r.code # "Ok"
    <2>1. Reads(s, Seq(Octet), i, Len(b))
      BY <1>3, <1>5 DEF GoOn, Reads
    <2> QED BY <2>1 DEF s
  <1> QED BY <1>4, <1>5

\* All of them, from an offset p that is not behind.
LEMMA CursorReads ==
    ASSUME NEW b \in Seq(Octet), NEW p \in Nat, NEW j \in p .. Len(b)
    PROVE  /\ Reads(get_u8(b, j), Octet, p, Len(b))
           /\ Reads(get_u16(b, j), Nat, p, Len(b))
           /\ Reads(get_bytes_with_u16_length(b, j), Seq(Octet), p, Len(b))
           /\ \A n \in Nat : Reads(get_bytes(b, j, n), Seq(Octet), p, Len(b))
           /\ \A n \in Nat : Ends(get_bytes(b, j, n), p, Len(b))
  <1>1. Len(b) \in Nat /\ j \in 0 .. Len(b) /\ p <= j /\ p <= j + 1
    BY LenProperties
  <1>2. Reads(get_u8(b, j), Octet, p, Len(b)) /\ Reads(get_u16(b, j), Nat, p, Len(b))
    BY <1>1, GetU8Reads, GetU16Reads, ReadsEarlier
  <1>3. Reads(get_bytes_with_u16_length(b, j), Seq(Octet), p, Len(b))
    BY <1>1, GetSliceReads, ReadsEarlier
  <1>4. ASSUME NEW n \in Nat
        PROVE  Reads(get_bytes(b, j, n), Seq(Octet), p, Len(b)) /\ Ends(get_bytes(b, j, n), p, Len(b))
    BY <1>1, GetBytesReads, ReadsEarlier, EndsEarlier
  <1> QED BY <1>2, <1>3, <1>4

(***************************************************************************)
(* Prefixes and path attributes                                            *)
(***************************************************************************)
\* Cidr::decode reads at least its length.
LEMMA CidrEnds ==
    ASSUME NEW b \in Seq(Octet), NEW i \in 0 .. Len(b)
    PROVE  Ends(Cidr(b, i), i + 1, Len(b))
  <1> DEFINE N == Len(b)
             Sized(length, s, k) ==
               CASE Len(s) <= 4 -> Ok([length |-> length, prefix |-> Padded(s, 4)], k)
                 [] Len(s) \in 5..16 -> Ok([length |-> length, prefix |-> Padded(s, 16)], k)
                 [] OTHER -> Panic
             Measured(length, j) ==
               IF OverflowChecks /\ length + 7 > 255 THEN Panic ELSE
               Then(get_bytes(b, j, PaddedLength(length)), LAMBDA s, k : Sized(length, s, k))
  <1>1. N \in Nat
    BY LenProperties
  <1>2. Cidr(b, i) = Then(get_u8(b, i), LAMBDA length, j : Measured(length, j))
    BY Zenon DEF Cidr
  <1>3. Reads(get_u8(b, i), Octet, i + 1, N)
    BY GetU8Reads
  <1>5. Follows(LAMBDA length, j : Measured(length, j), Octet, i + 1, N)
    <2> SUFFICES ASSUME NEW length \in Octet, NEW j \in i + 1 .. N
                 PROVE  Ends(Measured(length, j), i + 1, N)
      BY Zenon DEF Follows
    <2>0. FollowsAny(LAMBDA s, k : Sized(length, s, k), i + 1, N)
      <3> SUFFICES ASSUME NEW s, NEW k \in i + 1 .. N
                   PROVE  Ends(Sized(length, s, k), i + 1, N)
        BY Zenon DEF FollowsAny
      <3>1. \A v : Ends(Ok(v, k), i + 1, N)
        BY <1>1, OkEnds
      <3>2. Ends(Panic, i + 1, N)
        BY ErrEnds
      <3> QED BY <3>1, <3>2
    <2> HIDE DEF Sized
    <2>1. PaddedLength(length) \in Nat
      BY DEF PaddedLength, Octet
    <2>2. Ends(get_bytes(b, j, PaddedLength(length)), i + 1, N)
      <3>1. j \in 0 .. N /\ i + 1 <= j /\ i + 1 \in Nat /\ j \in Nat
        BY <1>1
      <3>2. Ends(get_bytes(b, j, PaddedLength(length)), j, N)
        BY <2>1, <3>1, GetBytesReads
      <3> QED BY <1>1, <3>1, <3>2, EndsEarlier
    <2>3. Ends(Then(get_bytes(b, j, PaddedLength(length)), LAMBDA s, k : Sized(length, s, k)), i + 1, N)
      BY <2>0, <2>2, ThenEndsAny
    <2>4. Ends(Panic, i + 1, N)
      BY ErrEnds
    <2> QED BY <2>3, <2>4
  <1> HIDE DEF Measured
  <1> QED BY <1>2, <1>3, <1>5, ThenEnds

LEMMA OriginEnds ==
    ASSUME NEW b \in Seq(Octet), NEW i \in 0 .. Len(b), NEW attr_len
    PROVE  Ends(Origin(b, i, attr_len), i, Len(b))
  <1> DEFINE Known(o, j) == IF o \in 0..2 THEN Ok(o, j) ELSE ErrUpdate("InvalidOriginAttribute")
  <1>1. Len(b) \in Nat
    BY LenProperties
  <1>2. Reads(get_u8(b, i), Octet, i, Len(b))
    BY CursorReads
  <1>3. Follows(LAMBDA o, j : Known(o, j), Octet, i, Len(b))
    BY <1>1, OkEnds, ErrEnds DEF Follows
  <1>4. Origin(b, i, attr_len) = IF attr_len # 1 THEN ErrUpdate("AttributeLengthError")
                                 ELSE Then(get_u8(b, i), LAMBDA o, j : Known(o, j))
    BY Zenon DEF Origin
  <1> HIDE DEF Known
  <1>5. Ends(Then(get_u8(b, i), LAMBDA o, j : Known(o, j)), i, Len(b))
    BY <1>2, <1>3, ThenEnds
  <1> QED BY <1>4, <1>5, ErrEnds

LEMMA AsPathSegmentEnds ==
    ASSUME NEW b \in Seq(Octet), NEW i \in 0 .. Len(b), NEW attr_len
    PROVE  Ends(AsPathSegment(b, i, attr_len), i, Len(b))
  <1> DEFINE N == Len(b)
             Value(t, n, s, l) ==
               Ok([segment_type |-> t,
                   segment_value |-> [m \in 1..n |-> 256 * s[2 * m - 1] + s[2 * m]]], l)
             Counted(t, n, k) ==
               IF 2 * n + 2 # attr_len THEN ErrUpdate("MalformedAsPath") ELSE
               Then(get_bytes(b, k, 2 * n), LAMBDA s, l : Value(t, n, s, l))
             Typed(t, j) ==
               IF t \notin {1, 2} THEN ErrUpdate("MalformedAsPath") ELSE
               Then(get_u8(b, j), LAMBDA n, k : Counted(t, n, k))
  <1>1. N \in Nat
    BY LenProperties
  <1>2. AsPathSegment(b, i, attr_len) = Then(get_u8(b, i), LAMBDA t, j : Typed(t, j))
    BY Zenon DEF AsPathSegment
  <1>3. Follows(LAMBDA t, j : Typed(t, j), Octet, i, N)
    <2> SUFFICES ASSUME NEW t \in Octet, NEW j \in i .. N PROVE Ends(Typed(t, j), i, N)
      BY Zenon DEF Follows
    <2>1. Follows(LAMBDA n, k : Counted(t, n, k), Octet, i, N)
      <3> SUFFICES ASSUME NEW n \in Octet, NEW k \in i .. N PROVE Ends(Counted(t, n, k), i, N)
        BY Zenon DEF Follows
      <3>1. FollowsAny(LAMBDA s, l : Value(t, n, s, l), i, N)
        BY <1>1, OkEnds DEF FollowsAny
      <3> HIDE DEF Value
      <3>2. 2 * n \in Nat
        BY DEF Octet
      <3>3. Ends(get_bytes(b, k, 2 * n), i, N)
        BY <3>2, CursorReads
      <3>4. Ends(Then(get_bytes(b, k, 2 * n), LAMBDA s, l : Value(t, n, s, l)), i, N)
        BY <3>1, <3>3, ThenEndsAny
      <3> QED BY <3>4, ErrEnds
    <2> HIDE DEF Counted
    <2>2. Reads(get_u8(b, j), Octet, i, N)
      BY CursorReads
    <2>3. Ends(Then(get_u8(b, j), LAMBDA n, k : Counted(t, n, k)), i, N)
      BY <2>1, <2>2, ThenEnds
    <2> QED BY <2>3, ErrEnds
  <1> HIDE DEF Typed
  <1>4. Reads(get_u8(b, i), Octet, i, N)
    BY CursorReads
  <1> QED BY <1>2, <1>3, <1>4, ThenEnds

LEMMA PathAttributeValueEnds ==
    ASSUME NEW b \in Seq(Octet), NEW i \in 0 .. Len(b), NEW peer, NEW type, NEW len \in Nat
    PROVE  Ends(PathAttributeValue(b, i, peer, type, len), i, Len(b))
  <1>1. Len(b) \in Nat /\ i \in Nat /\ i \in i .. Len(b)
    BY LenProperties
  <1>2. \A n \in Nat : Ends(get_bytes(b, i, n), i, Len(b))
    BY <1>1, CursorReads
  <1>3. \A four : Ends(Aggregator(b, i, four), i, Len(b))
    BY <1>2 DEF Aggregator
  <1>4. Ends(Ok(TRUE, i), i, Len(b))
    BY <1>1, OkEnds
  <1>5. /\ Ends(get_bytes(b, i, 4), i, Len(b)) /\ Ends(get_bytes(b, i, len), i, Len(b))
        /\ Ends(ErrUpdate("AttributeLengthError"), i, Len(b))
        /\ Ends(Origin(b, i, len), i, Len(b)) /\ Ends(AsPathSegment(b, i, len), i, Len(b))
    BY <1>2, ErrEnds, OriginEnds, AsPathSegmentEnds
  <1> QED BY <1>3, <1>4, <1>5 DEF PathAttributeValue

\* An attribute has at least its flags.
LEMMA PathAttributeEnds ==
    ASSUME NEW b \in Seq(Octet), NEW i \in 0 .. Len(b), NEW peer
    PROVE  Ends(PathAttribute(b, i, peer), i + 1, Len(b))
  <1> DEFINE N == Len(b)
             p == i + 1
             Value(flags, type, v, m) ==
               Ok([attr_flags |-> flags, attr_type_code |-> type, attr_value |-> v], m)
             Measured(flags, type, len, l) ==
               Then(PathAttributeValue(b, l, peer, type, len),
                    LAMBDA v, m : Value(flags, type, v, m))
             Typed(flags, type, k) ==
               Then(IF ExtendedLength(flags) THEN get_u16(b, k) ELSE get_u8(b, k),
                    LAMBDA len, l : Measured(flags, type, len, l))
             Flagged(flags, j) ==
               Then(get_u8(b, j), LAMBDA type, k : Typed(flags, type, k))
  <1>1. N \in Nat /\ p \in Nat
    BY LenProperties
  <1>2. PathAttribute(b, i, peer) = Then(get_u8(b, i), LAMBDA flags, j : Flagged(flags, j))
    BY Zenon DEF PathAttribute
  <1>3. Reads(get_u8(b, i), Octet, p, N)
    BY GetU8Reads
  <1> HIDE DEF p
  <1>4. Follows(LAMBDA flags, j : Flagged(flags, j), Octet, p, N)
    <2> SUFFICES ASSUME NEW flags \in Octet, NEW j \in p .. N PROVE Ends(Flagged(flags, j), p, N)
      BY Zenon DEF Follows
    <2>1. Follows(LAMBDA type, k : Typed(flags, type, k), Octet, p, N)
      <3> SUFFICES ASSUME NEW type \in Octet, NEW k \in p .. N PROVE Ends(Typed(flags, type, k), p, N)
        BY Zenon DEF Follows
      <3> DEFINE r == IF ExtendedLength(flags) THEN get_u16(b, k) ELSE get_u8(b, k)
      <3>1. Follows(LAMBDA len, l : Measured(flags, type, len, l), Nat, p, N)
        <4> SUFFICES ASSUME NEW len \in Nat, NEW l \in p .. N
                     PROVE  Ends(Measured(flags, type, len, l), p, N)
          BY Zenon DEF Follows
        <4>1. FollowsAny(LAMBDA v, m : Value(flags, type, v, m), p, N)
          BY <1>1, OkEnds DEF FollowsAny
        <4> HIDE DEF Value
        <4>2. Ends(PathAttributeValue(b, l, peer, type, len), p, N)
          <5>1. l \in 0 .. N /\ p <= l /\ l \in Nat
            BY <1>1
          <5>2. Ends(PathAttributeValue(b, l, peer, type, len), l, N)
            BY <5>1, PathAttributeValueEnds
          <5> QED BY <1>1, <5>1, <5>2, EndsEarlier
        <4> QED BY <4>1, <4>2, ThenEndsAny
      <3> HIDE DEF Measured
      <3>2. Reads(get_u8(b, k), Octet, p, N) /\ Reads(get_u16(b, k), Nat, p, N)
        BY <1>1, CursorReads
      <3>3. Reads(r, Nat, p, N)
        <4>1. Octet \subseteq Nat
          BY DEF Octet
        <4>2. Reads(get_u8(b, k), Nat, p, N)
          BY <3>2, <4>1 DEF Reads
        <4> QED BY <3>2, <4>2
      <3> HIDE DEF r
      <3>4. Ends(Then(r, LAMBDA len, l : Measured(flags, type, len, l)), p, N)
        BY <3>1, <3>3, ThenEnds
      <3> QED BY <3>4 DEF r
    <2> HIDE DEF Typed
    <2>2. Reads(get_u8(b, j), Octet, p, N)
      BY <1>1, CursorReads
    <2> QED BY <2>1, <2>2, ThenEnds
  <1> HIDE DEF Flagged
  <1>5. Ends(PathAttribute(b, i, peer), p, N)
    BY <1>2, <1>3, <1>4, ThenEnds
  <1> QED BY <1>5 DEF p

\* An announced prefix has at least its length.
LEMMA NlriEnds ==
    ASSUME NEW b \in Seq(Octet), NEW i \in 0 .. Len(b)
    PROVE  Ends(Nlri(b, i), i + 1, Len(b))
  <1> DEFINE N == Len(b)
             p == i + 1
             Value(length, c, k) == Ok([length |-> length, prefix |-> c.prefix], k)
             Measured(length, j) == Then(Cidr(b, j), LAMBDA c, k : Value(length, c, k))
  <1>1. N \in Nat /\ p \in Nat
    BY LenProperties
  <1>2. Nlri(b, i) = Then(get_u8(b, i), LAMBDA length, j : Measured(length, j))
    BY Zenon DEF Nlri
  <1>3. Reads(get_u8(b, i), Octet, p, N)
    BY GetU8Reads
  <1> HIDE DEF p
  <1>4. Follows(LAMBDA length, j : Measured(length, j), Octet, p, N)
    <2> SUFFICES ASSUME NEW length \in Octet, NEW j \in p .. N PROVE Ends(Measured(length, j), p, N)
      BY Zenon DEF Follows
    <2>1. FollowsAny(LAMBDA c, k : Value(length, c, k), p, N)
      BY <1>1, OkEnds DEF FollowsAny
    <2> HIDE DEF Value
    <2>2. j \in 0 .. N /\ p <= j + 1 /\ j + 1 \in Nat
      BY <1>1
    <2>3. Ends(Cidr(b, j), j + 1, N)
      BY <2>2, CidrEnds
    <2>4. Ends(Cidr(b, j), p, N)
      BY <1>1, <2>2, <2>3, EndsEarlier
    <2> QED BY <2>1, <2>4, ThenEndsAny
  <1> HIDE DEF Measured
  <1>5. Ends(Nlri(b, i), p, N)
    BY <1>2, <1>3, <1>4, ThenEnds
  <1> QED BY <1>5 DEF p

(***************************************************************************)
(* Lists                                                                   *)
(***************************************************************************)
\* D always succeeds with at least one octet read, or fails.
Progresses(b, D(_, _)) == \A k \in 0 .. Len(b) - 1 : Ends(D(b, k), k + 1, Len(b))

\* What the loop makes of the octets from k on, if g is what it makes of those
\* further on.
Turn(b, D(_, _), g, k) ==
    IF k = Len(b) THEN Ok(<<>>, k) ELSE Then(D(b, k), LAMBDA v, j : Prepend(v, g[j]))

\* The same without Then.
TurnIs(b, D(_, _), g, k) ==
    Turn(b, D, g, k) = IF D(b, k).code = "Ok" THEN Prepend(D(b, k).val, g[D(b, k).off])
                       ELSE D(b, k)

LEMMA TurnGoesOn ==
    ASSUME NEW b, NEW D(_, _), NEW g, NEW k, k # Len(b)
    PROVE  TurnIs(b, D, g, k)
  <1>1. Turn(b, D, g, k) = Then(D(b, k), LAMBDA v, j : Prepend(v, g[j]))
    BY Zenon DEF Turn
  <1>2. Then(D(b, k), LAMBDA v, j : Prepend(v, g[j]))
          = GoOn(D(b, k), LAMBDA v, j : Prepend(v, g[j]))
    BY ThenGoesOn
  <1>3. GoOn(D(b, k), LAMBDA v, j : Prepend(v, g[j]))
          = IF D(b, k).code = "Ok" THEN Prepend(D(b, k).val, g[D(b, k).off]) ELSE D(b, k)
    BY Zenon DEF GoOn
  <1> QED BY <1>1, <1>2, <1>3 DEF TurnIs

\* The loop does what its turns do.
LEMMA AllTurns ==
    ASSUME NEW S, NEW b \in Seq(S), NEW D(_, _), Progresses(b, D)
    PROVE  \E f : /\ f = [k \in 0 .. Len(b) |-> Turn(b, D, f, k)]
                  /\ \A i \in 0 .. Len(b) : All(b, i, D) = f[i]
  <1> DEFINE N == Len(b)
             I == 0 .. N
             Def(g, k) == Turn(b, D, g, k)
             f == CHOOSE g : g = [k \in I |-> Def(g, k)]
  <1>1. N \in Nat
    BY LenProperties
  <1>2. WFDefOn(Down(N), I, Def)
    <2> SUFFICES ASSUME NEW g, NEW h, NEW x \in I,
                        \A y \in SetLessThan(x, Down(N), I) : g[y] = h[y]
                 PROVE  Def(g, x) = Def(h, x)
      BY Zenon DEF WFDefOn
    <2>1. CASE x = N
      BY <2>1 DEF Turn
    <2>2. CASE x # N
      <3> DEFINE r == D(b, x)
      <3>1. Ends(r, x + 1, N)
        BY <1>1, <2>2 DEF Progresses
      <3>2. /\ Turn(b, D, g, x) = IF r.code = "Ok" THEN Prepend(r.val, g[r.off]) ELSE r
            /\ Turn(b, D, h, x) = IF r.code = "Ok" THEN Prepend(r.val, h[r.off]) ELSE r
        <4>1. TurnIs(b, D, g, x) /\ TurnIs(b, D, h, x)
          BY <2>2, TurnGoesOn
        <4> QED BY <4>1 DEF TurnIs
      <3> HIDE DEF r
      <3>3. r.code = "Ok" => r.off \in SetLessThan(x, Down(N), I)
        <4> SUFFICES ASSUME r.code = "Ok" PROVE r.off \in SetLessThan(x, Down(N), I)
          OBVIOUS
        <4>1. r.off \in x + 1 .. N
          BY <3>1 DEF Ends
        <4>2. r.off \in I /\ x < r.off
          BY <1>1, <4>1
        <4> QED BY <4>2 DEF SetLessThan, Down
      <3> QED BY <3>2, <3>3
    <2> QED BY <2>1, <2>2
  <1>3. OpDefinesFcn(f, I, Def)
    BY Zenon DEF OpDefinesFcn
  <1>4. IsWellFoundedOn(Down(N), I)
    BY <1>1, DownIsWellFounded
  <1>5. WFInductiveDefines(f, I, Def)
    <2> HIDE DEF Def, I, f
    <2> QED BY <1>2, <1>3, <1>4, WFInductiveDef
  <1>6. f = [k \in I |-> Def(f, k)]
    <2> HIDE DEF f
    <2> QED BY <1>5, Zenon DEF WFInductiveDefines
  <1>7. \A i \in I : All(b, i, D) = f[i]
    BY Zenon DEF All, Turn
  <1> HIDE DEF f
  <1> QED BY <1>6, <1>7, Zenon

\* The loop as a recursion on the offset.
Unrolls(b, D(_, _)) ==
    /\ All(b, Len(b), D) = Ok(<<>>, Len(b))
    /\ \A k \in 0 .. Len(b) - 1 :
         All(b, k, D) = IF D(b, k).code = "Ok"
                        THEN Prepend(D(b, k).val, All(b, D(b, k).off, D))
                        ELSE D(b, k)

LEMMA AllStep ==
    ASSUME NEW S, NEW b \in Seq(S), NEW D(_, _), Progresses(b, D)
    PROVE  Unrolls(b, D)
  <1> DEFINE N == Len(b)
  <1>1. N \in Nat
    BY LenProperties
  <1>2. PICK f : /\ f = [k \in 0 .. N |-> Turn(b, D, f, k)]
                 /\ \A i \in 0 .. N : All(b, i, D) = f[i]
    BY AllTurns
  <1>3. All(b, N, D) = Ok(<<>>, N)
    <2>1. N \in 0 .. N
      BY <1>1
    <2>2. f[N] = Turn(b, D, f, N)
      BY <1>2, <2>1
    <2> QED BY <1>2, <2>1, <2>2 DEF Turn
  <1>4. ASSUME NEW k \in 0 .. N - 1
        PROVE  All(b, k, D) = IF D(b, k).code = "Ok"
                              THEN Prepend(D(b, k).val, All(b, D(b, k).off, D))
                              ELSE D(b, k)
    <2> DEFINE r == D(b, k)
    <2>1. k \in 0 .. N /\ k # N
      BY <1>1
    <2>2. f[k] = Turn(b, D, f, k)
      BY <1>2, <2>1
    <2>3. Turn(b, D, f, k) = IF r.code = "Ok" THEN Prepend(r.val, f[r.off]) ELSE r
      <3>1. TurnIs(b, D, f, k)
        BY <2>1, TurnGoesOn
      <3> QED BY <3>1 DEF TurnIs
    <2>4. Ends(r, k + 1, N)
      BY DEF Progresses
    <2> HIDE DEF r
    <2>5. r.code = "Ok" => r.off \in 0 .. N
      BY <1>1, <2>4 DEF Ends
    <2>6. All(b, k, D) = IF r.code = "Ok" THEN Prepend(r.val, All(b, r.off, D)) ELSE r
      BY <1>2, <2>1, <2>2, <2>3, <2>5
    <2> QED BY <2>6 DEF r
  <1> QED BY <1>3, <1>4 DEF Unrolls

\* Prepend leaves the offset alone.
LEMMA PrependOff ==
    ASSUME NEW v, NEW r
    PROVE  /\ r.code = "Ok" => Prepend(v, r) = Ok(<<v>> \o r.val, r.off)
           /\ r.code # "Ok" => Prepend(v, r) = r
  <1>1. Prepend(v, r) = GoOn(r, LAMBDA vs, l : Ok(<<v>> \o vs, l))
    BY ThenGoesOn DEF Prepend
  <1>2. GoOn(r, LAMBDA vs, l : Ok(<<v>> \o vs, l))
          = IF r.code = "Ok" THEN Ok(<<v>> \o r.val, r.off) ELSE r
    BY Zenon DEF GoOn
  <1> QED BY <1>1, <1>2

\* A loop that succeeds has read its slice to the end.
LEMMA AllEnds ==
    ASSUME NEW S, NEW b \in Seq(S), NEW D(_, _), Progresses(b, D), NEW i \in 0 .. Len(b)
    PROVE  Ends(All(b, i, D), Len(b), Len(b))
  <1> DEFINE N == Len(b)
             T == {m \in Nat : \A k \in 0 .. N : N - k <= m => Ends(All(b, k, D), N, N)}
  <1>1. N \in Nat
    BY LenProperties
  <1>2. /\ All(b, N, D) = Ok(<<>>, N)
        /\ \A k \in 0 .. N - 1 :
             All(b, k, D) = IF D(b, k).code = "Ok"
                            THEN Prepend(D(b, k).val, All(b, D(b, k).off, D))
                            ELSE D(b, k)
    <2>1. Unrolls(b, D)
      BY AllStep
    <2> QED BY <2>1 DEF Unrolls
  <1>3. Ends(All(b, N, D), N, N)
    BY <1>1, <1>2, OkEnds
  <1>4. 0 \in T
    BY <1>1, <1>3
  <1>5. ASSUME NEW m \in Nat, m \in T PROVE m + 1 \in T
    <2> SUFFICES ASSUME NEW k \in 0 .. N, N - k <= m + 1 PROVE Ends(All(b, k, D), N, N)
      OBVIOUS
    <2>1. CASE k = N
      BY <1>3, <2>1
    <2>2. CASE k # N
      <3> DEFINE r == D(b, k)
      <3>1. k \in 0 .. N - 1
        BY <1>1, <2>2
      <3>2. Ends(r, k + 1, N)
        BY <3>1 DEF Progresses
      <3>3. All(b, k, D) = IF r.code = "Ok" THEN Prepend(r.val, All(b, r.off, D)) ELSE r
        BY <1>2, <3>1
      <3> HIDE DEF r
      <3>4. CASE r.code # "Ok"
        BY <3>3, <3>4 DEF Ends
      <3>5. CASE r.code = "Ok"
        <4> DEFINE a == All(b, r.off, D)
        <4>1. r.off \in 0 .. N /\ N - r.off <= m
          BY <1>1, <3>2, <3>5 DEF Ends
        <4>2. Ends(a, N, N)
          BY <1>5, <4>1
        <4>3. All(b, k, D) = Prepend(r.val, a)
          BY <3>3, <3>5
        <4> HIDE DEF a
        <4>4. CASE a.code = "Ok"
          <5>1. Prepend(r.val, a) = Ok(<<r.val>> \o a.val, a.off)
            BY <4>4, PrependOff
          <5>2. a.off \in N .. N
            BY <4>2, <4>4 DEF Ends
          <5>3. Ends(Ok(<<r.val>> \o a.val, a.off), N, N)
            BY <1>1, <5>2, OkEnds
          <5> QED BY <4>3, <5>1, <5>3
        <4>5. CASE a.code # "Ok"
          <5>1. Prepend(r.val, a) = a
            BY <4>5, PrependOff
          <5> QED BY <4>2, <4>3, <5>1
        <4> QED BY <4>4, <4>5
      <3> QED BY <3>4, <3>5
    <2> QED BY <2>1, <2>2
  <1>6. N \in T
    <2> HIDE DEF T
    <2>1. \A m \in Nat : m \in T
      BY <1>4, <1>5, SetInduction
    <2> QED BY <1>1, <2>1
  <1> QED BY <1>1, <1>6

(***************************************************************************)
(* OPEN                                                                    *)
(***************************************************************************)
LEMMA MpExtCapEnds ==
    ASSUME NEW b \in Seq(Octet), NEW p \in Nat, NEW i \in p .. Len(b)
    PROVE  Ends(MpExtCap(b, i), p, Len(b))
  <1> DEFINE Value(s, j) == Ok([afi |-> 256 * s[1] + s[2], safi |-> s[4]], j)
  <1>1. Len(b) \in Nat
    BY LenProperties
  <1>2. MpExtCap(b, i) = Then(get_bytes(b, i, 4), LAMBDA s, j : Value(s, j))
    BY Zenon DEF MpExtCap
  <1>3. FollowsAny(LAMBDA s, j : Value(s, j), p, Len(b))
    BY <1>1, OkEnds DEF FollowsAny
  <1> HIDE DEF Value
  <1>4. Ends(get_bytes(b, i, 4), p, Len(b))
    BY CursorReads
  <1> QED BY <1>2, <1>3, <1>4, ThenEndsAny

LEMMA OptParamEnds ==
    ASSUME NEW b \in Seq(Octet), NEW p \in Nat, NEW i \in p .. Len(b), NEW ext_op, NEW ps
    PROVE  Ends(OptParam(b, i, ext_op, ps), p, Len(b))
  <1> DEFINE N == Len(b)
             Mp(c, l) == Ok([ps EXCEPT !.mp_ext_caps = Append(@, c)], l)
             As(a, l) == Ok([ps EXCEPT !.four_octet_as_cap = a], l)
             Measured(t, len, k) ==
               CASE t \notin {1, 63} -> ErrOpen("UnsupportedOptionalParameter")
                 [] t \in {1, 63} /\ len # 4 -> ErrOpen("UnSupportedCapability")
                 [] t = 1 /\ len = 4 -> Then(MpExtCap(b, k), LAMBDA c, l : Mp(c, l))
                 [] t = 63 /\ len = 4 -> Then(get_bytes(b, k, 4), LAMBDA a, l : As(a, l))
             Typed(t, j) ==
               Then(IF ext_op THEN get_u16(b, j) ELSE get_u8(b, j),
                    LAMBDA len, k : Measured(t, len, k))
  <1>1. N \in Nat
    BY LenProperties
  <1>2. OptParam(b, i, ext_op, ps) = Then(get_u8(b, i), LAMBDA t, j : Typed(t, j))
    BY Zenon DEF OptParam
  <1>3. FollowsAny(LAMBDA c, l : Mp(c, l), p, N) /\ FollowsAny(LAMBDA a, l : As(a, l), p, N)
    BY <1>1, OkEnds DEF FollowsAny
  <1> HIDE DEF Mp, As
  <1>4. Follows(LAMBDA t, j : Typed(t, j), Octet, p, N)
    <2> SUFFICES ASSUME NEW t \in Octet, NEW j \in p .. N PROVE Ends(Typed(t, j), p, N)
      BY Zenon DEF Follows
    <2> DEFINE r == IF ext_op THEN get_u16(b, j) ELSE get_u8(b, j)
    <2>1. Follows(LAMBDA len, k : Measured(t, len, k), Nat, p, N)
      <3> SUFFICES ASSUME NEW len \in Nat, NEW k \in p .. N
                   PROVE  Ends(Measured(t, len, k), p, N)
        BY Zenon DEF Follows
      <3>1. Ends(MpExtCap(b, k), p, N) /\ Ends(get_bytes(b, k, 4), p, N)
        BY MpExtCapEnds, CursorReads
      <3>2. Ends(Then(MpExtCap(b, k), LAMBDA c, l : Mp(c, l)), p, N)
        BY <1>3, <3>1, ThenEndsAny
      <3>3. Ends(Then(get_bytes(b, k, 4), LAMBDA a, l : As(a, l)), p, N)
        BY <1>3, <3>1, ThenEndsAny
      <3>4. /\ Ends(ErrOpen("UnsupportedOptionalParameter"), p, N)
            /\ Ends(ErrOpen("UnSupportedCapability"), p, N)
        BY ErrEnds
      <3> QED BY <3>2, <3>3, <3>4
    <2> HIDE DEF Measured
    <2>2. Reads(get_u8(b, j), Octet, p, N) /\ Reads(get_u16(b, j), Nat, p, N)
      BY CursorReads
    <2>3. Reads(r, Nat, p, N)
      <3>1. Octet \subseteq Nat
        BY DEF Octet
      <3>2. Reads(get_u8(b, j), Nat, p, N)
        BY <2>2, <3>1 DEF Reads
      <3> QED BY <2>2, <3>2
    <2> HIDE DEF r
    <2>4. Ends(Then(r, LAMBDA len, k : Measured(t, len, k)), p, N)
      BY <2>1, <2>3, ThenEnds
    <2> QED BY <2>4 DEF r
  <1> HIDE DEF Typed
  <1>5. Reads(get_u8(b, i), Octet, p, N)
    BY CursorReads
  <1> QED BY <1>2, <1>4, <1>5, ThenEnds

\* The loop over the parameters, by induction on their count.
LEMMA OptParamsEnds ==
    ASSUME NEW b \in Seq(Octet), NEW p \in Nat, NEW i \in p .. Len(b), NEW len \in Nat, NEW ext
    PROVE  Ends(OptParams(b, i, len, ext), p, Len(b))
  <1> DEFINE N == Len(b)
             One(ps, j) == OptParam(b, j, ext, ps)
             Def(r, n) == Then(r, LAMBDA ps, j : One(ps, j))
             f0 == Ok(NoParams, i)
             f == CHOOSE g : g = [n \in Nat |-> IF n = 0 THEN f0 ELSE Def(g[n-1], n)]
             T == {n \in Nat : Ends(f[n], p, N)}
  <1>1. N \in Nat
    BY LenProperties
  <1>2. OptParams(b, i, len, ext) = f[len]
    BY Zenon DEF OptParams
  <1>3. NatInductiveDefConclusion(f, f0, Def)
    <2>1. NatInductiveDefHypothesis(f, f0, Def)
      BY Zenon DEF NatInductiveDefHypothesis
    <2> HIDE DEF f, f0, Def
    <2> QED BY <2>1, NatInductiveDef
  <1>4. \A n \in Nat : f[n] = IF n = 0 THEN f0 ELSE Def(f[n-1], n)
    <2> HIDE DEF f, f0, Def
    <2> QED BY <1>3 DEF NatInductiveDefConclusion
  <1> HIDE DEF f
  <1>5. 0 \in T
    <2>1. f[0] = f0
      BY <1>4
    <2> QED BY <1>1, <2>1, OkEnds
  <1>6. ASSUME NEW n \in Nat, n \in T PROVE n + 1 \in T
    <2> DEFINE r == f[n]
    <2>1. f[n + 1] = Then(r, LAMBDA ps, j : One(ps, j))
      <3>1. n + 1 \in Nat /\ n + 1 # 0 /\ (n + 1) - 1 = n
        OBVIOUS
      <3>2. f[n + 1] = Def(f[(n + 1) - 1], n + 1)
        <4> HIDE DEF Def
        <4> QED BY <1>4, <3>1
      <3>3. f[n + 1] = Def(r, n + 1)
        <4> HIDE DEF Def
        <4> QED BY <3>1, <3>2
      <3> QED BY <3>3, Zenon
    <2>2. FollowsAny(LAMBDA ps, j : One(ps, j), p, N)
      BY OptParamEnds DEF FollowsAny
    <2>3. Ends(r, p, N)
      BY <1>6
    <2> HIDE DEF r, One
    <2>4. Ends(Then(r, LAMBDA ps, j : One(ps, j)), p, N)
      BY <2>2, <2>3, ThenEndsAny
    <2>5. Ends(f[n + 1], p, N)
      BY <2>1, <2>4, Zenon
    <2> QED BY <2>5
  <1>7. len \in T
    <2> HIDE DEF T
    <2> QED BY <1>5, <1>6, SetInduction
  <1> QED BY <1>2, <1>7

\* The cursor after OpenMsg::decode.  Each continuation of the chain follows the
\* one before it, from the last to the first.
LEMMA OpenMsgEnds ==
    ASSUME NEW b \in Seq(Octet)
    PROVE  Ends(OpenMsg(b), 0, Len(b))
  <1> DEFINE N == Len(b)
             Value(as, h, id, ext, len, ps, m) ==
               Ok([as_number |-> as, hold_time |-> h, bgp_identifier |-> id, ext_opt_param |-> ext,
                   opt_params_len |-> len, opt_params |-> ps], m)
             K9(as, h, id, nl, nt, el, i9) ==
               LET ext == nt = 255
                   len == IF ext THEN el ELSE nl
               IN Then(OptParams(b, i9, len, ext), LAMBDA ps, i10 : Value(as, h, id, ext, len, ps, i10))
             K8(as, h, id, nl, nt, i8) ==
               Then(get_u16(b, i8), LAMBDA el, i9 : K9(as, h, id, nl, nt, el, i9))
             K7(as, h, id, nl, i7) ==
               Then(get_u8(b, i7), LAMBDA nt, i8 : K8(as, h, id, nl, nt, i8))
             K6(as, h, id, i6) ==
               IF BadIdentifier(id) THEN ErrOpen("BadBgpIdentifier") ELSE
               Then(get_u8(b, i6), LAMBDA nl, i7 : K7(as, h, id, nl, i7))
             K5(as, h, i5) == Then(get_bytes(b, i5, 4), LAMBDA id, i6 : K6(as, h, id, i6))
             K4(as, h, i4) ==
               IF UnacceptableHoldTime(h) THEN ErrOpen("UnacceptableHoldTime") ELSE
               Then(get_bytes(b, i4, 2), LAMBDA pad3, i5 : K5(as, h, i5))
             K3(as, i3) == Then(get_u16(b, i3), LAMBDA h, i4 : K4(as, h, i4))
             K2(as, i2) == Then(get_bytes(b, i2, 2), LAMBDA pad2, i3 : K3(as, i3))
             K1(i1) == Then(get_u16(b, i1), LAMBDA as, i2 : K2(as, i2))
             K0(v, i0) ==
               IF v # 4 THEN ErrOpen("UnsupportedVersionNumber") ELSE
               Then(get_bytes(b, i0, 3), LAMBDA pad1, i1 : K1(i1))
  <1>1. N \in Nat
    BY LenProperties
  <1>2. OpenMsg(b) = Then(get_u8(b, 0), LAMBDA version, i0 : K0(version, i0))
    BY Zenon DEF OpenMsg
  <1>3. /\ \A j \in 0 .. N : /\ Reads(get_u8(b, j), Octet, 0, N) /\ Reads(get_u16(b, j), Nat, 0, N)
                             /\ \A n \in Nat : Ends(get_bytes(b, j, n), 0, N)
        /\ \A s : Ends(ErrOpen(s), 0, N)
    BY CursorReads, ErrEnds
  <1>4. ASSUME NEW as, NEW h, NEW id, NEW nl \in Octet, NEW nt, NEW el \in Nat, NEW m \in 0 .. N
        PROVE  Ends(K9(as, h, id, nl, nt, el, m), 0, N)
    <2> DEFINE ext == nt = 255
               len == IF ext THEN el ELSE nl
               F(ps, i10) == Value(as, h, id, ext, len, ps, i10)
    <2>1. FollowsAny(LAMBDA ps, i10 : F(ps, i10), 0, N)
      BY <1>1, OkEnds DEF FollowsAny
    <2>2. K9(as, h, id, nl, nt, el, m) = Then(OptParams(b, m, len, ext), LAMBDA ps, i10 : F(ps, i10))
      BY Zenon
    <2>3. len \in Nat
      BY DEF Octet
    <2> HIDE DEF F, len, ext, K9
    <2>4. Ends(OptParams(b, m, len, ext), 0, N)
      BY <2>3, OptParamsEnds
    <2>5. Ends(Then(OptParams(b, m, len, ext), LAMBDA ps, i10 : F(ps, i10)), 0, N)
      BY <2>1, <2>4, ThenEndsAny
    <2> QED BY <2>2, <2>5, Zenon
  <1>5. ASSUME NEW as, NEW h, NEW id, NEW nl \in Octet, NEW nt, NEW m \in 0 .. N
        PROVE  Ends(K8(as, h, id, nl, nt, m), 0, N)
    <2> HIDE DEF K9
    <2>1. Follows(LAMBDA el, i : K9(as, h, id, nl, nt, el, i), Nat, 0, N)
      BY <1>4, Zenon DEF Follows
    <2>2. Reads(get_u16(b, m), Nat, 0, N)
      BY <1>3
    <2>3. Ends(Then(get_u16(b, m), LAMBDA el, i : K9(as, h, id, nl, nt, el, i)), 0, N)
      BY <2>1, <2>2, ThenEnds
    <2> QED BY <2>3, Zenon
  <1>6. ASSUME NEW as, NEW h, NEW id, NEW nl \in Octet, NEW m \in 0 .. N
        PROVE  Ends(K7(as, h, id, nl, m), 0, N)
    <2> HIDE DEF K8
    <2>1. Follows(LAMBDA nt, i : K8(as, h, id, nl, nt, i), Octet, 0, N)
      BY <1>5, Zenon DEF Follows
    <2>2. Reads(get_u8(b, m), Octet, 0, N)
      BY <1>3
    <2>3. Ends(Then(get_u8(b, m), LAMBDA nt, i : K8(as, h, id, nl, nt, i)), 0, N)
      BY <2>1, <2>2, ThenEnds
    <2> QED BY <2>3, Zenon
  <1>7. ASSUME NEW as, NEW h, NEW id, NEW m \in 0 .. N
        PROVE  Ends(K6(as, h, id, m), 0, N)
    <2> HIDE DEF K7
    <2>1. Follows(LAMBDA nl, i : K7(as, h, id, nl, i), Octet, 0, N)
      BY <1>6, Zenon DEF Follows
    <2>2. Reads(get_u8(b, m), Octet, 0, N)
      BY <1>3
    <2>3. Ends(Then(get_u8(b, m), LAMBDA nl, i : K7(as, h, id, nl, i)), 0, N)
      BY <2>1, <2>2, ThenEnds
    <2> QED BY <1>3, <2>3, Zenon
  <1>8. ASSUME NEW as, NEW h, NEW m \in 0 .. N
        PROVE  Ends(K5(as, h, m), 0, N)
    <2> HIDE DEF K6
    <2>1. FollowsAny(LAMBDA id, i : K6(as, h, id, i), 0, N)
      BY <1>7, Zenon DEF FollowsAny
    <2>2. Ends(get_bytes(b, m, 4), 0, N)
      BY <1>3
    <2>3. Ends(Then(get_bytes(b, m, 4), LAMBDA id, i : K6(as, h, id, i)), 0, N)
      BY <2>1, <2>2, ThenEndsAny
    <2> QED BY <2>3, Zenon
  <1>9. ASSUME NEW as, NEW h, NEW m \in 0 .. N
        PROVE  Ends(K4(as, h, m), 0, N)
    <2> HIDE DEF K5
    <2>1. FollowsAny(LAMBDA pad, i : K5(as, h, i), 0, N)
      BY <1>8, Zenon DEF FollowsAny
    <2>2. Ends(get_bytes(b, m, 2), 0, N)
      BY <1>3
    <2>3. Ends(Then(get_bytes(b, m, 2), LAMBDA pad, i : K5(as, h, i)), 0, N)
      BY <2>1, <2>2, ThenEndsAny
    <2> QED BY <1>3, <2>3, Zenon
  <1>10. ASSUME NEW as, NEW m \in 0 .. N
        PROVE  Ends(K3(as, m), 0, N)
    <2> HIDE DEF K4
    <2>1. Follows(LAMBDA h, i : K4(as, h, i), Nat, 0, N)
      BY <1>9, Zenon DEF Follows
    <2>2. Reads(get_u16(b, m), Nat, 0, N)
      BY <1>3
    <2>3. Ends(Then(get_u16(b, m), LAMBDA h, i : K4(as, h, i)), 0, N)
      BY <2>1, <2>2, ThenEnds
    <2> QED BY <2>3, Zenon
  <1>11. ASSUME NEW as, NEW m \in 0 .. N
        PROVE  Ends(K2(as, m), 0, N)
    <2> HIDE DEF K3
    <2>1. FollowsAny(LAMBDA pad, i : K3(as, i), 0, N)
      BY <1>10, Zenon DEF FollowsAny
    <2>2. Ends(get_bytes(b, m, 2), 0, N)
      BY <1>3
    <2>3. Ends(Then(get_bytes(b, m, 2), LAMBDA pad, i : K3(as, i)), 0, N)
      BY <2>1, <2>2, ThenEndsAny
    <2> QED BY <2>3, Zenon
  <1>12. ASSUME NEW m \in 0 .. N
        PROVE  Ends(K1(m), 0, N)
    <2> HIDE DEF K2
    <2>1. Follows(LAMBDA as, i : K2(as, i), Nat, 0, N)
      BY <1>11, Zenon DEF Follows
    <2>2. Reads(get_u16(b, m), Nat, 0, N)
      BY <1>3
    <2>3. Ends(Then(get_u16(b, m), LAMBDA as, i : K2(as, i)), 0, N)
      BY <2>1, <2>2, ThenEnds
    <2> QED BY <2>3, Zenon
  <1>13. ASSUME NEW v, NEW m \in 0 .. N
        PROVE  Ends(K0(v, m), 0, N)
    <2> HIDE DEF K1
    <2>1. FollowsAny(LAMBDA pad, i : K1(i), 0, N)
      BY <1>12, Zenon DEF FollowsAny
    <2>2. Ends(get_bytes(b, m, 3), 0, N)
      BY <1>3
    <2>3. Ends(Then(get_bytes(b, m, 3), LAMBDA pad, i : K1(i)), 0, N)
      BY <2>1, <2>2, ThenEndsAny
    <2> QED BY <1>3, <2>3, Zenon
  <1> HIDE DEF K0
  <1>14. FollowsAny(LAMBDA version, i0 : K0(version, i0), 0, N)
    BY <1>13, Zenon DEF FollowsAny
  <1>15. 0 \in 0 .. N
    BY <1>1
  <1>16. Ends(get_u8(b, 0), 0, N)
    BY <1>3, <1>15 DEF Reads, Ends
  <1> QED BY <1>2, <1>14, <1>16, ThenEndsAny

(***************************************************************************)
(* UPDATE, NOTIFICATION and the messages                                   *)
(***************************************************************************)
\* What follows leaves the cursor from i to n, whatever it is given.
Always(F(_, _), i, n) == \A v, j : Ends(F(v, j), i, n)

LEMMA ThenEndsAlways ==
    ASSUME NEW F(_, _), NEW r, NEW i, NEW n, Always(F, i, n)
    PROVE  Ends(Then(r, F), i, n)
  <1>1. Then(r, F) = GoOn(r, F)
    BY ThenGoesOn
  <1>2. CASE r.code = "Ok"
    <2>1. Ends(F(r.val, r.off), i, n)
      BY DEF Always
    <2>2. GoOn(r, F) = F(r.val, r.off)
      BY <1>2 DEF GoOn
    <2> QED BY <1>1, <2>1, <2>2
  <1>3. CASE r.code # "Ok"
    <2>1. GoOn(r, F) = r
      BY <1>3 DEF GoOn
    <2> QED BY <1>1, <1>3, <2>1 DEF Ends
  <1> QED BY <1>2, <1>3

\* The withdrawn routes and the attributes are read from slices of their own;
\* the cursor of the message moves over them, and over the prefixes.
LEMMA UpdateMsgEnds ==
    ASSUME NEW b \in Seq(Octet), NEW peer
    PROVE  Ends(UpdateMsg(b, peer), 0, Len(b))
  <1> DEFINE N == Len(b)
             Value(withdrawn, attrs, nlri, k) ==
               Ok([withdrawn_routes |-> withdrawn, path_attributes |-> attrs, nlri |-> nlri], k)
             K3(withdrawn, attrs, j) ==
               Then(All(b, j, Nlri), LAMBDA nlri, k : Value(withdrawn, attrs, nlri, k))
             K2(withdrawn, a, j) ==
               Then(All(a, 0, LAMBDA c, k : PathAttribute(c, k, peer)),
                    LAMBDA attrs, ia : K3(withdrawn, attrs, j))
             K1(withdrawn, i) ==
               Then(get_bytes_with_u16_length(b, i), LAMBDA a, j : K2(withdrawn, a, j))
             K0(w, i) == Then(All(w, 0, Cidr), LAMBDA withdrawn, iw : K1(withdrawn, i))
  <1>1. N \in Nat
    BY LenProperties
  <1>2. UpdateMsg(b, peer) = Then(get_bytes_with_u16_length(b, 0), LAMBDA w, i : K0(w, i))
    BY Zenon DEF UpdateMsg
  <1>3. \A j \in 0 .. N : Ends(get_bytes_with_u16_length(b, j), 0, N)
    BY CursorReads DEF Reads, Ends
  <1>4. ASSUME NEW j \in 0 .. N PROVE Ends(All(b, j, Nlri), 0, N)
    <2>1. Progresses(b, Nlri)
      BY <1>1, NlriEnds DEF Progresses
    <2>2. Ends(All(b, j, Nlri), N, N)
      BY <2>1, AllEnds
    <2> QED BY <1>1, <2>2, EndsEarlier
  <1>5. ASSUME NEW withdrawn, NEW attrs, NEW m \in 0 .. N PROVE Ends(K3(withdrawn, attrs, m), 0, N)
    <2>1. FollowsAny(LAMBDA nlri, k : Value(withdrawn, attrs, nlri, k), 0, N)
      BY <1>1, OkEnds DEF FollowsAny
    <2> HIDE DEF Value
    <2> QED BY <1>4, <2>1, ThenEndsAny
  <1>6. ASSUME NEW withdrawn, NEW a, NEW m \in 0 .. N PROVE Ends(K2(withdrawn, a, m), 0, N)
    <2> HIDE DEF K3
    <2>1. Always(LAMBDA attrs, ia : K3(withdrawn, attrs, m), 0, N)
      BY <1>5, Zenon DEF Always
    <2> DEFINE r == All(a, 0, LAMBDA c, k : PathAttribute(c, k, peer))
    <2> HIDE DEF r
    <2>2. Ends(Then(r, LAMBDA attrs, ia : K3(withdrawn, attrs, m)), 0, N)
      BY <2>1, ThenEndsAlways
    <2> QED BY <2>2, Zenon DEF r
  <1>7. ASSUME NEW withdrawn, NEW m \in 0 .. N PROVE Ends(K1(withdrawn, m), 0, N)
    <2> HIDE DEF K2
    <2>1. FollowsAny(LAMBDA a, j : K2(withdrawn, a, j), 0, N)
      BY <1>6, Zenon DEF FollowsAny
    <2>2. Ends(get_bytes_with_u16_length(b, m), 0, N)
      BY <1>3
    <2>3. Ends(Then(get_bytes_with_u16_length(b, m), LAMBDA a, j : K2(withdrawn, a, j)), 0, N)
      BY <2>1, <2>2, ThenEndsAny
    <2> QED BY <2>3, Zenon
  <1>8. ASSUME NEW w, NEW m \in 0 .. N PROVE Ends(K0(w, m), 0, N)
    <2> HIDE DEF K1
    <2>1. Always(LAMBDA withdrawn, iw : K1(withdrawn, m), 0, N)
      BY <1>7, Zenon DEF Always
    <2>2. Ends(Then(All(w, 0, Cidr), LAMBDA withdrawn, iw : K1(withdrawn, m)), 0, N)
      BY <2>1, ThenEndsAlways
    <2> QED BY <2>2, Zenon
  <1> HIDE DEF K0
  <1>9. FollowsAny(LAMBDA w, i : K0(w, i), 0, N)
    BY <1>8, Zenon DEF FollowsAny
  <1>10. Ends(get_bytes_with_u16_length(b, 0), 0, N)
    BY <1>1, <1>3
  <1> QED BY <1>2, <1>9, <1>10, ThenEndsAny

LEMMA NotificationMsgEnds ==
    ASSUME NEW b \in Seq(Octet)
    PROVE  Ends(NotificationMsg(b), 0, Len(b))
  <1> DEFINE N == Len(b)
             Value(code, subcode, data, k) ==
               Ok([error_code |-> code, error_subcode |-> subcode, data |-> data], k)
             K1(code, subcode, j) ==
               Then(get_bytes(b, j, Len(b) - j), LAMBDA data, k : Value(code, subcode, data, k))
             K0(code, i) == Then(get_u8(b, i), LAMBDA subcode, j : K1(code, subcode, j))
  <1>1. N \in Nat
    BY LenProperties
  <1>2. NotificationMsg(b) = Then(get_u8(b, 0), LAMBDA code, i : K0(code, i))
    BY Zenon DEF NotificationMsg
  <1>3. \A j \in 0 .. N : Ends(get_u8(b, j), 0, N)
    BY CursorReads DEF Reads, Ends
  <1>4. ASSUME NEW code, NEW subcode, NEW m \in 0 .. N PROVE Ends(K1(code, subcode, m), 0, N)
    <2>1. FollowsAny(LAMBDA data, k : Value(code, subcode, data, k), 0, N)
      BY <1>1, OkEnds DEF FollowsAny
    <2> HIDE DEF Value
    <2>2. N - m \in Nat
      BY <1>1
    <2>3. Ends(get_bytes(b, m, N - m), 0, N)
      BY <2>2, CursorReads
    <2> QED BY <2>1, <2>3, ThenEndsAny
  <1>5. ASSUME NEW code, NEW m \in 0 .. N PROVE Ends(K0(code, m), 0, N)
    <2> HIDE DEF K1
    <2>1. FollowsAny(LAMBDA subcode, j : K1(code, subcode, j), 0, N)
      BY <1>4, Zenon DEF FollowsAny
    <2>2. Ends(get_u8(b, m), 0, N)
      BY <1>3
    <2>3. Ends(Then(get_u8(b, m), LAMBDA subcode, j : K1(code, subcode, j)), 0, N)
      BY <2>1, <2>2, ThenEndsAny
    <2> QED BY <2>3, Zenon
  <1> HIDE DEF K0
  <1>6. FollowsAny(LAMBDA code, i : K0(code, i), 0, N)
    BY <1>5, Zenon DEF FollowsAny
  <1>7. Ends(get_u8(b, 0), 0, N)
    BY <1>1, <1>3
  <1> QED BY <1>2, <1>6, <1>7, ThenEndsAny

LEMMA BodyEnds ==
    ASSUME NEW b \in Seq(Octet), NEW peer,
           NEW t \in {"Open", "Update", "Notification", "Keepalive"}
    PROVE  Ends(Body(t, b, peer), 0, Len(b))
  <1>1. Len(b) \in Nat
    BY LenProperties
  <1>2. CASE t = "Open"
    BY <1>2, OpenMsgEnds DEF Body
  <1>3. CASE t = "Update"
    <2>1. Body(t, b, peer) = IF peer = NoPeer THEN ErrHeader("ConnectionNotSync")
                             ELSE UpdateMsg(b, peer)
      BY <1>3 DEF Body
    <2> QED BY <2>1, UpdateMsgEnds, ErrEnds
  <1>4. CASE t = "Notification"
    <2>1. Body(t, b, peer) = NotificationMsg(b)
      BY <1>4 DEF Body
    <2> QED BY <2>1, NotificationMsgEnds
  <1>5. CASE t = "Keepalive"
    <2>1. Body(t, b, peer) = Ok(<<>>, 0)
      BY <1>5 DEF Body
    <2>2. Ends(Ok(<<>>, 0), 0, Len(b))
      BY <1>1, OkEnds
    <2> QED BY <2>1, <2>2
  <1> QED BY <1>2, <1>3, <1>4, <1>5

\* Message::decode never asks for more to be advanced past than is in the
\* buffer, and a message that is decoded has at least its header: with any
\* octets, and although the slice of the body has header.length octets behind
\* the header.
THEOREM DecodeWithin ==
    ASSUME NEW b \in Seq(0..255), NEW peer
    PROVE  Decode(b, peer).code = "Ok" => Decode(b, peer).off \in 19 .. Len(b)
  <1> SUFFICES ASSUME Decode(b, peer).code = "Ok"
               PROVE  Decode(b, peer).off \in 19 .. Len(b)
    OBVIOUS
  <1>1. Len(b) \in Nat
    BY LenProperties
  <1> DEFINE H == MessageHeader(b)
             n == H.val.length
             s == SubSeq(b, 20, 19 + n)
             B == Body(H.val.msg_type, s, peer)
  <1>2. BufferTooShort.code # "Ok"
    BY DEF BufferTooShort, Err
  <1>3. Len(b) >= 19
    <2>1. Decode(b, peer) # BufferTooShort
      BY <1>2
    <2>2. Len(b) < MIN_MSG_LEN => Decode(b, peer) = BufferTooShort
      BY Zenon DEF Decode
    <2> QED BY <1>1, <2>1, <2>2 DEF MIN_MSG_LEN
  <1>4. H.code = "Ok" /\ ~(Len(b) < 19 + n) /\ Decode(b, peer) = Payload(H.val, s, peer)
    <2> HIDE DEF H
    <2>1. /\ H.code # "Ok" => Decode(b, peer) = H
          /\ H.code = "Ok" =>
               Decode(b, peer) = IF Len(b) < 19 + n THEN BufferTooShort
                                 ELSE Payload(H.val, s, peer)
      BY <1>3, DecodeByHeader DEF H
    <2> QED BY <1>2, <2>1
  <1>5. n \in Nat /\ H.val.msg_type \in {"Open", "Update", "Notification", "Keepalive"}
    BY <1>3, <1>4, HeaderAccepted
  <1>6. s \in Seq(Octet) /\ Len(s) = n
    <2> HIDE DEF n
    <2>1. \A k \in 20 .. 19 + n : b[k] \in Octet
      <3>1. \A k \in 1 .. Len(b) : b[k] \in 0..255
        BY ElementOfSeq
      <3>2. \A k \in 20 .. 19 + n : k \in 1 .. Len(b)
        BY <1>1, <1>4, <1>5
      <3> QED BY <3>1, <3>2 DEF Octet
    <2> DEFINE q == 19 + n
    <2>2. q \in Int /\ (IF 20 <= q THEN q - 20 + 1 ELSE 0) = n
      BY <1>5
    <2> HIDE DEF q
    <2>3. /\ SubSeq(b, 20, q) \in Seq(Octet)
          /\ Len(SubSeq(b, 20, q)) = IF 20 <= q THEN q - 20 + 1 ELSE 0
      <3> HIDE DEF Octet
      <3> QED BY <2>1, <2>2, SubSeqProperties DEF q
    <2> QED BY <2>2, <2>3 DEF q
  <1>7. Ends(B, 0, n)
    <2> HIDE DEF s, n
    <2>1. Ends(B, 0, Len(s))
      <3> HIDE DEF H
      <3> QED BY <1>5, <1>6, BodyEnds
    <2> QED BY <1>6, <2>1
  <1>8. Payload(H.val, s, peer)
          = GoOn(B, LAMBDA v, k : Ok([type |-> H.val.msg_type, msg |-> v], k + MIN_MSG_LEN))
    BY ThenGoesOn DEF Payload
  <1> HIDE DEF B, n, s
  <1>9. Payload(H.val, s, peer)
          = IF B.code = "Ok" THEN Ok([type |-> H.val.msg_type, msg |-> B.val], B.off + MIN_MSG_LEN)
            ELSE B
    BY <1>8, Zenon DEF GoOn
  <1> HIDE DEF H
  <1>10. B.code = "Ok"
    BY <1>4, <1>9
  <1>11. Decode(b, peer).off = B.off + 19
    <2> DEFINE v == [type |-> H.val.msg_type, msg |-> B.val]
    <2> HIDE DEF v
    <2>1. Decode(b, peer) = Ok(v, B.off + 19)
      BY <1>4, <1>9, <1>10 DEF MIN_MSG_LEN, v
    <2>2. \A m : Ok(v, m).off = m
      BY DEF Ok
    <2> QED BY <2>1, <2>2, Zenon
  <1>12. B.off \in 0 .. n
    BY <1>7, <1>10 DEF Ends
  <1> QED BY <1>1, <1>4, <1>5, <1>11, <1>12
=============================================================================
