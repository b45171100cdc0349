------------------------ MODULE MessageFormatProofs ------------------------
(***************************************************************************)
(* A message that is cut anywhere is waited for, whatever its octets;      *)
(* prefixes of every length are read from the octets that hold them; an    *)
(* OPEN that is returned can be used, whatever octets it was read from;    *)
(* and the lists of an UPDATE are read as they were sent, however long,    *)
(* whatever follows the UPDATE.                                            *)
(***************************************************************************)
EXTENDS MessageFormat, MessageProofs

\* The input is one of those considered, and the result is that of decoding it.
ResultOfInput == Input /\ (result = Undecoded \/ result = Result)

\* ResultOfInput is an invariant.
LEMMA ResultInvariance == Spec => []ResultOfInput
  <1>1. Init => ResultOfInput
    BY DEF Init, ResultOfInput
  <1>2. ResultOfInput /\ [Next]_formatVars => ResultOfInput'
    <2> SUFFICES ASSUME ResultOfInput, [Next]_formatVars PROVE ResultOfInput'
      OBVIOUS
    <2>1. input' = input /\ (result' = result \/ result' = Result)
      BY DEF Next, DecodeInput, formatVars
    <2>2. Input' /\ Result' = Result
      BY <2>1 DEF ResultOfInput, Input, Result
    <2> QED BY <2>1, <2>2 DEF ResultOfInput, Undecoded
  <1> QED BY <1>1, <1>2, PTL DEF Spec

\* Every cut of every message.
LEMMA CutStable ==
    ASSUME ResultOfInput
    PROVE  CutIsWaitedFor
  <1> SUFFICES ASSUME Decoded("cut")
               PROVE  result = BufferTooShort \/ result = Decode(input.frame, input.peer)
    BY DEF CutIsWaitedFor
  <1>1. input.of = "cut" /\ result = Result
    BY DEF Decoded, ResultOfInput
  <1>2. PICK f \in Frames, p \in Peers \cup {NoPeer} :
            \E n \in 0..Len(f) : input = [of |-> "cut", frame |-> f, cut |-> n, peer |-> p]
    BY <1>1 DEF ResultOfInput, Input
  <1>3. PICK n \in 0..Len(f) : input = [of |-> "cut", frame |-> f, cut |-> n, peer |-> p]
    BY <1>2
  <1>4. input.frame = f /\ input.cut = n /\ input.peer = p
    BY <1>3
  <1> DEFINE b == SubSeq(f, 1, n)
  <1>5. result = Decode(b, p)
    BY <1>1, <1>4 DEF Result
  <1>6. f \in Seq(0..255)
    <2>1. f \in Seq(Octet)
      BY OctetAssumption
    <2> QED BY <2>1 DEF Octet
  <1>7. b \in Seq(0..255) /\ Len(b) <= Len(f) /\ \A i \in 1 .. Len(b) : f[i] = b[i]
    <2> DEFINE S == 0..255
    <2>1. f \in Seq(S)
      BY <1>6
    <2> HIDE DEF S
    <2>2. Len(f) \in Nat /\ \A i \in 1 .. Len(f) : f[i] \in S
      BY <2>1, ElementOfSeq, LenProperties
    <2>3. n \in Int /\ 1 \in Int /\ n <= Len(f) /\ n >= 0 /\ \A i \in 1 .. n : f[i] \in S
      BY <2>2
    <2>4. /\ b \in Seq(S) /\ Len(b) = (IF 1 <= n THEN n - 1 + 1 ELSE 0)
          /\ \A i \in 1 .. n - 1 + 1 : b[i] = f[1 + i - 1]
      BY <2>3, SubSeqProperties
    <2> HIDE DEF b
    <2>5. Len(b) = n
      BY <2>3, <2>4
    <2>6. ASSUME NEW i \in 1 .. n PROVE f[i] = b[i]
      <3>1. i \in 1 .. n - 1 + 1 /\ 1 + i - 1 = i
        BY <2>3
      <3> QED BY <2>4, <3>1
    <2> QED BY <2>3, <2>4, <2>5, <2>6 DEF S
  <1> HIDE DEF b
  <1>8. Decode(b, p) # BufferTooShort => Decode(f, p) = Decode(b, p)
    BY <1>6, <1>7, DecodeStable
  <1> QED BY <1>4, <1>5, <1>8

\* However much of a message has arrived, decode waits for the rest or says
\* of it what it says of the whole.
THEOREM CutsAreWaitedFor == Spec => []CutIsWaitedFor
  <1>1. ResultOfInput => CutIsWaitedFor
    BY CutStable
  <1> QED BY <1>1, ResultInvariance, PTL

(***************************************************************************)
(* Prefixes                                                                *)
(***************************************************************************)
\* Rounding up in u8 is right up to 248 bits, and the octets are as many as
\* the 33 of the input allow.
LEMMA Rounding ==
    ASSUME NEW n \in 0..255
    PROVE  /\ PaddedLength(n) \in 0..31
           /\ n <= 248 => n <= 8 * PaddedLength(n) /\ 8 * PaddedLength(n) <= n + 7
  <1> DEFINE m == (n + 7) % 256
  <1>1. m \in 0..255 /\ (n <= 248 => m = n + 7)
    OBVIOUS
  <1> HIDE DEF m
  <1>2. m \div 8 \in 0..31 /\ 8 * (m \div 8) <= m /\ m < 8 * (m \div 8) + 8
    BY <1>1
  <1>3. PaddedLength(n) = m \div 8
    BY DEF PaddedLength, m
  <1> DEFINE k == m \div 8
  <1> HIDE DEF k
  <1>4. k \in 0..31 /\ (n <= 248 => n <= 8 * k /\ 8 * k <= n + 7)
    BY <1>1, <1>2 DEF k
  <1> QED BY <1>3, <1>4 DEF k

\* Up to 128 bits, that is the least number of octets that hold them.
LEMMA LeastOctets ==
    ASSUME NEW n \in 0..128
    PROVE  OctetsFor(n) = PaddedLength(n)
  <1> DEFINE k == PaddedLength(n)
             P(j) == 8 * j >= n /\ (j > 0 => 8 * (j - 1) < n)
  <1>1. k \in 0..32 /\ n <= 8 * k /\ 8 * k <= n + 7
    BY Rounding
  <1> HIDE DEF k
  <1>2. P(k)
    BY <1>1
  <1>3. \A j \in 0..32 : P(j) => j = k
    BY <1>1
  <1>4. (CHOOSE j \in 0..32 : P(j)) = k
    BY <1>1, <1>2, <1>3
  <1> QED BY <1>4 DEF OctetsFor, k

\* The octets of the input.
PrefixInput(b, n) ==
    /\ b \in Seq(0..255) /\ Len(b) = 33 /\ b[1] = n
    /\ \A i \in 1..32 : b[i + 1] = 100 + i

\* The input PrefixDecodes is about is laid out so.
LEMMA PrefixOctets ==
    ASSUME NEW n \in 0..255
    PROVE  PrefixInput(<<n>> \o Filler(32), n)
  <1> DEFINE b == <<n>> \o Filler(32)
  <1> SUFFICES PrefixInput(b, n)
    OBVIOUS
  <1> DEFINE S == 0..255
             a == <<n>>
             c == Filler(32)
  <1>1. a \in Seq(S) /\ Len(a) = 1 /\ a[1] = n
    OBVIOUS
  <1>2. c \in Seq(S) /\ Len(c) = 32 /\ \A i \in 1..32 : c[i] = 100 + i
    <2>1. c \in [1..32 -> S]
      BY DEF Filler
    <2>2. c \in Seq(S)
      <3>1. \E k \in Nat : c \in [1..k -> S]
        BY <2>1
      <3> HIDE DEF c, S
      <3> QED BY <3>1
    <2>3. Len(c) = 32 /\ \A i \in 1..32 : c[i] = 100 + i
      BY DEF Filler
    <2> QED BY <2>2, <2>3
  <1> HIDE DEF S, a, c
  <1>3. b = a \o c
    BY DEF a, c
  <1> HIDE DEF b
  <1>4. /\ b \in Seq(S) /\ Len(b) = 33
        /\ \A i \in 1 .. Len(a) + Len(c) : b[i] = IF i <= Len(a) THEN a[i] ELSE c[i - Len(a)]
    <2>1. /\ a \o c \in Seq(S) /\ Len(a \o c) = Len(a) + Len(c)
          /\ \A i \in 1 .. Len(a) + Len(c) :
                (a \o c)[i] = IF i <= Len(a) THEN a[i] ELSE c[i - Len(a)]
      <3>1. a \in Seq(S) /\ c \in Seq(S)
        BY <1>1, <1>2
      <3> QED BY ONLY <3>1, ConcatProperties, Zenon
    <2>2. Len(a) + Len(c) = 33
      BY <1>1, <1>2
    <2> QED BY <1>3, <2>1, <2>2, Zenon
  <1>5. \A i \in 1 .. 33 : b[i] = IF i <= 1 THEN a[i] ELSE c[i - 1]
    <2>1. Len(a) = 1 /\ Len(c) = 32 /\ Len(a) + Len(c) = 33
      BY <1>1, <1>2
    <2>2. \A i \in 1 .. 33 : b[i] = IF i <= Len(a) THEN a[i] ELSE c[i - Len(a)]
      BY <1>4, <2>1, Zenon
    <2> QED BY <2>1, <2>2, Zenon
  <1>6. b[1] = n
    <2>1. 1 \in 1..33 /\ 1 <= 1
      OBVIOUS
    <2>2. b[1] = a[1]
      BY <1>5, <2>1, Zenon
    <2> QED BY <1>1, <2>2
  <1>7. ASSUME NEW i \in 1..32 PROVE b[i + 1] = 100 + i
    <2>1. i + 1 \in 1..33 /\ ~(i + 1 <= 1) /\ (i + 1) - 1 = i
      OBVIOUS
    <2>2. b[i + 1] = c[i]
      BY <1>5, <2>1
    <2> QED BY <1>2, <2>2
  <1> QED BY <1>4, <1>6, <1>7 DEF S, PrefixInput

\* The octets read after the length.
LEMMA PrefixSlice ==
    ASSUME NEW n \in 0..255, NEW p \in 0..31
    PROVE  LET s == SubSeq(<<n>> \o Filler(32), 2, 1 + p)
           IN  Len(s) = p /\ \A i \in 1 .. p : s[i] = 100 + i
  <1> DEFINE S == 0..255
             b == <<n>> \o Filler(32)
             q == 1 + p
             s == SubSeq(b, 2, q)
  <1>1. PrefixInput(b, n)
    BY PrefixOctets, ZenonT(30)
  <1> HIDE DEF b
  <1>2. \A i \in 1..32 : b[i + 1] = 100 + i
    BY <1>1 DEF PrefixInput
  <1>3. q \in Int /\ 2 \in Int
    OBVIOUS
  <1>4. \A i \in 2 .. q : b[i] \in S
    <2> SUFFICES ASSUME NEW i \in 2 .. q PROVE b[i] \in S
      OBVIOUS
    <2>1. i - 1 \in 1..32 /\ (i - 1) + 1 = i
      OBVIOUS
    <2>2. b[i] = 100 + (i - 1)
      BY <1>2, <2>1
    <2> QED BY <2>1, <2>2
  <1> HIDE DEF S, q
  <1>5. /\ Len(s) = (IF 2 <= q THEN q - 2 + 1 ELSE 0)
        /\ \A i \in 1 .. q - 2 + 1 : s[i] = b[2 + i - 1]
    <2> HIDE DEF s
    <2>1. \A x : x = SubSeq(b, 2, q) => /\ Len(x) = (IF 2 <= q THEN q - 2 + 1 ELSE 0)
                                        /\ \A i \in 1 .. q - 2 + 1 : x[i] = b[2 + i - 1]
      BY <1>3, <1>4, SubSeqProperties
    <2> QED BY <2>1, Zenon DEF s
  <1> HIDE DEF s
  <1>6. Len(s) = p
    BY <1>5 DEF q
  <1>7. ASSUME NEW i \in 1 .. p PROVE s[i] = 100 + i
    <2>1. i \in 1 .. q - 2 + 1 /\ 2 + i - 1 = i + 1 /\ i \in 1..32
      BY DEF q
    <2> QED BY <1>2, <1>5, <2>1
  <1>8. Len(s) = p /\ \A i \in 1 .. p : s[i] = 100 + i
    BY <1>6, <1>7
  <1> QED BY <1>8, Zenon DEF s, b, q

\* What Cidr::decode does with the s octets of a prefix of n bits.
PrefixOf(n, s, k) ==
    CASE Len(s) <= 4 -> Ok([length |-> n, prefix |-> Padded(s, 4)], k)
      [] Len(s) \in 5..16 -> Ok([length |-> n, prefix |-> Padded(s, 16)], k)
      [] OTHER -> Panic

\* Cidr::decode takes as many octets as PaddedLength says.
LEMMA CidrReads ==
    ASSUME NEW n \in 0..255, NEW b, NEW i \in Nat, Len(b) \in Nat,
           b[i + 1] = n, i + 1 + PaddedLength(n) <= Len(b)
    PROVE  Cidr(b, i) =
             IF OverflowChecks /\ n + 7 > 255 THEN Panic
             ELSE PrefixOf(n, SubSeq(b, i + 1 + 1, i + 1 + PaddedLength(n)), i + 1 + PaddedLength(n))
  <1> DEFINE p == PaddedLength(n)
             m == i + 1
             s == SubSeq(b, m + 1, m + p)
  <1>1. p \in 0..31
    BY Rounding
  <1>2. m \in Nat /\ m + p <= Len(b)
    OBVIOUS
  <1>3. get_u8(b, i) = Ok(n, m)
    <2>1. ~(Len(b) - i < 1)
      <3> HIDE DEF p
      <3> QED BY <1>1, <1>2
    <2> QED BY <2>1 DEF get_u8
  <1>4. get_bytes(b, m, p) = Ok(s, m + p)
    <2> HIDE DEF p, m
    <2>1. ~(Len(b) - m < p)
      BY <1>1, <1>2
    <2> QED BY <2>1 DEF get_bytes
  <1> HIDE DEF m
  <1> DEFINE Of(l, j) == Then(get_bytes(b, j, PaddedLength(l)), LAMBDA t, k : PrefixOf(l, t, k))
             Checked(l, j) == IF OverflowChecks /\ l + 7 > 255 THEN Panic ELSE Of(l, j)
  <1>5. Of(n, m) = PrefixOf(n, s, m + p)
    <2> HIDE DEF p, s
    <2>1. Then(get_bytes(b, m, p), LAMBDA t, k : PrefixOf(n, t, k))
            = GoOn(get_bytes(b, m, p), LAMBDA t, k : PrefixOf(n, t, k))
      BY ThenGoesOn
    <2>2. GoOn(Ok(s, m + p), LAMBDA t, k : PrefixOf(n, t, k)) = PrefixOf(n, s, m + p)
      BY DEF GoOn, Ok
    <2>3. Then(get_bytes(b, m, p), LAMBDA t, k : PrefixOf(n, t, k)) = PrefixOf(n, s, m + p)
      BY <1>4, <2>1, <2>2
    <2> QED BY <2>3, Zenon DEF p
  <1>6. Cidr(b, i) = Then(get_u8(b, i), LAMBDA l, j : Checked(l, j))
    BY Zenon DEF Cidr, PrefixOf
  <1>7. Cidr(b, i) = Checked(n, m)
    <2> HIDE DEF Checked
    <2>1. Then(get_u8(b, i), LAMBDA l, j : Checked(l, j))
            = GoOn(get_u8(b, i), LAMBDA l, j : Checked(l, j))
      BY ThenGoesOn
    <2>2. GoOn(Ok(n, m), LAMBDA l, j : Checked(l, j)) = Checked(n, m)
      BY DEF GoOn, Ok
    <2> QED BY <1>3, <1>6, <2>1, <2>2
  <1> HIDE DEF Of, p, s
  <1>8. Cidr(b, i) = IF OverflowChecks /\ n + 7 > 255 THEN Panic ELSE PrefixOf(n, s, m + p)
    BY <1>5, <1>7
  <1> QED BY <1>8 DEF p, s, m

\* Prefixes of all lengths.
LEMMA EveryPrefix ==
    ASSUME ResultOfInput
    PROVE  PrefixDecodes
  <1> SUFFICES ASSUME Decoded("prefix"), input.length \in CidrLength PROVE PrefixDecodes
    BY DEF PrefixDecodes
  <1>1. input.of = "prefix" /\ result = Result
    BY DEF Decoded, ResultOfInput
  <1>2. PICK n \in PrefixLength : input = [of |-> "prefix", length |-> n]
    BY <1>1 DEF ResultOfInput, Input
  <1>3. n \in 0..255 /\ input.length = n
    <2>1. n \in Octet
      BY OctetAssumption
    <2> QED BY <1>2, <2>1 DEF Octet
  <1> DEFINE b == <<n>> \o Filler(32)
             p == PaddedLength(n)
             s == SubSeq(b, 2, 1 + p)
  <1>4. result = Cidr(b, 0)
    BY <1>1, <1>3 DEF Result
  <1>5. Cidr(b, 0) = IF OverflowChecks /\ n + 7 > 255 THEN Panic ELSE PrefixOf(n, s, 1 + p)
    <2>1. Len(b) = 33 /\ b[1] = n
      <3>1. PrefixInput(b, n)
        BY <1>3, PrefixOctets
      <3> HIDE DEF b
      <3> QED BY <3>1 DEF PrefixInput
    <2> HIDE DEF b
    <2>2. 0 + 1 = 1 /\ 0 + 1 + 1 = 2 /\ b[0 + 1] = n /\ Len(b) \in Nat
      BY <2>1
    <2>3. 0 + 1 + p <= Len(b) /\ 0 + 1 + p = 1 + p
      <3>1. p \in 0..31
        BY <1>3, Rounding
      <3> HIDE DEF p
      <3> QED BY <2>1, <3>1
    <2>4. Cidr(b, 0) = IF OverflowChecks /\ n + 7 > 255 THEN Panic
                       ELSE PrefixOf(n, SubSeq(b, 0 + 1 + 1, 0 + 1 + p), 0 + 1 + p)
      BY <1>3, <2>2, <2>3, CidrReads
    <2> HIDE DEF p
    <2> QED BY <2>2, <2>3, <2>4
  <1>6. p \in 0..31 /\ (n <= 248 => n <= 8 * p /\ 8 * p <= n + 7)
    BY <1>3, Rounding
  <1>8. Len(s) = p /\ \A i \in 1 .. p : s[i] = 100 + i
    <2> HIDE DEF p
    <2> QED BY <1>3, <1>6, PrefixSlice, Zenon
  <1> HIDE DEF b, p
  <1> HIDE DEF s
  <1>9. n \in 0..128 /\ ~(n + 7 > 255)
    BY <1>3 DEF CidrLength
  <1>10. result = PrefixOf(n, s, 1 + p)
    BY <1>4, <1>5, <1>9
  <1>11. OctetsFor(n) = p
    BY <1>9, LeastOctets DEF p
  <1> DEFINE size == IF n <= 32 THEN 4 ELSE 16
             octets == [k \in 1..size |-> IF k <= p THEN 100 + k ELSE 0]
  <1>12. Padded(s, size) = octets
    <2> HIDE DEF size
    <2>1. \A k \in 1..size : k <= p => s[k] = 100 + k
      <3>1. size \in Nat
        BY DEF size
      <3> QED BY <1>6, <1>8, <3>1
    <2> QED BY <1>8, <2>1 DEF Padded
  <1>13. result = Ok([length |-> n, prefix |-> octets], p + 1)
    <2>1. CASE n <= 32
      <3>1. p <= 4 /\ size = 4
        BY <1>6, <1>9, <2>1
      <3>2. PrefixOf(n, s, 1 + p) = Ok([length |-> n, prefix |-> Padded(s, 4)], 1 + p)
        BY <1>8, <3>1 DEF PrefixOf
      <3> HIDE DEF octets
      <3> QED BY <1>6, <1>10, <1>12, <3>1, <3>2
    <2>2. CASE ~(n <= 32)
      <3>1. p \in 5..16 /\ ~(p <= 4) /\ size = 16
        BY <1>6, <1>9, <2>2
      <3>2. PrefixOf(n, s, 1 + p) = Ok([length |-> n, prefix |-> Padded(s, 16)], 1 + p)
        BY <1>8, <3>1 DEF PrefixOf
      <3> HIDE DEF octets
      <3> QED BY <1>6, <1>10, <1>12, <3>1, <3>2
    <2> QED BY <2>1, <2>2
  <1> QED BY <1>3, <1>11, <1>13 DEF PrefixDecodes

\* A prefix of up to 128 bits is read from the octets that hold it, no more.
THEOREM PrefixesDecode == Spec => []PrefixDecodes
  <1>1. ResultOfInput => PrefixDecodes
    BY EveryPrefix
  <1> QED BY <1>1, ResultInvariance, PTL

(***************************************************************************)
(* OPEN                                                                    *)
(***************************************************************************)
\* If r is an OPEN, a session can use it.
UsableOpen(v) == v.hold_time \notin {1, 2} /\ ~BadIdentifier(v.bgp_identifier)
Usable(r) == r.code = "Ok" => UsableOpen(r.val)
AlwaysUsable(F(_, _)) == \A v, i : Usable(F(v, i))

\* What goes on with whatever was read ends in something usable.
LEMMA ThenUsable ==
    ASSUME NEW F(_, _), NEW r, AlwaysUsable(F)
    PROVE  Usable(Then(r, F))
  <1>1. Then(r, F) = GoOn(r, F)
    BY ThenGoesOn
  <1>2. CASE r.code = "Ok"
    BY <1>1, <1>2 DEF GoOn, AlwaysUsable
  <1>3. CASE r.code # "Ok"
    BY <1>1, <1>3 DEF GoOn, Usable
  <1> QED BY <1>2, <1>3

\* OpenMsg::decode returns only what it has looked at, whatever the octets
\* and whatever the parameters.
LEMMA OpenMsgUsable ==
    ASSUME NEW b
    PROVE  Usable(OpenMsg(b))
  <1> DEFINE Value(as, h, id, ext, len, ps, m) ==
               Ok([as_number |-> as, hold_time |-> h, bgp_identifier |-> id, ext_opt_param |-> ext,
                   opt_params_len |-> len, opt_params |-> ps], m)
             K9(as, h, id, nl, nt, el, i9) ==
               LET ext == nt = 255
                   len == IF ext THEN el ELSE nl
               IN Then(OptParams(b, i9, len, ext), LAMBDA ps, i10 : Value(as, h, id, ext, len, ps, i10))
             K8(as, h, id, nl, nt, i8) ==
               Then(get_u16(b, i8), LAMBDA el, i9 : K9(as, h, id, nl, nt, el, i9))
             K7(as, h, id, nl, i7) ==
               Then(get_u8(b, i7), LAMBDA nt, i8 : K8(as, h, id, nl, nt, i8))
             K6(as, h, id, i6) ==
               IF BadIdentifier(id) THEN ErrOpen("BadBgpIdentifier") ELSE
               Then(get_u8(b, i6), LAMBDA nl, i7 : K7(as, h, id, nl, i7))
             K5(as, h, i5) == Then(get_bytes(b, i5, 4), LAMBDA id, i6 : K6(as, h, id, i6))
             K4(as, h, i4) ==
               IF UnacceptableHoldTime(h) THEN ErrOpen("UnacceptableHoldTime") ELSE
               Then(get_bytes(b, i4, 2), LAMBDA pad3, i5 : K5(as, h, i5))
             K3(as, i3) == Then(get_u16(b, i3), LAMBDA h, i4 : K4(as, h, i4))
             K2(as, i2) == Then(get_bytes(b, i2, 2), LAMBDA pad2, i3 : K3(as, i3))
             K1(i1) == Then(get_u16(b, i1), LAMBDA as, i2 : K2(as, i2))
             K0(v, i0) ==
               IF v # 4 THEN ErrOpen("UnsupportedVersionNumber") ELSE
               Then(get_bytes(b, i0, 3), LAMBDA pad1, i1 : K1(i1))
  <1>1. OpenMsg(b) = Then(get_u8(b, 0), LAMBDA version, i0 : K0(version, i0))
    BY Zenon DEF OpenMsg
  <1>2. \A s : Usable(ErrOpen(s))
    BY DEF Usable, ErrOpen, Err
  <1>3. ASSUME NEW h, ~UnacceptableHoldTime(h) PROVE h \notin {1, 2}
    BY <1>3 DEF UnacceptableHoldTime
  <1>4. ASSUME NEW as, NEW h, NEW id, NEW nl, NEW nt, NEW el, NEW i9,
               ~UnacceptableHoldTime(h), ~BadIdentifier(id)
        PROVE  Usable(K9(as, h, id, nl, nt, el, i9))
    <2> DEFINE ext == nt = 255
               len == IF ext THEN el ELSE nl
               F(ps, i10) == Value(as, h, id, ext, len, ps, i10)
    <2>1. K9(as, h, id, nl, nt, el, i9) = Then(OptParams(b, i9, len, ext), LAMBDA ps, i10 : F(ps, i10))
      BY Zenon
    <2> HIDE DEF ext, len
    <2>2. AlwaysUsable(LAMBDA ps, i10 : F(ps, i10))
      BY <1>3, <1>4 DEF Usable, UsableOpen, Ok, AlwaysUsable
    <2> HIDE DEF F, K9
    <2>3. Usable(Then(OptParams(b, i9, len, ext), LAMBDA ps, i10 : F(ps, i10)))
      BY <2>2, ThenUsable
    <2> QED BY <2>1, <2>3, Zenon
  <1> HIDE DEF K9
  <1>5. ASSUME NEW as, NEW h, NEW id, NEW i6, ~UnacceptableHoldTime(h)
        PROVE  Usable(K6(as, h, id, i6))
    <2>1. CASE BadIdentifier(id)
      BY <1>2, <2>1
    <2>2. CASE ~BadIdentifier(id)
      <3>1. ASSUME NEW nl, NEW nt, NEW i8 PROVE Usable(K8(as, h, id, nl, nt, i8))
        <4>1. AlwaysUsable(LAMBDA el, i9 : K9(as, h, id, nl, nt, el, i9))
          BY <1>4, <1>5, <2>2, Zenon DEF AlwaysUsable
        <4> QED BY <4>1, ThenUsable
      <3> HIDE DEF K8
      <3>2. ASSUME NEW nl, NEW i7 PROVE Usable(K7(as, h, id, nl, i7))
        <4>1. AlwaysUsable(LAMBDA nt, i8 : K8(as, h, id, nl, nt, i8))
          BY <3>1, Zenon DEF AlwaysUsable
        <4> QED BY <4>1, ThenUsable
      <3> HIDE DEF K7
      <3>3. AlwaysUsable(LAMBDA nl, i7 : K7(as, h, id, nl, i7))
        BY <3>2, Zenon DEF AlwaysUsable
      <3>4. Usable(Then(get_u8(b, i6), LAMBDA nl, i7 : K7(as, h, id, nl, i7)))
        BY <3>3, ThenUsable
      <3> QED BY <2>2, <3>4
    <2> QED BY <2>1, <2>2
  <1> HIDE DEF K6
  <1>6. ASSUME NEW as, NEW h, NEW i4 PROVE Usable(K4(as, h, i4))
    <2>1. CASE UnacceptableHoldTime(h)
      BY <1>2, <2>1
    <2>2. CASE ~UnacceptableHoldTime(h)
      <3>1. ASSUME NEW i5 PROVE Usable(K5(as, h, i5))
        <4>1. AlwaysUsable(LAMBDA id, i6 : K6(as, h, id, i6))
          BY <1>5, <2>2, Zenon DEF AlwaysUsable
        <4> QED BY <4>1, ThenUsable
      <3> HIDE DEF K5
      <3>2. AlwaysUsable(LAMBDA pad3, i5 : K5(as, h, i5))
        BY <3>1, Zenon DEF AlwaysUsable
      <3>3. Usable(Then(get_bytes(b, i4, 2), LAMBDA pad3, i5 : K5(as, h, i5)))
        BY <3>2, ThenUsable
      <3> QED BY <2>2, <3>3
    <2> QED BY <2>1, <2>2
  <1> HIDE DEF K4
  <1>7. ASSUME NEW as, NEW i3 PROVE Usable(K3(as, i3))
    <2>1. AlwaysUsable(LAMBDA h, i4 : K4(as, h, i4))
      BY <1>6, Zenon DEF AlwaysUsable
    <2> QED BY <2>1, ThenUsable
  <1> HIDE DEF K3
  <1>8. ASSUME NEW as, NEW i2 PROVE Usable(K2(as, i2))
    <2>1. AlwaysUsable(LAMBDA pad2, i3 : K3(as, i3))
      BY <1>7, Zenon DEF AlwaysUsable
    <2> QED BY <2>1, ThenUsable
  <1> HIDE DEF K2
  <1>9. ASSUME NEW i1 PROVE Usable(K1(i1))
    <2>1. AlwaysUsable(LAMBDA as, i2 : K2(as, i2))
      BY <1>8, Zenon DEF AlwaysUsable
    <2> QED BY <2>1, ThenUsable
  <1> HIDE DEF K1
  <1>10. ASSUME NEW v, NEW i0 PROVE Usable(K0(v, i0))
    <2>1. AlwaysUsable(LAMBDA pad1, i1 : K1(i1))
      BY <1>9, Zenon DEF AlwaysUsable
    <2>2. Usable(Then(get_bytes(b, i0, 3), LAMBDA pad1, i1 : K1(i1)))
      BY <2>1, ThenUsable
    <2> QED BY <1>2, <2>2
  <1> HIDE DEF K0
  <1>11. AlwaysUsable(LAMBDA version, i0 : K0(version, i0))
    BY <1>10, Zenon DEF AlwaysUsable
  <1>12. Usable(Then(get_u8(b, 0), LAMBDA version, i0 : K0(version, i0)))
    BY <1>11, ThenUsable
  <1> QED BY <1>1, <1>12, Zenon

\* If r is a message, and the message an OPEN, a session can use it.
UsableIfOpen(r) == r.code = "Ok" => (r.val.type = "Open" => UsableOpen(r.val.msg))
AlwaysUsableIfOpen(F(_, _)) == \A v, i : UsableIfOpen(F(v, i))

\* What goes on with whatever was read ends in a usable message.
LEMMA ThenUsableIfOpen ==
    ASSUME NEW F(_, _), NEW r, AlwaysUsableIfOpen(F)
    PROVE  UsableIfOpen(Then(r, F))
  <1>1. Then(r, F) = GoOn(r, F)
    BY ThenGoesOn
  <1>2. CASE r.code = "Ok"
    BY <1>1, <1>2 DEF GoOn, AlwaysUsableIfOpen
  <1>3. CASE r.code # "Ok"
    BY <1>1, <1>3 DEF GoOn, UsableIfOpen
  <1> QED BY <1>2, <1>3

\* Every OPEN comes from OpenMsg::decode.
LEMMA PayloadUsable ==
    ASSUME NEW h, NEW b, NEW peer
    PROVE  UsableIfOpen(Payload(h, b, peer))
  <1> DEFINE r == Body(h.msg_type, b, peer)
             F(v, k) == Ok([type |-> h.msg_type, msg |-> v], k + MIN_MSG_LEN)
  <1>1. Payload(h, b, peer) = Then(r, LAMBDA v, k : F(v, k))
    BY Zenon DEF Payload
  <1>2. CASE h.msg_type = "Open"
    <2>1. r = OpenMsg(b)
      BY <1>2 DEF Body
    <2>2. Usable(r)
      BY <2>1, OpenMsgUsable
    <2> HIDE DEF r
    <2>3. Then(r, LAMBDA v, k : F(v, k)) = GoOn(r, LAMBDA v, k : F(v, k))
      <3> HIDE DEF F
      <3> QED BY ThenGoesOn
    <2>4. CASE r.code = "Ok"
      <3>1. Payload(h, b, peer) = F(r.val, r.off)
        BY <1>1, <2>3, <2>4 DEF GoOn
      <3>2. F(r.val, r.off).val.msg = r.val
        BY DEF Ok
      <3>3. UsableOpen(r.val)
        BY <2>2, <2>4 DEF Usable
      <3> HIDE DEF F
      <3> QED BY <3>1, <3>2, <3>3 DEF UsableIfOpen
    <2>5. CASE r.code # "Ok"
      <3>1. Payload(h, b, peer) = r
        BY <1>1, <2>3, <2>5 DEF GoOn
      <3> QED BY <2>5, <3>1 DEF UsableIfOpen
    <2> QED BY <2>4, <2>5
  <1>3. CASE h.msg_type # "Open"
    <2>1. AlwaysUsableIfOpen(LAMBDA v, k : F(v, k))
      BY <1>3 DEF UsableIfOpen, Ok, AlwaysUsableIfOpen
    <2> HIDE DEF r, F
    <2>2. UsableIfOpen(Then(r, LAMBDA v, k : F(v, k)))
      BY <2>1, ThenUsableIfOpen
    <2> QED BY <1>1, <2>2, Zenon
  <1> QED BY <1>2, <1>3

\* Message::decode, whatever the buffer.
LEMMA DecodeUsable ==
    ASSUME NEW buf, NEW peer
    PROVE  UsableIfOpen(Decode(buf, peer))
  <1> DEFINE P(h, body, j) == Payload(h, body, peer)
             G(h, i) == IF Len(buf) < h.length THEN BufferTooShort ELSE
                        Then(get_bytes(buf, i, h.length), LAMBDA body, j : P(h, body, j))
  <1>1. UsableIfOpen(BufferTooShort)
    BY DEF UsableIfOpen, BufferTooShort, Err
  <1>2. Decode(buf, peer) = IF Len(buf) < MIN_MSG_LEN THEN BufferTooShort ELSE
                            Then(MessageHeader(buf), LAMBDA h, i : G(h, i))
    BY Zenon DEF Decode
  <1>3. \A h, body, j : UsableIfOpen(P(h, body, j))
    BY PayloadUsable
  <1> HIDE DEF P
  <1>4. ASSUME NEW h, NEW i PROVE UsableIfOpen(G(h, i))
    <2>1. AlwaysUsableIfOpen(LAMBDA body, j : P(h, body, j))
      BY <1>3, Zenon DEF AlwaysUsableIfOpen
    <2>2. UsableIfOpen(Then(get_bytes(buf, i, h.length), LAMBDA body, j : P(h, body, j)))
      BY <2>1, ThenUsableIfOpen
    <2> QED BY <1>1, <2>2
  <1> HIDE DEF G
  <1>5. AlwaysUsableIfOpen(LAMBDA h, i : G(h, i))
    BY <1>4, Zenon DEF AlwaysUsableIfOpen
  <1>6. UsableIfOpen(Then(MessageHeader(buf), LAMBDA h, i : G(h, i)))
    BY <1>5, ThenUsableIfOpen
  <1> QED BY <1>1, <1>2, <1>6

\* Whatever the octets of a buffer, an OPEN that Message::decode returns from
\* it has a hold time and an identifier that a session may negotiate with.
THEOREM OpensAreUsable == Spec => []AcceptedOpenIsUsable
  <1>1. ResultOfInput => AcceptedOpenIsUsable
    <2> SUFFICES ASSUME ResultOfInput, result.code = "Ok", input.of \in {"open", "cut"}
                 PROVE  result.val.type = "Open" => UsableOpen(result.val.msg)
      BY DEF AcceptedOpenIsUsable, UsableOpen
    <2>1. result # Undecoded
      <3>1. Undecoded.code = "Undecoded"
        BY DEF Undecoded, Err
      <3> QED BY <3>1
    <2>2. result = Result
      BY <2>1 DEF ResultOfInput
    <2>3. \E buf, peer : Result = Decode(buf, peer)
      <3>1. CASE input.of = "open"
        BY <3>1 DEF Result
      <3>2. CASE input.of = "cut"
        BY <3>2 DEF Result
      <3> QED BY <3>1, <3>2
    <2>4. UsableIfOpen(result)
      BY <2>2, <2>3, DecodeUsable
    <2> QED BY <2>4 DEF UsableIfOpen
  <1> QED BY <1>1, ResultInvariance, PTL

(***************************************************************************)
(* Frames                                                                  *)
(***************************************************************************)
\* n octets.
Sized(s, n) == n \in Nat /\ s \in Seq(Octet) /\ Len(s) = n

\* The m octets of s, and the n of t behind them.
Joined(u, s, m, t, n) ==
    /\ Sized(u, m + n)
    /\ \A i \in 1 .. m : u[i] = s[i]
    /\ \A i \in 1 .. n : u[m + i] = t[i]

\* What a concatenation holds.
LEMMA Behind ==
    ASSUME NEW s, NEW t, NEW m, NEW n, Sized(s, m), Sized(t, n)
    PROVE  Joined(s \o t, s, m, t, n)
  <1> DEFINE u == s \o t
  <1>0. s \in Seq(Octet) /\ t \in Seq(Octet) /\ m = Len(s) /\ n = Len(t)
    BY DEF Sized
  <1>1. /\ u \in Seq(Octet) /\ Len(u) = Len(s) + Len(t)
        /\ \A i \in 1 .. Len(s) + Len(t) : u[i] = IF i <= Len(s) THEN s[i] ELSE t[i - Len(s)]
    BY <1>0, ConcatProperties
  <1>2. m \in Nat /\ n \in Nat
    BY DEF Sized
  <1> HIDE DEF u
  <1>3. u \in Seq(Octet) /\ Len(u) = m + n
    BY <1>0, <1>1
  <1>4. \A i \in 1 .. m + n : u[i] = IF i <= m THEN s[i] ELSE t[i - m]
    BY <1>0, <1>1
  <1>5. ASSUME NEW i \in 1 .. m PROVE u[i] = s[i]
    BY <1>2, <1>4
  <1>6. ASSUME NEW i \in 1 .. n PROVE u[m + i] = t[i]
    <2>1. m + i \in 1 .. m + n /\ ~(m + i <= m) /\ (m + i) - m = i
      BY <1>2
    <2> QED BY <1>4, <2>1
  <1>7. Sized(u, m + n)
    BY <1>2, <1>3 DEF Sized
  <1> QED BY <1>5, <1>6, <1>7 DEF u, Joined

\* Few octets.
LEMMA FewOctets ==
    /\ \A a \in Octet : Sized(<<a>>, 1)
    /\ \A a, b \in Octet : Sized(<<a, b>>, 2)
    /\ \A a, b, c, d \in Octet : Sized(<<a, b, c, d>>, 4)
  BY DEF Sized

\* A number of two octets.
LEMMA U16Octets ==
    ASSUME NEW n \in Nat, n <= 65535
    PROVE  /\ Sized(U16(n), 2)
           /\ U16(n)[1] \in Octet /\ U16(n)[2] \in Octet
           /\ 256 * U16(n)[1] + U16(n)[2] = n
  <1> DEFINE h == n \div 256
             l == n % 256
  <1>1. h \in Octet /\ l \in Octet /\ 256 * h + l = n
    BY DEF Octet
  <1> HIDE DEF h, l
  <1>2. U16(n) = <<h, l>>
    BY DEF U16, h, l
  <1>3. <<h, l>>[1] = h /\ <<h, l>>[2] = l
    OBVIOUS
  <1>4. Sized(<<h, l>>, 2)
    BY <1>1, FewOctets
  <1> QED BY <1>1, <1>2, <1>3, <1>4

\* The octets of a message with a body of n octets, and of what follows it.
Framed(b, t, body, n, rest, k) ==
    /\ Sized(b, 19 + n + k)
    /\ \A i \in 1 .. 16 : b[i] = 1
    /\ 256 * b[17] + b[18] = 19 + n /\ b[19] = t
    /\ \A i \in 1 .. n : b[19 + i] = body[i]
    /\ \A i \in 1 .. k : b[19 + n + i] = rest[i]

\* A frame and what follows it.
LEMMA FrameOctets ==
    ASSUME NEW t \in Octet, NEW body, NEW rest, NEW n, NEW k,
           Sized(body, n), Sized(rest, k), n <= 65516
    PROVE  /\ Framed(Frame(t, body) \o rest, t, body, n, rest, k)
           /\ Sized(Frame(t, body), 19 + n)
  <1> DEFINE u == U16(19 + n)
             q1 == MARKER \o u
             q2 == q1 \o <<t>>
             q3 == q2 \o body
             b == q3 \o rest
  <1>1. n \in Nat /\ 19 + n \in Nat /\ 19 + n <= 65535 /\ k \in Nat
    BY DEF Sized
  <1>2. Sized(u, 2) /\ 256 * u[1] + u[2] = 19 + n
    BY <1>1, U16Octets
  <1>3. Frame(t, body) \o rest = b /\ Frame(t, body) = q3
    <2>1. Len(body) = n
      BY DEF Sized
    <2> QED BY <2>1 DEF Frame, MIN_MSG_LEN
  <1> HIDE DEF u
  <1>4. Sized(MARKER, 16) /\ \A i \in 1 .. 16 : MARKER[i] = 1
    BY DEF MARKER, Octet, Sized
  <1>5. /\ Sized(q1, 18) /\ \A i \in 1 .. 16 : q1[i] = MARKER[i]
        /\ \A i \in 1 .. 2 : q1[16 + i] = u[i]
    <2>1. Joined(q1, MARKER, 16, u, 2)
      BY <1>2, <1>4, Behind
    <2> HIDE DEF q1
    <2> QED BY <2>1 DEF Joined
  <1> HIDE DEF q1
  <1>6. /\ Sized(q2, 19) /\ \A i \in 1 .. 18 : q2[i] = q1[i]
        /\ \A i \in 1 .. 1 : q2[18 + i] = <<t>>[i]
    <2> DEFINE w == <<t>>
    <2>1. Sized(w, 1)
      BY FewOctets
    <2> HIDE DEF w
    <2>2. Joined(q1 \o w, q1, 18, w, 1)
      BY <1>5, <2>1, Behind
    <2>3. q2 = q1 \o w
      BY DEF w
    <2> HIDE DEF q2
    <2>4. Joined(q2, q1, 18, w, 1)
      BY <2>2, <2>3
    <2>5. /\ Sized(q2, 19) /\ \A i \in 1 .. 18 : q2[i] = q1[i]
          /\ \A i \in 1 .. 1 : q2[18 + i] = w[i]
      BY <2>4 DEF Joined
    <2> QED BY <2>5 DEF w
  <1>7. <<t>>[1] = t
    OBVIOUS
  <1> HIDE DEF q2
  <1>8. /\ Sized(q3, 19 + n) /\ \A i \in 1 .. 19 : q3[i] = q2[i]
        /\ \A i \in 1 .. n : q3[19 + i] = body[i]
    <2>1. Joined(q3, q2, 19, body, n)
      BY <1>6, Behind
    <2> HIDE DEF q3
    <2> QED BY <2>1 DEF Joined
  <1> HIDE DEF q3
  <1>9. /\ Sized(b, 19 + n + k) /\ \A i \in 1 .. 19 + n : b[i] = q3[i]
        /\ \A i \in 1 .. k : b[19 + n + i] = rest[i]
    <2>1. Joined(b, q3, 19 + n, rest, k)
      BY <1>8, Behind
    <2> HIDE DEF b
    <2> QED BY <2>1 DEF Joined
  <1> HIDE DEF b
  <1>10. Sized(q3, 19 + n)
    BY <1>8
  <1>11. ASSUME NEW i \in 1 .. 19 PROVE b[i] = q2[i]
    BY <1>1, <1>8, <1>9
  <1>12. ASSUME NEW i \in 1 .. 16 PROVE b[i] = 1
    BY <1>4, <1>5, <1>6, <1>11
  <1>13. b[17] = u[1] /\ b[18] = u[2] /\ b[19] = t
    <2>1. q2[17] = q1[17] /\ q2[18] = q1[18] /\ q2[18 + 1] = t
      BY <1>6, <1>7
    <2>2. q1[16 + 1] = u[1] /\ q1[16 + 2] = u[2]
      BY <1>5
    <2> QED BY <1>11, <2>1, <2>2
  <1>14. ASSUME NEW i \in 1 .. n PROVE b[19 + i] = body[i]
    <2>1. 19 + i \in 1 .. 19 + n
      BY <1>1
    <2> QED BY <1>8, <1>9, <2>1
  <1>15. 256 * b[17] + b[18] = 19 + n
    BY <1>2, <1>13
  <1>16. Framed(b, t, body, n, rest, k)
    BY <1>9, <1>12, <1>13, <1>14, <1>15 DEF Framed
  <1> QED BY <1>3, <1>10, <1>16

\* The slice of l octets behind a header.
Slice(b, l) == SubSeq(b, 20, 19 + l)

\* What the slice behind a header holds.
LEMMA SliceOctets ==
    ASSUME NEW b, NEW m, NEW l \in Nat, Sized(b, m), 19 + l <= m
    PROVE  Sized(Slice(b, l), l) /\ \A i \in 1 .. l : Slice(b, l)[i] = b[19 + i]
  <1> DEFINE q == 19 + l
             s == SubSeq(b, 20, q)
  <1>1. b \in Seq(Octet) /\ Len(b) = m /\ m \in Nat
    BY DEF Sized
  <1>2. \A i \in 20 .. q : b[i] \in Octet
    <2>1. \A i \in 1 .. Len(b) : b[i] \in Octet
      BY <1>1, ElementOfSeq
    <2>2. \A i \in 20 .. q : i \in 1 .. Len(b)
      BY <1>1
    <2> QED BY <2>1, <2>2
  <1>3. q \in Int /\ (IF 20 <= q THEN q - 20 + 1 ELSE 0) = l /\ q - 20 + 1 = l
    OBVIOUS
  <1>4. Slice(b, l) = s
    BY DEF Slice
  <1> HIDE DEF q
  <1>5. /\ s \in Seq(Octet) /\ Len(s) = IF 20 <= q THEN q - 20 + 1 ELSE 0
        /\ \A i \in 1 .. q - 20 + 1 : s[i] = b[20 + i - 1]
    <2> HIDE DEF Octet
    <2> QED BY <1>2, <1>3, SubSeqProperties
  <1> HIDE DEF s
  <1>6. Sized(s, l)
    BY <1>3, <1>5 DEF Sized
  <1>7. ASSUME NEW i \in 1 .. l PROVE s[i] = b[19 + i]
    <2>1. 20 + i - 1 = 19 + i
      OBVIOUS
    <2>2. s[i] = b[20 + i - 1]
      BY <1>3, <1>5
    <2> QED BY <2>1, <2>2
  <1> QED BY <1>4, <1>6, <1>7

\* The marker of a frame.
LEMMA MarkerRead ==
    ASSUME NEW b, \A i \in 1 .. 16 : b[i] = 1
    PROVE  SubSeq(b, 1, 16) = MARKER
  <1> DEFINE q == SubSeq(b, 1, 16)
  <1>1. \A i \in 1 .. 16 : b[i] \in Octet
    BY DEF Octet
  <1>2. /\ q \in Seq(Octet) /\ Len(q) = IF 1 <= 16 THEN 16 - 1 + 1 ELSE 0
        /\ \A i \in 1 .. 16 - 1 + 1 : q[i] = b[1 + i - 1]
    <2> HIDE DEF Octet
    <2> QED BY <1>1, SubSeqProperties
  <1> HIDE DEF q
  <1>3. q \in Seq(Octet) /\ Len(q) = 16
    BY <1>2
  <1>4. ASSUME NEW i \in 1 .. 16 PROVE q[i] = 1
    <2>1. 1 + i - 1 = i /\ i \in 1 .. 16 - 1 + 1
      OBVIOUS
    <2>2. q[i] = b[1 + i - 1]
      BY <1>2, <2>1
    <2>3. b[i] = 1
      OBVIOUS
    <2> QED BY <2>1, <2>2, <2>3
  <1>5. MARKER \in Seq(Octet) /\ Len(MARKER) = 16 /\ \A i \in 1 .. 16 : MARKER[i] = 1
    BY DEF MARKER, Octet
  <1>6. q = MARKER
    <2>1. Len(q) = Len(MARKER) /\ \A i \in 1 .. Len(q) : q[i] = MARKER[i]
      BY <1>3, <1>4, <1>5
    <2> HIDE DEF Octet
    <2> QED BY <1>3, <1>5, <2>1, SeqEqual
  <1> QED BY <1>6 DEF q

\* The header of a frame.
HeaderSays(t, n) == [length |-> 19 + n, msg_type |-> MsgType[t]]

\* Message::decode of a frame is the decoder of its type, on the slice, once
\* there are as many octets behind the header as the whole frame is long.
FramedIs(b, t, n, k, peer) ==
    Decode(b, peer) = IF k < 19 THEN BufferTooShort
                      ELSE Payload(HeaderSays(t, n), Slice(b, 19 + n), peer)

LEMMA FramedDecodes ==
    ASSUME NEW t \in 1 .. 4, NEW body, NEW rest, NEW n \in Nat, NEW k \in Nat, NEW peer, NEW b,
           Framed(b, t, body, n, rest, k), ~BadLength(t, 19 + n)
    PROVE  FramedIs(b, t, n, k, peer)
  <1> DEFINE l == 19 + n
             H == MessageHeader(b)
             h == HeaderSays(t, n)
  <1>1. /\ Sized(b, 19 + n + k)
        /\ \A i \in 1 .. 16 : b[i] = 1
        /\ 256 * b[17] + b[18] = l /\ b[19] = t
    BY DEF Framed
  <1>2. l \in Nat /\ 19 + n + k >= 19 /\ (19 + n + k < 19 + l <=> k < 19)
    OBVIOUS
  <1> HIDE DEF l
  <1>3. b \in Seq(0..255) /\ Len(b) = 19 + n + k
    BY <1>1 DEF Sized, Octet
  <1>4. H = HeaderOf(SubSeq(b, 1, 16), 256 * b[17] + b[18], b[19])
    BY <1>2, <1>3, HeaderOfOctets
  <1>5. SubSeq(b, 1, 16) = MARKER
    BY <1>1, MarkerRead
  <1>6. H = TypeAndLength(t, l, 19)
    BY <1>1, <1>4, <1>5 DEF HeaderOf
  <1> HIDE DEF H
  <1>7. h = [length |-> l, msg_type |-> MsgType[t]]
    BY DEF l, HeaderSays
  <1>8. H = Ok(h, 19)
    <2>1. ~BadLength(t, l)
      BY DEF l
    <2> QED BY <1>6, <1>7, <2>1 DEF TypeAndLength
  <1>9. h.length = l
    BY <1>7
  <1> HIDE DEF h
  <1>10. H.code = "Ok" /\ H.val = h
    BY <1>8 DEF Ok
  <1>11. H.code = "Ok" =>
            Decode(b, peer) = IF Len(b) < 19 + H.val.length THEN BufferTooShort
                              ELSE Payload(H.val, SubSeq(b, 20, 19 + H.val.length), peer)
    BY <1>2, <1>3, DecodeByHeader DEF H
  <1>12. Decode(b, peer) = IF k < 19 THEN BufferTooShort
                           ELSE Payload(h, SubSeq(b, 20, 19 + l), peer)
    BY <1>2, <1>3, <1>9, <1>10, <1>11
  <1> QED BY <1>12 DEF h, l, Slice, FramedIs

(***************************************************************************)
(* Lists                                                                   *)
(***************************************************************************)
\* FlattenSeq as a recursion on the number of sequences.
LEMMA FlattenSteps ==
    ASSUME NEW es, Len(es) \in Nat, Len(es) # 0
    PROVE  \E f : /\ FlattenSeq(es) = f[Len(es)]
                  /\ f[1] = es[1]
                  /\ \A k \in 2 .. Len(es) : f[k] = f[k - 1] \o es[k]
  <1> DEFINE N == Len(es)
             I == 1 .. N
             Def(g, i) == IF i = 1 THEN es[i] ELSE g[i-1] \o es[i]
             f == CHOOSE g : g = [i \in I |-> Def(g, i)]
             More(r, n) == r \o es[n + 1]
             first == es[1]
             c == CHOOSE h : h = [n \in Nat |-> IF n = 0 THEN first ELSE More(h[n-1], n)]
             e == [i \in I |-> c[i-1]]
  <1>1. FlattenSeq(es) = f[N]
    BY Zenon DEF FlattenSeq
  <1>2. NatInductiveDefConclusion(c, first, More)
    <2>1. NatInductiveDefHypothesis(c, first, More)
      BY Zenon DEF NatInductiveDefHypothesis
    <2> HIDE DEF c, first, More
    <2> QED BY <2>1, NatInductiveDef
  <1>3. \A n \in Nat : c[n] = IF n = 0 THEN first ELSE More(c[n-1], n)
    <2> HIDE DEF c, first, More
    <2> QED BY <1>2 DEF NatInductiveDefConclusion
  <1> HIDE DEF c
  <1>4. \A i \in I : e[i] = Def(e, i)
    <2> SUFFICES ASSUME NEW i \in I PROVE c[i-1] = Def(e, i)
      OBVIOUS
    <2>1. CASE i = 1
      BY <1>3, <2>1
    <2>2. CASE i # 1
      <3>1. i - 1 \in Nat /\ i - 1 # 0 /\ i - 1 \in I /\ (i - 1) + 1 = i
        BY <2>2
      <3>2. c[i-1] = c[(i-1)-1] \o es[(i-1)+1]
        BY <1>3, <3>1
      <3>3. e[i-1] = c[(i-1)-1]
        BY <3>1
      <3> HIDE DEF e
      <3> QED BY <2>2, <3>1, <3>2, <3>3
    <2> QED BY <2>1, <2>2
  <1>5. e = [i \in I |-> Def(e, i)]
    <2> DEFINE d == [i \in I |-> Def(e, i)]
    <2>1. e = [i \in I |-> e[i]]
      OBVIOUS
    <2> HIDE DEF e, Def
    <2> QED BY <1>4, <2>1
  <1>6. f = [i \in I |-> Def(f, i)]
    <2> HIDE DEF e, Def
    <2>1. \E g : g = [i \in I |-> Def(g, i)]
      BY <1>5
    <2> QED BY <2>1, Zenon
  <1> HIDE DEF f
  <1>7. \A i \in I : f[i] = Def(f, i)
    <2> HIDE DEF Def
    <2> QED BY <1>6
  <1>8. f[1] = es[1] /\ \A k \in 2 .. N : f[k] = f[k - 1] \o es[k]
    <2>1. 1 \in I /\ \A k \in 2 .. N : k \in I /\ k # 1
      OBVIOUS
    <2> QED BY <1>7, <2>1
  <1> QED BY <1>1, <1>8

\* b holds the n octets of s behind its first i.
Holds(b, i, s, n) == \A j \in 1 .. n : b[i + j] = s[j]

\* w is laid out as the sequences es one behind the other, the k-th of them
\* up to o[k].
Rows(w, es, o) ==
    /\ w \in Seq(Octet)
    /\ o \in [0 .. Len(es) -> 0 .. Len(w)]
    /\ o[0] = 0 /\ o[Len(es)] = Len(w)
    /\ \A k \in 1 .. Len(es) : o[k] = o[k - 1] + Len(es[k]) /\ Holds(w, o[k - 1], es[k], Len(es[k]))

\* So is what FlattenSeq makes of them.
LEMMA FlattenRows ==
    ASSUME NEW es \in Seq(Seq(Octet))
    PROVE  \E o : Rows(FlattenSeq(es), es, o)
  <1> DEFINE N == Len(es)
             w == FlattenSeq(es)
  <1>1. N \in Nat /\ \A k \in 1 .. N : es[k] \in Seq(Octet)
    BY LenProperties, ElementOfSeq
  <1>2. CASE N = 0
    <2> DEFINE o == [k \in {0} |-> 0]
    <2>1. w = es
      BY <1>2 DEF FlattenSeq
    <2>2. es = <<>>
      BY <1>2, EmptySeq
    <2>3. w \in Seq(Octet) /\ Len(w) = 0
      BY <2>1, <2>2
    <2> HIDE DEF w
    <2>4. 0 .. N = {0} /\ 0 .. Len(w) = {0} /\ 1 .. N = {}
      BY <1>2, <2>3
    <2>5. o \in [{0} -> {0}] /\ o[0] = 0
      OBVIOUS
    <2> HIDE DEF o
    <2>6. Rows(w, es, o)
      BY <1>2, <2>3, <2>4, <2>5 DEF Rows
    <2> QED BY <2>6 DEF w
  <1>3. CASE N # 0
    <2>1. PICK f : /\ w = f[N] /\ f[1] = es[1]
                   /\ \A k \in 2 .. N : f[k] = f[k - 1] \o es[k]
      BY <1>1, <1>3, FlattenSteps
    <2> DEFINE T == {n \in Nat : n + 1 <= N => f[n + 1] \in Seq(Octet)}
    <2>2. \A k \in 1 .. N : f[k] \in Seq(Octet)
      <3>1. 0 \in T
        BY <1>1, <1>3, <2>1
      <3>2. ASSUME NEW n \in Nat, n \in T PROVE n + 1 \in T
        <4> SUFFICES ASSUME (n + 1) + 1 <= N PROVE f[(n + 1) + 1] \in Seq(Octet)
          OBVIOUS
        <4>1. (n + 1) + 1 \in 2 .. N /\ ((n + 1) + 1) - 1 = n + 1 /\ n + 1 <= N
          BY <1>1
        <4>2. f[(n + 1) + 1] = f[n + 1] \o es[(n + 1) + 1]
          BY <2>1, <4>1
        <4>3. f[n + 1] \in Seq(Octet) /\ es[(n + 1) + 1] \in Seq(Octet)
          BY <1>1, <3>2, <4>1
        <4> QED BY <4>2, <4>3, ConcatProperties
      <3>3. \A n \in Nat : n \in T
        <4> HIDE DEF T
        <4> QED BY <3>1, <3>2, SetInduction
      <3> TAKE k \in 1 .. N
      <3>4. k - 1 \in Nat /\ (k - 1) + 1 = k /\ k <= N
        BY <1>1
      <3> QED BY <3>3, <3>4
    <2>3. ASSUME NEW k \in 2 .. N
          PROVE  /\ Len(f[k]) = Len(f[k - 1]) + Len(es[k])
                 /\ \A i \in 1 .. Len(f[k - 1]) : f[k][i] = f[k - 1][i]
                 /\ Holds(f[k], Len(f[k - 1]), es[k], Len(es[k]))
      <3> DEFINE s == f[k - 1]
                 t == es[k]
                 u == f[k]
                 m == Len(s)
                 n == Len(t)
      <3>1. s \in Seq(Octet) /\ t \in Seq(Octet) /\ u = s \o t
        <4>1. k - 1 \in 1 .. N /\ k \in 1 .. N
          BY <1>1
        <4> QED BY <1>1, <2>1, <2>2, <4>1
      <3> HIDE DEF s, t, u
      <3>2. m \in Nat /\ n \in Nat
        BY <3>1, LenProperties
      <3>3. Sized(s, m) /\ Sized(t, n)
        BY <3>1, <3>2 DEF Sized
      <3> HIDE DEF m, n
      <3>4. Joined(u, s, m, t, n)
        BY <3>1, <3>3, Behind
      <3>5. Len(u) = m + n /\ (\A i \in 1 .. m : u[i] = s[i]) /\ Holds(u, m, t, n)
        BY <3>4 DEF Joined, Sized, Holds
      <3> QED BY <3>5 DEF s, t, u, m, n
    <2> HIDE DEF w
    <2> DEFINE o == [k \in 0 .. N |-> IF k = 0 THEN 0 ELSE Len(f[k])]
               G == {d \in Nat : \A k \in 1 .. N : k + d <= N =>
                       /\ Len(f[k]) <= Len(f[k + d])
                       /\ \A i \in 1 .. Len(f[k]) : f[k + d][i] = f[k][i]}
    <2>4. \A k \in 1 .. N : Len(f[k]) \in Nat
      BY <2>2, LenProperties
    <2>5. \A d \in Nat : d \in G
      <3>1. 0 \in G
        <4>1. \A k \in 1 .. N : k + 0 = k /\ Len(f[k]) <= Len(f[k])
          BY <2>4
        <4> QED BY <4>1
      <3>2. ASSUME NEW d \in Nat, d \in G PROVE d + 1 \in G
        <4> SUFFICES ASSUME NEW k \in 1 .. N, k + (d + 1) <= N
                     PROVE  /\ Len(f[k]) <= Len(f[k + (d + 1)])
                            /\ \A i \in 1 .. Len(f[k]) : f[k + (d + 1)][i] = f[k][i]
          OBVIOUS
        <4> DEFINE p == k + d
                   q == k + (d + 1)
        <4>1. q \in 2 .. N /\ q - 1 = p /\ p \in 1 .. N /\ p <= N /\ q \in 1 .. N
          BY <1>1
        <4>2. Len(f[k]) <= Len(f[p]) /\ \A i \in 1 .. Len(f[k]) : f[p][i] = f[k][i]
          BY <3>2, <4>1
        <4> HIDE DEF p, q
        <4>3. Len(f[q]) = Len(f[p]) + Len(es[q]) /\ \A i \in 1 .. Len(f[p]) : f[q][i] = f[p][i]
          BY <2>3, <4>1
        <4>4. Len(es[q]) \in Nat /\ Len(f[p]) \in Nat /\ Len(f[k]) \in Nat
          BY <1>1, <2>4, <4>1, LenProperties
        <4>5. Len(f[k]) <= Len(f[q])
          <5>1. \A x, y, z \in Nat : x <= y => x <= y + z
            OBVIOUS
          <5> QED BY <4>2, <4>3, <4>4, <5>1, Zenon
        <4>6. \A i \in 1 .. Len(f[k]) : i \in 1 .. Len(f[p])
          BY <4>2, <4>4
        <4>7. \A i \in 1 .. Len(f[k]) : f[q][i] = f[k][i]
          BY <4>2, <4>3, <4>6
        <4> QED BY <4>5, <4>7 DEF q
      <3> HIDE DEF G
      <3> QED BY <3>1, <3>2, SetInduction
    <2>6. ASSUME NEW k \in 1 .. N
          PROVE  Len(f[k]) <= Len(w) /\ \A i \in 1 .. Len(f[k]) : w[i] = f[k][i]
      <3>1. N - k \in Nat /\ k + (N - k) = N /\ k + (N - k) <= N
        BY <1>1
      <3>2. N - k \in G
        BY <2>5, <3>1
      <3>3. /\ Len(f[k]) <= Len(f[k + (N - k)])
            /\ \A i \in 1 .. Len(f[k]) : f[k + (N - k)][i] = f[k][i]
        BY <3>1, <3>2
      <3> QED BY <2>1, <3>1, <3>3
    <2> HIDE DEF G
    <2>7. w \in Seq(Octet) /\ Len(w) \in Nat
      BY <1>1, <1>3, <2>1, <2>2, <2>4
    <2>8. o \in [0 .. N -> 0 .. Len(w)] /\ o[0] = 0 /\ o[N] = Len(w)
      <3>1. \A k \in 0 .. N : (IF k = 0 THEN 0 ELSE Len(f[k])) \in 0 .. Len(w)
        <4> TAKE k \in 0 .. N
        <4>1. CASE k = 0
          BY <2>7, <4>1
        <4>2. CASE k # 0
          <5>1. k \in 1 .. N
            BY <1>1, <4>2
          <5> QED BY <2>4, <2>6, <2>7, <4>2, <5>1
        <4> QED BY <4>1, <4>2
      <3>2. 0 \in 0 .. N /\ N \in 0 .. N
        BY <1>1
      <3> QED BY <1>3, <2>1, <3>1, <3>2
    <2>9. ASSUME NEW k \in 1 .. N
          PROVE  o[k] = o[k - 1] + Len(es[k]) /\ Holds(w, o[k - 1], es[k], Len(es[k]))
      <3>1. k \in 0 .. N /\ k # 0 /\ k - 1 \in 0 .. N
        BY <1>1
      <3>2. o[k] = Len(f[k]) /\ o[k - 1] = IF k - 1 = 0 THEN 0 ELSE Len(f[k - 1])
        BY <3>1
      <3> HIDE DEF o
      <3>3. Len(es[k]) \in Nat
        BY <1>1, LenProperties
      <3>4. CASE k = 1
        <4>1. o[k - 1] = 0 /\ o[k] = Len(es[k]) /\ f[k] = es[k]
          BY <2>1, <3>2, <3>4
        <4>2. \A j \in 1 .. Len(es[k]) : 0 + j = j /\ w[j] = es[k][j]
          BY <2>6, <4>1
        <4>3. Holds(w, 0, es[k], Len(es[k]))
          BY <4>2 DEF Holds
        <4> QED BY <3>3, <4>1, <4>3
      <3>5. CASE k # 1
        <4> DEFINE m == Len(f[k - 1])
                   n == Len(es[k])
        <4>1. k \in 2 .. N /\ k - 1 \in 1 .. N /\ k - 1 # 0
          BY <1>1, <3>5
        <4>2. Len(f[k]) = m + n /\ Holds(f[k], m, es[k], n)
          BY <2>3, <4>1
        <4>3. m \in Nat /\ n \in Nat /\ o[k - 1] = m
          BY <2>4, <3>2, <3>3, <4>1
        <4> HIDE DEF m, n
        <4>4. \A j \in 1 .. n : m + j \in 1 .. Len(f[k])
          BY <4>2, <4>3
        <4>5. \A i \in 1 .. Len(f[k]) : w[i] = f[k][i]
          BY <2>6
        <4>6. Holds(w, m, es[k], n)
          BY <4>2, <4>4, <4>5 DEF Holds
        <4>7. o[k] = o[k - 1] + n /\ Holds(w, o[k - 1], es[k], n)
          BY <3>2, <4>2, <4>3, <4>6
        <4> QED BY <4>7 DEF n
      <3> QED BY <3>4, <3>5
    <2> HIDE DEF o
    <2>10. Rows(w, es, o)
      BY <2>7, <2>8, <2>9 DEF Rows
    <2> QED BY <2>10 DEF w
  <1> QED BY <1>2, <1>3

\* What a loop over the octets of b yields that starts behind o[k], if each turn
\* reads the values of v in their order.
LoopReads(r, v, k, n, last) ==
    /\ r.code = "Ok" /\ r.off = last
    /\ Len(r.val) = n - k
    /\ \A j \in 1 .. n - k : r.val[j] = v[k + j]

\* Each turn starts where the one before it ended.
Turns(b, D(_, _), v, o, n) ==
    \A k \in 1 .. n : /\ o[k - 1] < o[k]
                      /\ D(b, o[k - 1]) = Ok(v[k], o[k])

\* A loop reads what its turns read.
LEMMA AllReads ==
    ASSUME NEW b \in Seq(Octet), NEW D(_, _), Progresses(b, D), NEW n \in Nat,
           NEW o \in [0 .. n -> 0 .. Len(b)], o[n] = Len(b), NEW v, Turns(b, D, v, o, n)
    PROVE  LoopReads(All(b, o[0], D), v, 0, n, Len(b))
  <1> DEFINE N == Len(b)
             V == {v[k] : k \in 1 .. n}
             Good(k) == All(b, o[k], D).val \in Seq(V) /\ LoopReads(All(b, o[k], D), v, k, n, N)
             T == {d \in Nat : d <= n => Good(n - d)}
  <1>1. N \in Nat
    BY LenProperties
  <1>2. /\ All(b, N, D) = Ok(<<>>, N)
        /\ \A k \in 0 .. N - 1 :
             All(b, k, D) = IF D(b, k).code = "Ok"
                            THEN Prepend(D(b, k).val, All(b, D(b, k).off, D))
                            ELSE D(b, k)
    <2>1. Unrolls(b, D)
      BY AllStep
    <2> QED BY <2>1 DEF Unrolls
  <1>3. 0 \in T
    <2> DEFINE r == All(b, o[n], D)
    <2>1. r = Ok(<<>>, N)
      BY <1>2
    <2> HIDE DEF r
    <2>2. r.code = "Ok" /\ r.off = N /\ r.val = <<>>
      BY <2>1 DEF Ok
    <2>3. <<>> \in Seq(V) /\ Len(<<>>) = 0 /\ n - n = 0 /\ 1 .. n - n = {}
      <3> HIDE DEF V
      <3> QED OBVIOUS
    <2> HIDE DEF V
    <2>4. LoopReads(r, v, n, n, N)
      BY <2>2, <2>3 DEF LoopReads
    <2>5. Good(n)
      BY <2>2, <2>3, <2>4 DEF r
    <2>6. n - 0 = n
      OBVIOUS
    <2> HIDE DEF Good
    <2> QED BY <2>5, <2>6
  <1>4. ASSUME NEW d \in Nat, d \in T PROVE d + 1 \in T
    <2> SUFFICES ASSUME d + 1 <= n PROVE Good(n - (d + 1))
      <3> HIDE DEF Good
      <3> QED OBVIOUS
    <2> DEFINE k == n - d
               j == n - (d + 1)
    <2>1. k \in 1 .. n /\ k - 1 = j /\ d <= n /\ j \in 0 .. n /\ k \in 0 .. n
      OBVIOUS
    <2>2. Good(k)
      <3> HIDE DEF Good
      <3> QED BY <1>4, <2>1
    <2> HIDE DEF k, j
    <2>3. o[j] < o[k] /\ D(b, o[j]) = Ok(v[k], o[k])
      BY <2>1 DEF Turns
    <2> DEFINE r == All(b, o[k], D)
               q == All(b, o[j], D)
               x == v[k]
    <2>4. o[j] \in 0 .. N - 1
      <3>1. o[j] \in 0 .. N /\ o[k] \in 0 .. N
        BY <2>1
      <3> QED BY <1>1, <2>3, <3>1
    <2>5. q = Prepend(x, r)
      <3> DEFINE t == D(b, o[j])
      <3>1. q = IF t.code = "Ok" THEN Prepend(t.val, All(b, t.off, D)) ELSE t
        BY <1>2, <2>4
      <3>2. t = Ok(x, o[k])
        BY <2>3
      <3> HIDE DEF t, q, x
      <3>3. t.code = "Ok" /\ t.val = x /\ t.off = o[k]
        BY <3>2 DEF Ok
      <3> QED BY <3>1, <3>3
    <2>6. /\ r.val \in Seq(V) /\ r.code = "Ok" /\ r.off = N
          /\ Len(r.val) = n - k
          /\ \A i \in 1 .. n - k : r.val[i] = v[k + i]
      BY <2>2 DEF LoopReads
    <2>7. x \in V
      BY <2>1
    <2> HIDE DEF r, q, V
    <2>8. q = Ok(<<x>> \o r.val, N)
      BY <2>5, <2>6, PrependOff
    <2> DEFINE e == <<x>>
               s == r.val
               u == e \o s
    <2>9. e \in Seq(V) /\ Len(e) = 1 /\ e[1] = x
      <3> HIDE DEF x
      <3> QED BY <2>7
    <2> HIDE DEF e, s
    <2>10. s \in Seq(V)
      BY <2>6 DEF s
    <2>11. /\ u \in Seq(V) /\ Len(u) = Len(e) + Len(s)
           /\ \A i \in 1 .. Len(e) + Len(s) : u[i] = IF i <= Len(e) THEN e[i] ELSE s[i - Len(e)]
      BY <2>9, <2>10, ConcatProperties, Zenon
    <2> HIDE DEF u
    <2>12. q.code = "Ok" /\ q.off = N /\ q.val = u
      <3>1. q = Ok(u, N)
        BY <2>8 DEF u, e, s
      <3> QED BY <3>1 DEF Ok
    <2>13. Len(s) = n - k /\ n - j = 1 + (n - k) /\ n - k \in Nat /\ k = j + 1
      <3>1. Len(s) = n - k
        BY <2>6 DEF s
      <3>2. n - j = 1 + (n - k) /\ n - k \in Nat /\ k = j + 1
        BY <2>1
      <3> QED BY <3>1, <3>2
    <2>14. Len(u) = n - j
      BY <2>9, <2>11, <2>13
    <2>15. ASSUME NEW i \in 1 .. n - j PROVE u[i] = v[j + i]
      <3>1. i \in 1 .. Len(e) + Len(s)
        BY <2>9, <2>13
      <3>2. CASE i = 1
        <4>1. u[i] = x
          BY <2>9, <2>11, <3>1, <3>2
        <4> QED BY <2>13, <3>2, <4>1
      <3>3. CASE i # 1
        <4>1. i - 1 \in 1 .. n - k /\ ~(i <= 1) /\ k + (i - 1) = j + i
          BY <2>1, <2>13, <3>3
        <4>2. u[i] = s[i - 1]
          BY <2>9, <2>11, <3>1, <4>1
        <4>3. s[i - 1] = v[k + (i - 1)]
          BY <2>6, <4>1 DEF s
        <4> QED BY <4>1, <4>2, <4>3
      <3> QED BY <3>2, <3>3
    <2>16. LoopReads(q, v, j, n, N)
      BY <2>12, <2>14, <2>15 DEF LoopReads
    <2>17. Good(j)
      BY <2>11, <2>12, <2>16 DEF q
    <2> QED BY <2>17 DEF j
  <1>5. Good(0)
    <2> HIDE DEF T
    <2>1. n \in T
      BY <1>3, <1>4, SetInduction
    <2> HIDE DEF Good
    <2>2. Good(n - n) /\ n - n = 0
      BY <2>1 DEF T
    <2> QED BY <2>2
  <1> QED BY <1>5

(***************************************************************************)
(* Withdrawn routes                                                        *)
(***************************************************************************)
\* The octets of a prefix.
LEMMA PrefixSized ==
    ASSUME NEW n \in 0..128
    PROVE  /\ Sized(Prefix(n), 1 + PaddedLength(n)) /\ Prefix(n)[1] = n
           /\ PaddedLength(n) \in 0..16
  <1> DEFINE p == PaddedLength(n)
             a == <<n>>
             c == Filler(p)
             u == a \o c
  <1>1. p \in 0..16
    <2>1. p \in 0..31 /\ 8 * p <= n + 7
      BY Rounding
    <2> HIDE DEF p
    <2> QED BY <2>1
  <1>2. Prefix(n) = u
    BY LeastOctets DEF Prefix
  <1>3. Sized(a, 1) /\ a[1] = n
    <2>1. n \in Octet
      BY DEF Octet
    <2>2. Sized(a, 1)
      BY <2>1, FewOctets, Zenon
    <2>3. a[1] = n
      OBVIOUS
    <2> QED BY <2>2, <2>3
  <1> HIDE DEF p
  <1>4. Sized(c, p)
    <2>1. c \in [1 .. p -> Octet] /\ p \in Nat
      BY <1>1 DEF Filler, Octet
    <2> HIDE DEF c
    <2>2. c \in Seq(Octet) /\ DOMAIN c = 1 .. p
      BY <2>1, SeqDef
    <2>3. Len(c) = p
      BY <2>1, <2>2, LenProperties
    <2> QED BY <2>1, <2>2, <2>3 DEF Sized
  <1> HIDE DEF a, c
  <1>5. Joined(u, a, 1, c, p)
    BY <1>3, <1>4, Behind
  <1> HIDE DEF u
  <1>6. Sized(u, 1 + p) /\ u[1] = n
    BY <1>3, <1>5 DEF Joined
  <1> QED BY <1>1, <1>2, <1>6 DEF p

\* The prefix of n bits lies in b from offset i on, in m octets; it is read.
PrefixAt(b, i, n, m) ==
    m = Len(Prefix(n)) /\ i + m <= Len(b) /\ Holds(b, i, Prefix(n), m)
PrefixRead(b, i, n, m) ==
    /\ Cidr(b, i) = Ok(Cidr(b, i).val, i + m)
    /\ Cidr(b, i).val.length = n /\ m \in Nat /\ m >= 1

\* A prefix somewhere in b.
LEMMA CidrAt ==
    ASSUME NEW b \in Seq(Octet), NEW n \in CidrLength, NEW i \in Nat, NEW m,
           PrefixAt(b, i, n, m)
    PROVE  PrefixRead(b, i, n, m)
  <1> USE DEF CidrLength, PrefixAt, PrefixRead
  <1> DEFINE p == PaddedLength(n)
             s == SubSeq(b, i + 1 + 1, i + 1 + p)
  <1>1. p \in 0..16 /\ m = 1 + p /\ Prefix(n)[1] = n
    BY PrefixSized DEF Sized
  <1>2. Len(b) \in Nat
    BY LenProperties
  <1> HIDE DEF p
  <1>3. b[i + 1] = n /\ i + 1 + p <= Len(b) /\ i + m = i + 1 + p /\ m \in Nat /\ m >= 1
    <2>1. 1 \in 1 .. m
      BY <1>1
    <2>2. b[i + 1] = n
      BY <1>1, <2>1 DEF Holds
    <2> QED BY <1>1, <1>2, <2>2
  <1>4. Cidr(b, i) = IF OverflowChecks /\ n + 7 > 255 THEN Panic ELSE PrefixOf(n, s, i + 1 + p)
    <2>1. n \in 0..255
      OBVIOUS
    <2> QED BY <1>2, <1>3, <2>1, CidrReads DEF p
  <1>5. Len(s) = p
    <2> DEFINE x == i + 1 + 1
               y == i + 1 + p
    <2>1. \A j \in x .. y : b[j] \in Octet
      <3>1. \A j \in 1 .. Len(b) : b[j] \in Octet
        BY ElementOfSeq
      <3>2. \A j \in x .. y : j \in 1 .. Len(b)
        BY <1>1, <1>2, <1>3
      <3> QED BY <3>1, <3>2
    <2>2. x \in Int /\ y \in Int /\ (IF x <= y THEN y - x + 1 ELSE 0) = p
      BY <1>1
    <2>3. s = SubSeq(b, x, y)
      OBVIOUS
    <2> HIDE DEF x, y, s
    <2>4. Len(SubSeq(b, x, y)) = IF x <= y THEN y - x + 1 ELSE 0
      <3> HIDE DEF Octet
      <3> QED BY <2>1, <2>2, SubSeqProperties
    <2> QED BY <2>2, <2>3, <2>4
  <1> HIDE DEF s
  <1> DEFINE x == Padded(s, IF p <= 4 THEN 4 ELSE 16)
  <1>6. PrefixOf(n, s, i + 1 + p) = Ok([length |-> n, prefix |-> x], i + 1 + p)
    <2>1. CASE p <= 4
      <3> DEFINE k == i + 1 + p
                 l == Len(s)
      <3>1. l <= 4 /\ ~(l \in 5..16) /\ x = Padded(s, 4)
        BY <1>1, <1>5, <2>1
      <3> HIDE DEF x, k, l
      <3>2. PrefixOf(n, s, k) = Ok([length |-> n, prefix |-> x], k)
        BY <3>1 DEF PrefixOf, l
      <3> QED BY <3>2 DEF k
    <2>2. CASE ~(p <= 4)
      <3>1. p \in 5..16
        BY <1>1, <2>2
      <3> QED BY <1>5, <2>2, <3>1 DEF PrefixOf
    <2> QED BY <2>1, <2>2
  <1> HIDE DEF x
  <1> DEFINE v == [length |-> n, prefix |-> x]
             r == Cidr(b, i)
  <1>7. r = Ok(v, i + m)
    <2>1. ~(n + 7 > 255)
      OBVIOUS
    <2> QED BY <1>3, <1>4, <1>6, <2>1
  <1>8. v.length = n
    OBVIOUS
  <1> HIDE DEF v, r
  <1>9. r.val = v
    BY <1>7 DEF Ok
  <1>10. r = Ok(r.val, i + m) /\ r.val.length = n
    BY <1>7, <1>8, <1>9
  <1> QED BY <1>3, <1>10 DEF r

\* The withdrawn routes of an UPDATE.
LEMMA RoutesRead ==
    ASSUME NEW ws \in Seq(CidrLength), NEW w, w = PrefixesOf(ws), NEW r, r = All(w, 0, Cidr)
    PROVE  /\ w \in Seq(Octet)
           /\ r.code = "Ok" /\ Len(r.val) = Len(ws)
           /\ \A k \in 1 .. Len(ws) : r.val[k].length = ws[k]
  <1> DEFINE n == Len(ws)
             es == [k \in DOMAIN ws |-> Prefix(ws[k])]
  <1>1. n \in Nat /\ DOMAIN ws = 1 .. n /\ \A k \in 1 .. n : ws[k] \in CidrLength
    BY LenProperties, ElementOfSeq
  <1>2. \A k \in 1 .. n : Prefix(ws[k]) \in Seq(Octet)
    <2>1. \A x \in CidrLength : Prefix(x) \in Seq(Octet)
      BY PrefixSized DEF Sized, CidrLength
    <2> QED BY <1>1, <2>1
  <1>3. es \in Seq(Seq(Octet)) /\ Len(es) = n /\ \A k \in 1 .. n : es[k] = Prefix(ws[k])
    <2>1. es \in [1 .. n -> Seq(Octet)]
      BY <1>1, <1>2
    <2>2. \A k \in 1 .. n : es[k] = Prefix(ws[k])
      BY <1>1
    <2> HIDE DEF es, n
    <2>3. es \in Seq(Seq(Octet)) /\ DOMAIN es = 1 .. n
      BY <1>1, <2>1, SeqDef
    <2>4. Len(es) = n
      BY <1>1, <2>3, LenProperties
    <2> QED BY <2>2, <2>3, <2>4
  <1>4. w = FlattenSeq(es)
    BY DEF PrefixesOf
  <1> HIDE DEF es, n
  <1>5. PICK o : Rows(w, es, o)
    BY <1>3, <1>4, FlattenRows
  <1>6. /\ w \in Seq(Octet)
        /\ o \in [0 .. n -> 0 .. Len(w)] /\ o[0] = 0 /\ o[n] = Len(w)
        /\ \A k \in 1 .. n : o[k] = o[k - 1] + Len(es[k]) /\ Holds(w, o[k - 1], es[k], Len(es[k]))
    BY <1>3, <1>5 DEF Rows
  <1> DEFINE v == [k \in 1 .. n |-> Cidr(w, o[k - 1]).val]
  <1>7. \A k \in 1 .. n : v[k] = Cidr(w, o[k - 1]).val
    OBVIOUS
  <1> HIDE DEF v
  <1>8. ASSUME NEW k \in 1 .. n
        PROVE  /\ o[k - 1] < o[k] /\ Cidr(w, o[k - 1]) = Ok(v[k], o[k])
               /\ v[k].length = ws[k]
    <2> DEFINE i == o[k - 1]
               m == Len(es[k])
               x == ws[k]
    <2>1. k - 1 \in 0 .. n /\ k \in 0 .. n
      BY <1>1
    <2>2. i \in 0 .. Len(w) /\ o[k] \in 0 .. Len(w) /\ Len(w) \in Nat
      BY <1>6, <2>1, LenProperties
    <2>3. o[k] = i + m /\ Holds(w, i, Prefix(x), m) /\ m = Len(Prefix(x)) /\ x \in CidrLength
      BY <1>1, <1>3, <1>6
    <2> HIDE DEF i, m, x
    <2>4. i \in Nat /\ i + m <= Len(w)
      BY <2>2, <2>3
    <2>5. Cidr(w, i) = Ok(Cidr(w, i).val, i + m) /\ Cidr(w, i).val.length = x /\ m \in Nat /\ m >= 1
      <3>1. w \in Seq(Octet) /\ x \in CidrLength /\ i \in Nat
        BY <1>6, <2>3, <2>4
      <3>2. PrefixAt(w, i, x, m)
        BY <2>3, <2>4 DEF PrefixAt
      <3>3. PrefixRead(w, i, x, m)
        BY <3>1, <3>2, CidrAt
      <3> QED BY <3>3 DEF PrefixRead
    <2>6. i < o[k]
      BY <2>3, <2>4, <2>5
    <2>7. v[k] = Cidr(w, i).val
      BY <1>7 DEF i
    <2>8. i < o[k] /\ Cidr(w, i) = Ok(v[k], o[k]) /\ v[k].length = x
      BY <2>3, <2>5, <2>6, <2>7
    <2> QED BY <2>8 DEF i, x
  <1>9. Turns(w, Cidr, v, o, n)
    BY <1>8 DEF Turns
  <1>10. Progresses(w, Cidr)
    <2>1. Len(w) \in Nat
      BY <1>6, LenProperties
    <2> QED BY <1>6, <2>1, CidrEnds DEF Progresses
  <1>11. LoopReads(All(w, o[0], Cidr), v, 0, n, Len(w))
    BY <1>1, <1>6, <1>9, <1>10, AllReads
  <1>12. LoopReads(r, v, 0, n, Len(w))
    BY <1>6, <1>11
  <1>13. r.code = "Ok" /\ Len(r.val) = n /\ \A k \in 1 .. n : r.val[k] = v[k]
    <2>1. n - 0 = n /\ \A k \in 1 .. n : 0 + k = k
      BY <1>1
    <2> QED BY <1>12, <2>1 DEF LoopReads
  <1> QED BY <1>6, <1>8, <1>13 DEF n

(***************************************************************************)
(* Path attributes                                                         *)
(***************************************************************************)
\* The n octets of s somewhere in b.
LEMMA BytesAt ==
    ASSUME NEW b \in Seq(Octet), NEW s, NEW n, Sized(s, n), NEW k \in Nat,
           k + n <= Len(b), Holds(b, k, s, n)
    PROVE  get_bytes(b, k, n) = Ok(s, k + n)
  <1> DEFINE x == k + 1
             y == k + n
             q == SubSeq(b, x, y)
  <1>1. Len(b) \in Nat /\ n \in Nat /\ s \in Seq(Octet) /\ Len(s) = n
    BY LenProperties DEF Sized
  <1>2. get_bytes(b, k, n) = Ok(q, k + n)
    <2>1. ~(Len(b) - k < n)
      BY <1>1
    <2> QED BY <2>1 DEF get_bytes
  <1>3. \A j \in x .. y : b[j] \in Octet
    <2>1. \A j \in 1 .. Len(b) : b[j] \in Octet
      BY ElementOfSeq
    <2>2. \A j \in x .. y : j \in 1 .. Len(b)
      BY <1>1
    <2> QED BY <2>1, <2>2
  <1>4. x \in Int /\ y \in Int /\ (IF x <= y THEN y - x + 1 ELSE 0) = n /\ y - x + 1 = n
    BY <1>1
  <1>5. \A j \in 1 .. n : x + j - 1 = k + j
    BY <1>1
  <1> HIDE DEF x, y
  <1>6. /\ q \in Seq(Octet) /\ Len(q) = IF x <= y THEN y - x + 1 ELSE 0
        /\ \A j \in 1 .. y - x + 1 : q[j] = b[x + j - 1]
    <2> HIDE DEF Octet
    <2> QED BY <1>3, <1>4, SubSeqProperties
  <1> HIDE DEF q
  <1>7. q \in Seq(Octet) /\ Len(q) = n
    BY <1>4, <1>6
  <1>8. ASSUME NEW j \in 1 .. n PROVE q[j] = s[j]
    <2>1. q[j] = b[x + j - 1]
      BY <1>4, <1>6
    <2>2. b[k + j] = s[j]
      BY DEF Holds
    <2> QED BY <1>5, <2>1, <2>2
  <1>9. q = s
    BY <1>1, <1>7, <1>8, SeqEqual
  <1> QED BY <1>2, <1>9

\* Single octets and pairs of them.
LEMMA OctetsAt ==
    ASSUME NEW b \in Seq(Octet), NEW k \in Nat
    PROVE  /\ k + 1 <= Len(b) => get_u8(b, k) = Ok(b[k + 1], k + 1)
           /\ k + 2 <= Len(b) => get_u16(b, k) = Ok(256 * b[k + 1] + b[k + 2], k + 2)
  <1>1. Len(b) \in Nat
    BY LenProperties
  <1>2. (k + 1 <= Len(b) => ~(Len(b) - k < 1)) /\ (k + 2 <= Len(b) => ~(Len(b) - k < 2))
    BY <1>1
  <1> QED BY <1>2 DEF get_u8, get_u16

\* Origin::decode.
LEMMA OriginAt ==
    ASSUME NEW b \in Seq(Octet), NEW k \in Nat, k + 1 <= Len(b), b[k + 1] \in 0..2
    PROVE  Origin(b, k, 1) = Ok(b[k + 1], k + 1)
  <1> DEFINE x == b[k + 1]
             F(o, j) == IF o \in 0..2 THEN Ok(o, j) ELSE ErrUpdate("InvalidOriginAttribute")
  <1>1. Origin(b, k, 1) = Then(get_u8(b, k), LAMBDA o, j : F(o, j))
    BY DEF Origin
  <1>2. get_u8(b, k) = Ok(x, k + 1)
    BY OctetsAt
  <1>3. F(x, k + 1) = Ok(x, k + 1)
    OBVIOUS
  <1> HIDE DEF F, x
  <1>4. Then(Ok(x, k + 1), LAMBDA o, j : F(o, j)) = GoOn(Ok(x, k + 1), LAMBDA o, j : F(o, j))
    BY ThenGoesOn
  <1>5. GoOn(Ok(x, k + 1), LAMBDA o, j : F(o, j)) = F(x, k + 1)
    BY DEF GoOn, Ok
  <1> QED BY <1>1, <1>2, <1>3, <1>4, <1>5 DEF x

\* AsPathSegment::decode of a segment with the octets s.
LEMMA SegmentAt ==
    ASSUME NEW b \in Seq(Octet), NEW s, NEW n, Sized(s, n), NEW k \in Nat,
           k + n <= Len(b), Holds(b, k, s, n),
           n >= 2, s[1] \in {1, 2}, n = 2 + 2 * s[2]
    PROVE  AsPathSegment(b, k, n)
             = Ok([segment_type |-> s[1],
                   segment_value |-> [m \in 1 .. s[2] |-> 256 * s[2 * m + 1] + s[2 * m + 2]]], k + n)
  <1> DEFINE N == s[2]
             q == SubSeq(b, k + 2 + 1, k + 2 + 2 * N)
             Value(t, c, l) == [m \in 1 .. c |-> 256 * l[2 * m - 1] + l[2 * m]]
             F2(t, c, l, j) == Ok([segment_type |-> t, segment_value |-> Value(t, c, l)], j)
             F1(t, c, j) == IF 2 * c + 2 # n THEN ErrUpdate("MalformedAsPath") ELSE
                            Then(get_bytes(b, j, 2 * c), LAMBDA l, i : F2(t, c, l, i))
             F0(t, j) == IF t \notin {1, 2} THEN ErrUpdate("MalformedAsPath") ELSE
                         Then(get_u8(b, j), LAMBDA c, i : F1(t, c, i))
  <1>1. AsPathSegment(b, k, n) = Then(get_u8(b, k), LAMBDA t, j : F0(t, j))
    BY Zenon DEF AsPathSegment
  <1>2. Len(b) \in Nat /\ n \in Nat /\ s \in Seq(Octet) /\ Len(s) = n
    BY LenProperties DEF Sized
  <1>3. N \in Nat /\ n = 2 + 2 * N /\ 2 * N + 2 = n
    <2>1. 2 \in 1 .. Len(s)
      BY <1>2
    <2>2. N \in Octet
      BY <1>2, <2>1, ElementOfSeq
    <2>3. n = 2 + 2 * N
      OBVIOUS
    <2> HIDE DEF N
    <2>4. N \in Nat
      BY <2>2 DEF Octet
    <2> QED BY <2>3, <2>4
  <1>4. b[k + 1] = s[1] /\ b[k + 2] = N
    <2>1. 1 \in 1 .. n /\ 2 \in 1 .. n
      BY <1>2
    <2> QED BY <2>1 DEF Holds
  <1> HIDE DEF N
  <1>5. k + 1 \in Nat /\ k + 1 <= Len(b) /\ (k + 1) + 1 <= Len(b) /\ (k + 1) + 1 = k + 2
    BY <1>2
  <1>6. get_u8(b, k) = Ok(s[1], k + 1) /\ get_u8(b, k + 1) = Ok(N, k + 2)
    <2>1. get_u8(b, k + 1) = Ok(b[(k + 1) + 1], (k + 1) + 1)
      BY <1>5, OctetsAt
    <2>2. get_u8(b, k) = Ok(b[k + 1], k + 1)
      BY <1>5, OctetsAt
    <2> QED BY <1>4, <1>5, <2>1, <2>2
  <1>7. get_bytes(b, k + 2, 2 * N) = Ok(q, k + n)
    <2>1. ~(Len(b) - (k + 2) < 2 * N) /\ k + 2 + 2 * N = k + n
      BY <1>2, <1>3
    <2> QED BY <2>1 DEF get_bytes
  <1>8. \A j \in 1 .. 2 * N : q[j] = s[2 + j]
    <2> DEFINE x == k + 2 + 1
               y == k + 2 + 2 * N
    <2>1. \A j \in x .. y : b[j] \in Octet
      <3>1. \A j \in 1 .. Len(b) : b[j] \in Octet
        BY ElementOfSeq
      <3>2. \A j \in x .. y : j \in 1 .. Len(b)
        BY <1>2, <1>3
      <3> QED BY <3>1, <3>2
    <2>2. x \in Int /\ y \in Int /\ y - x + 1 = 2 * N
      BY <1>3
    <2>3. \A j \in 1 .. 2 * N : x + j - 1 = k + (2 + j) /\ 2 + j \in 1 .. n
      BY <1>2, <1>3
    <2>4. q = SubSeq(b, x, y)
      OBVIOUS
    <2> HIDE DEF x, y, q
    <2>5. \A j \in 1 .. y - x + 1 : SubSeq(b, x, y)[j] = b[x + j - 1]
      <3> HIDE DEF Octet
      <3> QED BY <2>1, <2>2, SubSeqProperties
    <2>6. \A j \in 1 .. n : b[k + j] = s[j]
      BY DEF Holds
    <2> TAKE j \in 1 .. 2 * N
    <2>7. q[j] = b[x + j - 1]
      BY <2>2, <2>4, <2>5
    <2>8. b[k + (2 + j)] = s[2 + j]
      BY <2>3, <2>6
    <2> QED BY <2>3, <2>7, <2>8
  <1> HIDE DEF q
  <1>9. Value(s[1], N, q) = [m \in 1 .. N |-> 256 * s[2 * m + 1] + s[2 * m + 2]]
    <2>1. ASSUME NEW m \in 1 .. N PROVE q[2 * m - 1] = s[2 * m + 1] /\ q[2 * m] = s[2 * m + 2]
      <3>1. /\ 2 * m - 1 \in 1 .. 2 * N /\ 2 * m \in 1 .. 2 * N
            /\ 2 + (2 * m - 1) = 2 * m + 1 /\ 2 + 2 * m = 2 * m + 2
        BY <1>3
      <3>2. q[2 * m - 1] = s[2 + (2 * m - 1)] /\ q[2 * m] = s[2 + 2 * m]
        BY <1>8, <3>1
      <3> QED BY <3>1, <3>2
    <2> QED BY <2>1
  <1> DEFINE z == Ok([segment_type |-> s[1], segment_value |-> Value(s[1], N, q)], k + n)
  <1>10. F2(s[1], N, q, k + n) = z
    OBVIOUS
  <1> HIDE DEF z, F2, Value
  <1>11. F1(s[1], N, k + 2) = z
    <2>1. Then(Ok(q, k + n), LAMBDA l, i : F2(s[1], N, l, i))
            = GoOn(Ok(q, k + n), LAMBDA l, i : F2(s[1], N, l, i))
      BY ThenGoesOn
    <2>2. GoOn(Ok(q, k + n), LAMBDA l, i : F2(s[1], N, l, i)) = F2(s[1], N, q, k + n)
      BY DEF GoOn, Ok
    <2>3. Then(get_bytes(b, k + 2, 2 * N), LAMBDA l, i : F2(s[1], N, l, i)) = z
      BY <1>7, <1>10, <2>1, <2>2
    <2> QED BY <1>3, <2>3, Zenon
  <1> HIDE DEF F1
  <1>12. F0(s[1], k + 1) = z
    <2>1. Then(Ok(N, k + 2), LAMBDA c, i : F1(s[1], c, i))
            = GoOn(Ok(N, k + 2), LAMBDA c, i : F1(s[1], c, i))
      BY ThenGoesOn
    <2>2. GoOn(Ok(N, k + 2), LAMBDA c, i : F1(s[1], c, i)) = F1(s[1], N, k + 2)
      BY DEF GoOn, Ok
    <2>3. Then(get_u8(b, k + 1), LAMBDA c, i : F1(s[1], c, i)) = z
      BY <1>6, <1>11, <2>1, <2>2
    <2> QED BY <2>3, Zenon
  <1> HIDE DEF F0
  <1>13. AsPathSegment(b, k, n) = z
    <2>1. Then(Ok(s[1], k + 1), LAMBDA t, j : F0(t, j))
            = GoOn(Ok(s[1], k + 1), LAMBDA t, j : F0(t, j))
      BY ThenGoesOn
    <2>2. GoOn(Ok(s[1], k + 1), LAMBDA t, j : F0(t, j)) = F0(s[1], k + 1)
      BY DEF GoOn, Ok
    <2> QED BY <1>1, <1>6, <1>12, <2>1, <2>2
  <1> QED BY <1>9, <1>13 DEF z, N

\* AS_PATH has AS numbers of two octets.
Narrow(a, peer) == a.type = 2 => AsWidth(peer) = 2

\* PathAttributeValue of every type.
LEMMA ValueAt ==
    ASSUME NEW b \in Seq(Octet), NEW a, NEW peer, NEW n, Sized(a.octets, n), a.type \in 0..255,
           WellFormed(a), Fits(a, peer), Narrow(a, peer),
           NEW k \in Nat, k + n <= Len(b), Holds(b, k, a.octets, n)
    PROVE  PathAttributeValue(b, k, peer, a.type, n) = Ok(Meaning(a, peer), k + n)
  <1> DEFINE s == a.octets
             t == a.type
             P == PathAttributeValue(b, k, peer, t, n)
             four == peer.opt_params.four_octet_as_cap # <<>>
  <1>1. get_bytes(b, k, n) = Ok(s, k + n)
    BY BytesAt
  <1>2. Len(s) = n /\ n \in Nat
    BY DEF Sized
  <1>3. /\ t = 1 => n = 1 /\ s[1] \in 0..2
        /\ t \in {3, 4, 5} => n = 4
        /\ t = 6 => n = 0
    BY <1>2 DEF WellFormed
  <1>4. /\ t = 2 => /\ n >= 2 /\ s[1] \in {1, 2} /\ n = 2 + 2 * s[2]
                    /\ AsWidth(peer) = 2
        /\ t = 7 => n = IF four THEN 8 ELSE 6
    <2>1. AsWidth(peer) = IF four THEN 4 ELSE 2
      BY DEF AsWidth
    <2>2. /\ t = 2 => n >= 2 /\ s[1] \in {1, 2} /\ n = 2 + AsWidth(peer) * s[2]
          /\ t = 7 => n = AsWidth(peer) + 4
      BY <1>2 DEF Fits
    <2>3. t = 2 => AsWidth(peer) = 2
      BY DEF Narrow
    <2> HIDE DEF four
    <2> QED BY <2>1, <2>2, <2>3
  <1>5. P = CASE t = 1 -> Origin(b, k, n)
              [] t = 2 -> AsPathSegment(b, k, n)
              [] t = 3 /\ n # 4 -> ErrUpdate("AttributeLengthError")
              [] t = 3 /\ n = 4 -> get_bytes(b, k, 4)
              [] t \in {4, 5} -> get_bytes(b, k, 4)
              [] t = 6 -> Ok(TRUE, k)
              [] t = 7 -> Aggregator(b, k, four)
              [] OTHER -> get_bytes(b, k, n)
    BY Zenon DEF PathAttributeValue
  <1>6. Meaning(a, peer) = CASE t = 1 -> s[1]
                             [] t = 2 -> [segment_type |-> s[1],
                                          segment_value |-> AsNumbers(s, AsWidth(peer))]
                             [] t = 6 -> TRUE
                             [] OTHER -> s
    BY Zenon DEF Meaning
  <1>7. Sized(s, n) /\ Holds(b, k, s, n) /\ t \in 0..255
    OBVIOUS
  <1> HIDE DEF s, t, P, four
  <1>8. CASE t = 1
    <2>1. n = 1 /\ b[k + 1] = s[1] /\ s[1] \in 0..2
      <3>1. n = 1 /\ s[1] \in 0..2 /\ 1 \in 1 .. n
        BY <1>3, <1>8
      <3> QED BY <1>7, <3>1 DEF Holds
    <2>2. Origin(b, k, 1) = Ok(b[k + 1], k + 1)
      BY <2>1, OriginAt
    <2>3. P = Origin(b, k, n) /\ Meaning(a, peer) = s[1]
      BY <1>5, <1>6, <1>8
    <2> QED BY <2>1, <2>2, <2>3 DEF P, t
  <1>9. CASE t = 2
    <2> DEFINE z == [segment_type |-> s[1], segment_value |-> [m \in 1..s[2] |->
                       256 * s[2 * m + 1] + s[2 * m + 2]]]
    <2>1. n >= 2 /\ s[1] \in {1, 2} /\ n = 2 + 2 * s[2]
      BY <1>4, <1>9
    <2>2. AsPathSegment(b, k, n) = Ok(z, k + n)
      BY <1>7, <2>1, SegmentAt
    <2> HIDE DEF z
    <2>3. P = AsPathSegment(b, k, n)
      BY <1>5, <1>9
    <2>4. Meaning(a, peer) = z
      <3>1. AsNumbers(s, AsWidth(peer)) = [m \in 1..s[2] |-> 256 * s[2 * m + 1] + s[2 * m + 2]]
        BY <1>4, <1>9 DEF AsNumbers
      <3> QED BY <1>6, <1>9, <3>1 DEF z
    <2> QED BY <2>2, <2>3, <2>4 DEF P, t
  <1>10. CASE t \in {3, 4, 5}
    <2>1. n = 4
      BY <1>3, <1>10
    <2>2. P = get_bytes(b, k, n)
      <3>1. CASE t = 3
        BY <1>5, <2>1, <3>1
      <3>2. CASE t = 4
        BY <1>5, <2>1, <3>2
      <3>3. CASE t = 5
        BY <1>5, <2>1, <3>3
      <3> QED BY <1>10, <3>1, <3>2, <3>3
    <2>3. Meaning(a, peer) = s
      <3>1. t # 1 /\ t # 2 /\ t # 6
        BY <1>10
      <3> QED BY <1>6, <1>7, <3>1
    <2> QED BY <1>1, <2>2, <2>3 DEF P, t
  <1>11. CASE t = 6
    <2>1. k + n = k
      BY <1>3, <1>11
    <2>2. P = Ok(TRUE, k)
      BY <1>5, <1>11
    <2>3. Meaning(a, peer) = TRUE
      BY <1>6, <1>11
    <2> QED BY <2>1, <2>2, <2>3 DEF P, t
  <1>12. CASE t = 7
    <2>1. Aggregator(b, k, four) = get_bytes(b, k, n)
      BY <1>4, <1>12 DEF Aggregator
    <2>2. P = get_bytes(b, k, n)
      BY <1>5, <1>12, <2>1
    <2>3. Meaning(a, peer) = s
      BY <1>6, <1>12
    <2> QED BY <1>1, <2>2, <2>3 DEF P, t
  <1>13. CASE t \notin 1..7
    <2>1. t # 1 /\ t # 2 /\ t # 3 /\ t \notin {4, 5} /\ t # 6 /\ t # 7
      BY <1>13
    <2>2. P = get_bytes(b, k, n)
      BY <1>5, <1>7, <2>1
    <2>3. Meaning(a, peer) = s
      BY <1>6, <1>7, <2>1
    <2> QED BY <1>1, <2>2, <2>3 DEF P, t
  <1>14. t \in 1..7 => t = 1 \/ t = 2 \/ t \in {3, 4, 5} \/ t = 6 \/ t = 7
    OBVIOUS
  <1> QED BY <1>8, <1>9, <1>10, <1>11, <1>12, <1>13, <1>14

\* The octets of an attribute: its flags, its type, its length in c - 2 octets,
\* and the n octets of its value.
AttributeLaid(s, a, c, n) ==
    /\ Sized(s, c + n)
    /\ s[1] \in Octet /\ (ExtendedLength(s[1]) <=> a.ext) /\ s[2] = a.type
    /\ IF a.ext THEN c = 4 /\ 256 * s[3] + s[4] = n ELSE c = 3 /\ s[3] = n
    /\ Holds(s, c, a.octets, n)

\* The octets of every attribute.
LEMMA AttributeOctets ==
    ASSUME NEW a \in AnyAttribute, WellFormed(a), NEW n, n = Len(a.octets)
    PROVE  /\ Sized(a.octets, n) /\ a.type \in 0..255
           /\ AttributeLaid(Attribute(a), a, IF a.ext THEN 4 ELSE 3, n)
  <1> DEFINE s == a.octets
             t == a.type
  <1>1. s \in Seq(Octet) /\ t \in Octet /\ a.ext \in BOOLEAN
    BY DEF AnyAttribute
  <1>2. Len(s) = n /\ n \in Nat
    BY <1>1, LenProperties
  <1>3. Sized(s, n)
    BY <1>1, <1>2 DEF Sized
  <1>4. n <= (IF a.ext THEN 65535 ELSE 255)
    BY DEF WellFormed, U16MAX
  <1>5. ~ExtendedLength(0) /\ ExtendedLength(16) /\ 0 \in Octet /\ 16 \in Octet
    BY DEF ExtendedLength, Octet
  <1>6. CASE a.ext
    <2> DEFINE e == <<16, t>>
               u == U16(n)
               p == e \o u
               q == p \o s
    <2>1. Attribute(a) = q
      BY <1>2, <1>6 DEF Attribute
    <2>2. Sized(e, 2) /\ e[1] = 16 /\ e[2] = t
      <3>1. e[1] = 16 /\ e[2] = t
        OBVIOUS
      <3> HIDE DEF t
      <3>2. Sized(e, 2)
        BY <1>1, <1>5, FewOctets, Zenon
      <3> QED BY <3>1, <3>2
    <2>3. Sized(u, 2) /\ 256 * u[1] + u[2] = n
      <3>1. n <= 65535
        BY <1>4, <1>6
      <3> QED BY <1>2, <3>1, U16Octets
    <2> HIDE DEF e, u, s, t
    <2>4. Joined(p, e, 2, u, 2)
      BY <2>2, <2>3, Behind
    <2> HIDE DEF p
    <2>5. Sized(p, 4) /\ p[1] = 16 /\ p[2] = t /\ p[2 + 1] = u[1] /\ p[2 + 2] = u[2]
      BY <2>2, <2>4 DEF Joined
    <2>6. Joined(q, p, 4, s, n)
      BY <1>3, <2>5, Behind
    <2> HIDE DEF q
    <2>7. /\ Sized(q, 4 + n) /\ q[1] = p[1] /\ q[2] = p[2] /\ q[3] = p[3] /\ q[4] = p[4]
          /\ Holds(q, 4, s, n)
      BY <2>6 DEF Joined, Holds
    <2>8. q[3] = u[1] /\ q[4] = u[2]
      BY <2>5, <2>7
    <2>9. q[1] \in Octet /\ (ExtendedLength(q[1]) <=> a.ext) /\ q[2] = t
      BY <1>5, <1>6, <2>5, <2>7
    <2>10. 256 * q[3] + q[4] = n
      BY <2>3, <2>8
    <2>11. AttributeLaid(q, a, 4, n)
      BY <1>6, <2>7, <2>9, <2>10 DEF AttributeLaid, s, t
    <2> QED BY <1>1, <1>3, <1>6, <2>1, <2>11 DEF Octet, s, t
  <1>7. CASE ~a.ext
    <2> DEFINE e == <<0, t, n>>
               q == e \o s
    <2>1. Attribute(a) = q
      BY <1>2, <1>7 DEF Attribute
    <2>2. n \in Octet
      <3>1. n <= 255
        BY <1>4, <1>7
      <3>2. \A z \in Nat : z <= 255 => z \in Octet
        BY DEF Octet
      <3> QED BY <1>2, <3>1, <3>2
    <2>3. Sized(e, 3) /\ e[1] = 0 /\ e[2] = t /\ e[3] = n
      <3>1. e[1] = 0 /\ e[2] = t /\ e[3] = n
        OBVIOUS
      <3> HIDE DEF t, Octet
      <3>2. e \in Seq(Octet) /\ Len(e) = 3
        BY <1>1, <1>5, <2>2
      <3> QED BY <3>1, <3>2 DEF Sized
    <2> HIDE DEF e, s, t
    <2>4. Joined(q, e, 3, s, n)
      BY <1>3, <2>3, Behind
    <2> HIDE DEF q
    <2>5. Sized(q, 3 + n) /\ q[1] = 0 /\ q[2] = t /\ q[3] = n /\ Holds(q, 3, s, n)
      BY <2>3, <2>4 DEF Joined, Holds
    <2>6. q[1] \in Octet /\ (ExtendedLength(q[1]) <=> a.ext)
      BY <1>5, <1>7, <2>5
    <2>7. AttributeLaid(q, a, 3, n)
      BY <1>7, <2>5, <2>6 DEF AttributeLaid, s, t
    <2> QED BY <1>1, <1>3, <1>7, <2>1, <2>7 DEF Octet, s, t
  <1> QED BY <1>1, <1>6, <1>7

\* r is what is to be read of the attribute a, up to j.
AttributeRead(r, a, peer, j) ==
    \E f : r = Ok([attr_flags |-> f, attr_type_code |-> a.type, attr_value |-> Meaning(a, peer)], j)

\* PathAttribute::decode of an attribute somewhere in b.
LEMMA AttributeAt ==
    ASSUME NEW b \in Seq(Octet), NEW a \in AnyAttribute, WellFormed(a), NEW peer, Fits(a, peer),
           Narrow(a, peer),
           NEW i \in Nat, NEW m, m = Len(Attribute(a)), i + m <= Len(b), Holds(b, i, Attribute(a), m)
    PROVE  AttributeRead(PathAttribute(b, i, peer), a, peer, i + m) /\ m \in Nat /\ m >= 1
  <1> DEFINE n == Len(a.octets)
             c == IF a.ext THEN 4 ELSE 3
             s == Attribute(a)
             t == a.type
             f == s[1]
             v == Meaning(a, peer)
             Value(flags, type, x, j) ==
               Ok([attr_flags |-> flags, attr_type_code |-> type, attr_value |-> x], j)
             K2(flags, type, len, l) ==
               Then(PathAttributeValue(b, l, peer, type, len), LAMBDA x, j : Value(flags, type, x, j))
             K1(flags, type, k) ==
               Then(IF ExtendedLength(flags) THEN get_u16(b, k) ELSE get_u8(b, k),
                    LAMBDA len, l : K2(flags, type, len, l))
             K0(flags, j) == Then(get_u8(b, j), LAMBDA type, k : K1(flags, type, k))
  <1>1. PathAttribute(b, i, peer) = Then(get_u8(b, i), LAMBDA flags, j : K0(flags, j))
    BY Zenon DEF PathAttribute
  <1>2. Sized(a.octets, n) /\ t \in 0..255 /\ AttributeLaid(s, a, c, n)
    BY AttributeOctets
  <1>3. n \in Nat /\ Len(b) \in Nat /\ c \in 3..4 /\ (a.ext => c = 4) /\ (~a.ext => c = 3)
    BY <1>2, LenProperties DEF Sized
  <1> HIDE DEF n, s, f, v, c, t
  <1>4. /\ Sized(s, c + n)
        /\ f \in Octet /\ (ExtendedLength(f) <=> a.ext) /\ s[2] = t
        /\ IF a.ext THEN 256 * s[3] + s[4] = n ELSE s[3] = n
        /\ Holds(s, c, a.octets, n)
    BY <1>2 DEF AttributeLaid, f, t
  <1>5. m = c + n /\ m \in Nat /\ m >= 1 /\ i + m = i + c + n /\ m >= 3
    <2>1. m = c + n
      BY <1>4 DEF Sized, s
    <2> QED BY <1>3, <2>1
  <1>6. \A j \in 1 .. m : b[i + j] = s[j]
    BY DEF Holds, s
  <1>7. b[i + 1] = f /\ b[i + 2] = t /\ b[i + 3] = s[3] /\ (a.ext => b[i + 4] = s[4])
    <2>1. 1 \in 1 .. m /\ 2 \in 1 .. m /\ 3 \in 1 .. m /\ (a.ext => 4 \in 1 .. m)
      BY <1>3, <1>5
    <2> QED BY <1>4, <1>6, <2>1 DEF f
  <1>8. get_u8(b, i) = Ok(f, i + 1)
    <2>1. i + 1 <= Len(b)
      BY <1>3, <1>5
    <2> QED BY <1>7, <2>1, OctetsAt
  <1>9. get_u8(b, i + 1) = Ok(t, i + 2)
    <2>1. (i + 1) + 1 <= Len(b) /\ (i + 1) + 1 = i + 2 /\ i + 1 \in Nat
      BY <1>3, <1>5
    <2>2. get_u8(b, i + 1) = Ok(b[(i + 1) + 1], (i + 1) + 1)
      BY <2>1, OctetsAt
    <2> QED BY <1>7, <2>1, <2>2
  <1>10. (IF ExtendedLength(f) THEN get_u16(b, i + 2) ELSE get_u8(b, i + 2)) = Ok(n, i + c)
    <2>1. /\ i + 2 \in Nat /\ (i + 2) + 1 = i + 3 /\ (i + 2) + 2 = i + 4
          /\ (i + 2) + 1 <= Len(b) /\ (a.ext => (i + 2) + 2 <= Len(b))
      BY <1>3, <1>5
    <2>2. CASE a.ext
      <3>1. get_u16(b, i + 2) = Ok(256 * b[(i + 2) + 1] + b[(i + 2) + 2], (i + 2) + 2)
        BY <2>1, <2>2, OctetsAt
      <3>2. 256 * b[i + 3] + b[i + 4] = n
        BY <1>4, <1>7, <2>2
      <3>3. get_u16(b, i + 2) = Ok(n, i + 4)
        BY <2>1, <3>1, <3>2
      <3> QED BY <1>3, <1>4, <2>2, <3>3
    <2>3. CASE ~a.ext
      <3>1. get_u8(b, i + 2) = Ok(b[(i + 2) + 1], (i + 2) + 1)
        BY <2>1, OctetsAt
      <3>2. get_u8(b, i + 2) = Ok(n, i + 3)
        BY <1>4, <1>7, <2>1, <2>3, <3>1
      <3> QED BY <1>3, <1>4, <2>3, <3>2
    <2> QED BY <2>2, <2>3
  <1>11. PathAttributeValue(b, i + c, peer, t, n) = Ok(v, i + m)
    <2> DEFINE k == i + c
    <2>1. k \in Nat /\ k + n <= Len(b) /\ k + n = i + m
      BY <1>3, <1>5
    <2>2. Holds(b, k, a.octets, n)
      <3> SUFFICES ASSUME NEW j \in 1 .. n PROVE b[k + j] = a.octets[j]
        BY DEF Holds
      <3>1. c + j \in 1 .. m /\ k + j = i + (c + j)
        BY <1>3, <1>5
      <3>2. b[i + (c + j)] = s[c + j]
        BY <1>6, <3>1
      <3>3. s[c + j] = a.octets[j]
        BY <1>4 DEF Holds
      <3> QED BY <3>1, <3>2, <3>3
    <2> HIDE DEF k
    <2>3. PathAttributeValue(b, k, peer, a.type, n) = Ok(Meaning(a, peer), k + n)
      BY <1>2, <2>1, <2>2, ValueAt DEF t
    <2> QED BY <2>1, <2>3 DEF k, t, v
  <1> DEFINE z == Value(f, t, v, i + m)
  <1> HIDE DEF Value
  <1>12. K2(f, t, n, i + c) = z
    <2>1. Then(Ok(v, i + m), LAMBDA x, j : Value(f, t, x, j))
            = GoOn(Ok(v, i + m), LAMBDA x, j : Value(f, t, x, j))
      BY ThenGoesOn
    <2>2. GoOn(Ok(v, i + m), LAMBDA x, j : Value(f, t, x, j)) = z
      BY DEF GoOn, Ok
    <2>3. Then(PathAttributeValue(b, i + c, peer, t, n), LAMBDA x, j : Value(f, t, x, j)) = z
      BY <1>11, <2>1, <2>2
    <2> QED BY <2>3, Zenon
  <1> HIDE DEF K2, z
  <1>13. K1(f, t, i + 2) = z
    <2> DEFINE r == IF ExtendedLength(f) THEN get_u16(b, i + 2) ELSE get_u8(b, i + 2)
    <2>1. r = Ok(n, i + c)
      BY <1>10
    <2> HIDE DEF r
    <2>2. Then(r, LAMBDA len, l : K2(f, t, len, l)) = GoOn(r, LAMBDA len, l : K2(f, t, len, l))
      BY ThenGoesOn
    <2>3. GoOn(r, LAMBDA len, l : K2(f, t, len, l)) = K2(f, t, n, i + c)
      BY <2>1 DEF GoOn, Ok
    <2>4. Then(r, LAMBDA len, l : K2(f, t, len, l)) = z
      BY <1>12, <2>2, <2>3
    <2> QED BY <2>4, Zenon DEF r
  <1> HIDE DEF K1
  <1>14. K0(f, i + 1) = z
    <2>1. Then(Ok(t, i + 2), LAMBDA type, k : K1(f, type, k))
            = GoOn(Ok(t, i + 2), LAMBDA type, k : K1(f, type, k))
      BY ThenGoesOn
    <2>2. GoOn(Ok(t, i + 2), LAMBDA type, k : K1(f, type, k)) = K1(f, t, i + 2)
      BY DEF GoOn, Ok
    <2>3. Then(get_u8(b, i + 1), LAMBDA type, k : K1(f, type, k)) = z
      BY <1>9, <1>13, <2>1, <2>2
    <2> QED BY <2>3, Zenon
  <1> HIDE DEF K0
  <1>15. PathAttribute(b, i, peer) = z
    <2>1. Then(Ok(f, i + 1), LAMBDA flags, j : K0(flags, j))
            = GoOn(Ok(f, i + 1), LAMBDA flags, j : K0(flags, j))
      BY ThenGoesOn
    <2>2. GoOn(Ok(f, i + 1), LAMBDA flags, j : K0(flags, j)) = K0(f, i + 1)
      BY DEF GoOn, Ok
    <2> QED BY <1>1, <1>8, <1>14, <2>1, <2>2
  <1>16. PathAttribute(b, i, peer)
           = Ok([attr_flags |-> f, attr_type_code |-> a.type, attr_value |-> Meaning(a, peer)], i + m)
    BY <1>15 DEF z, Value, t, v
  <1>17. AttributeRead(PathAttribute(b, i, peer), a, peer, i + m)
    BY <1>16, Zenon DEF AttributeRead
  <1> QED BY <1>5, <1>17

\* The loop over the path attributes.
EveryAttribute(w, peer) == All(w, 0, LAMBDA c, k : PathAttribute(c, k, peer))

\* Attributes that can be sent to a peer, and what is to be read of them.
Sendable(as, peer) ==
    \A k \in 1 .. Len(as) : WellFormed(as[k]) /\ Fits(as[k], peer) /\ Narrow(as[k], peer)
SaysAttributes(r, as, peer) ==
    /\ r.code = "Ok" /\ Len(r.val) = Len(as)
    /\ \A k \in 1 .. Len(as) : /\ r.val[k].attr_type_code = as[k].type
                               /\ r.val[k].attr_value = Meaning(as[k], peer)

\* The path attributes of an UPDATE.
LEMMA AttributesRead ==
    ASSUME NEW as \in Seq(AnyAttribute), NEW peer,
           Sendable(as, peer), NEW w, w = AttributesOf(as),
           NEW r, r = EveryAttribute(w, peer)
    PROVE  w \in Seq(Octet) /\ SaysAttributes(r, as, peer)
  <1> DEFINE n == Len(as)
             es == [k \in DOMAIN as |-> Attribute(as[k])]
             D(c, k) == PathAttribute(c, k, peer)
             R(x, a) == x.attr_type_code = a.type /\ x.attr_value = Meaning(a, peer)
  <1>1. n \in Nat /\ DOMAIN as = 1 .. n /\ \A k \in 1 .. n : as[k] \in AnyAttribute
    BY LenProperties, ElementOfSeq
  <1>2. \A k \in 1 .. n : Attribute(as[k]) \in Seq(Octet)
    BY <1>1, AttributeOctets DEF AttributeLaid, Sized, Sendable
  <1>3. es \in Seq(Seq(Octet)) /\ Len(es) = n /\ \A k \in 1 .. n : es[k] = Attribute(as[k])
    <2>1. es \in [1 .. n -> Seq(Octet)]
      BY <1>1, <1>2
    <2>2. \A k \in 1 .. n : es[k] = Attribute(as[k])
      BY <1>1
    <2> HIDE DEF es, n
    <2>3. es \in Seq(Seq(Octet)) /\ DOMAIN es = 1 .. n
      BY <1>1, <2>1, SeqDef
    <2>4. Len(es) = n
      BY <1>1, <2>3, LenProperties
    <2> QED BY <2>2, <2>3, <2>4
  <1>4. w = FlattenSeq(es)
    BY DEF AttributesOf
  <1>5. \A k \in 1 .. n : WellFormed(as[k]) /\ Fits(as[k], peer) /\ Narrow(as[k], peer)
    BY DEF Sendable
  <1>6. r = All(w, 0, D)
    BY Zenon DEF EveryAttribute
  <1> HIDE DEF es, n
  <1>7. PICK o : Rows(w, es, o)
    BY <1>3, <1>4, FlattenRows
  <1>8. /\ w \in Seq(Octet)
        /\ o \in [0 .. n -> 0 .. Len(w)] /\ o[0] = 0 /\ o[n] = Len(w)
        /\ \A k \in 1 .. n : o[k] = o[k - 1] + Len(es[k]) /\ Holds(w, o[k - 1], es[k], Len(es[k]))
    BY <1>3, <1>7 DEF Rows
  <1>9. w \in Seq(Octet) /\ Len(w) \in Nat
    BY <1>8, LenProperties
  <1>10. Progresses(w, D)
    <2>1. ASSUME NEW k \in 0 .. Len(w) - 1 PROVE Ends(D(w, k), k + 1, Len(w))
      <3>1. k \in 0 .. Len(w)
        <4>1. Len(w) \in Nat
          BY <1>9
        <4>2. \A l \in Nat : \A j \in 0 .. l - 1 : j \in 0 .. l
          OBVIOUS
        <4> QED BY <4>1, <4>2, Zenon
      <3> HIDE DEF Octet
      <3> QED BY <1>9, <3>1, PathAttributeEnds
    <2> HIDE DEF D
    <2> QED BY <2>1 DEF Progresses
  <1> DEFINE v == [k \in 1 .. n |-> D(w, o[k - 1]).val]
  <1>11. \A k \in 1 .. n : v[k] = D(w, o[k - 1]).val
    OBVIOUS
  <1> HIDE DEF v
  <1>12. ASSUME NEW k \in 1 .. n
         PROVE  o[k - 1] < o[k] /\ D(w, o[k - 1]) = Ok(v[k], o[k]) /\ R(v[k], as[k])
    <2> DEFINE i == o[k - 1]
               m == Len(es[k])
               x == as[k]
    <2>1. k - 1 \in 0 .. n /\ k \in 0 .. n
      BY <1>1
    <2>2. i \in 0 .. Len(w) /\ o[k] \in 0 .. Len(w)
      BY <1>8, <2>1
    <2>3. /\ o[k] = i + m /\ Holds(w, i, Attribute(x), m) /\ m = Len(Attribute(x))
          /\ x \in AnyAttribute /\ WellFormed(x) /\ Fits(x, peer) /\ Narrow(x, peer)
      BY <1>1, <1>3, <1>5, <1>8
    <2> HIDE DEF i, m, x
    <2>4. i \in Nat /\ i + m <= Len(w)
      <3>1. i \in Nat /\ o[k] <= Len(w)
        <4>1. Len(w) \in Nat
          BY <1>9
        <4>2. \A l \in Nat : \A j \in 0 .. l : j \in Nat /\ j <= l
          OBVIOUS
        <4> QED BY <2>2, <4>1, <4>2, Zenon
      <3> QED BY <2>3, <3>1
    <2>5. AttributeRead(D(w, i), x, peer, i + m) /\ m \in Nat /\ m >= 1
      <3> HIDE DEF Octet
      <3> QED BY <1>9, <2>3, <2>4, AttributeAt
    <2> HIDE DEF D
    <2>6. PICK f : D(w, i) = Ok([attr_flags |-> f, attr_type_code |-> x.type,
                                 attr_value |-> Meaning(x, peer)], i + m)
      BY <2>5 DEF AttributeRead
    <2> DEFINE y == [attr_flags |-> f, attr_type_code |-> x.type, attr_value |-> Meaning(x, peer)]
    <2>7. R(y, x)
      OBVIOUS
    <2>8. D(w, i) = Ok(y, i + m)
      BY <2>6
    <2> HIDE DEF y, R
    <2>9. v[k] = y
      <3>1. v[k] = D(w, i).val
        BY <1>11 DEF i
      <3>2. Ok(y, i + m).val = y
        BY DEF Ok
      <3> QED BY <2>8, <3>1, <3>2
    <2>10. i < o[k]
      BY <2>3, <2>4, <2>5
    <2>11. i < o[k] /\ D(w, i) = Ok(v[k], o[k]) /\ R(v[k], x)
      BY <2>3, <2>7, <2>8, <2>9, <2>10
    <2> QED BY <2>11 DEF i, x
  <1> HIDE DEF D, R
  <1>13. Turns(w, D, v, o, n)
    BY <1>12 DEF Turns
  <1>14. LoopReads(All(w, o[0], D), v, 0, n, Len(w))
    BY <1>1, <1>8, <1>10, <1>13, AllReads
  <1>15. LoopReads(r, v, 0, n, Len(w))
    BY <1>6, <1>8, <1>14
  <1>16. r.code = "Ok" /\ Len(r.val) = n /\ \A k \in 1 .. n : r.val[k] = v[k]
    <2>1. n - 0 = n /\ \A k \in 1 .. n : 0 + k = k
      BY <1>1
    <2> QED BY <1>15, <2>1 DEF LoopReads
  <1>17. \A k \in 1 .. n : R(r.val[k], as[k])
    BY <1>12, <1>16
  <1> QED BY <1>9, <1>16, <1>17 DEF n, R, SaysAttributes

(***************************************************************************)
(* UPDATE                                                                  *)
(***************************************************************************)
\* A slice behind its length.
LEMMA SliceAt ==
    ASSUME NEW b \in Seq(Octet), NEW s, NEW n, Sized(s, n), NEW i \in Nat,
           256 * b[i + 1] + b[i + 2] = n, i + 2 + n <= Len(b), Holds(b, i + 2, s, n)
    PROVE  get_bytes_with_u16_length(b, i) = Ok(s, i + 2 + n)
  <1> DEFINE k == i + 2
             F(l, j) == get_bytes(b, j, l)
  <1>1. Len(b) \in Nat /\ n \in Nat /\ k \in Nat
    BY LenProperties DEF Sized
  <1>2. get_u16(b, i) = Ok(n, k)
    <2>1. k <= Len(b)
      BY <1>1
    <2> QED BY <2>1, OctetsAt
  <1>3. F(n, k) = Ok(s, k + n)
    <2>1. k + n <= Len(b) /\ Holds(b, k, s, n)
      OBVIOUS
    <2> HIDE DEF k, Octet
    <2>2. get_bytes(b, k, n) = Ok(s, k + n)
      BY <1>1, <2>1, BytesAt
    <2> QED BY <2>2
  <1>4. get_bytes_with_u16_length(b, i) = Then(get_u16(b, i), LAMBDA l, j : F(l, j))
    BY Zenon DEF get_bytes_with_u16_length
  <1> HIDE DEF F, k
  <1>5. Then(Ok(n, k), LAMBDA l, j : F(l, j)) = GoOn(Ok(n, k), LAMBDA l, j : F(l, j))
    BY ThenGoesOn
  <1>6. GoOn(Ok(n, k), LAMBDA l, j : F(l, j)) = F(n, k)
    BY DEF GoOn, Ok
  <1>7. get_bytes_with_u16_length(b, i) = Ok(s, k + n)
    <2>1. Then(get_u16(b, i), LAMBDA l, j : F(l, j)) = Then(Ok(n, k), LAMBDA l, j : F(l, j))
      BY <1>2, Zenon
    <2> QED BY <1>3, <1>4, <1>5, <1>6, <2>1, Zenon
  <1> QED BY <1>7 DEF k

\* Two lists behind their lengths, m and n octets long, and k octets more.
ListsLaid(b, w, m, a, n, k) ==
    /\ Sized(b, ((2 + m) + 2 + n) + k) /\ k \in Nat
    /\ 256 * b[1] + b[2] = m
    /\ Holds(b, 2, w, m)
    /\ 256 * b[(2 + m) + 1] + b[(2 + m) + 2] = n
    /\ Holds(b, (2 + m) + 2, a, n)

\* The body of an UPDATE that announces nothing.
LEMMA UpdateOctets ==
    ASSUME NEW w, NEW a, NEW m, NEW n, NEW z, Sized(w, m), Sized(a, n), Sized(z, 0),
           m <= 65535, n <= 65535
    PROVE  ListsLaid(U16(m) \o w \o U16(n) \o a \o z, w, m, a, n, 0)
  <1> DEFINE um == U16(m)
             un == U16(n)
             p1 == um \o w
             p2 == p1 \o un
             p3 == p2 \o a
             b == p3 \o z
  <1>1. m \in Nat /\ n \in Nat
    BY DEF Sized
  <1>2. Sized(um, 2) /\ 256 * um[1] + um[2] = m
    BY <1>1, U16Octets
  <1>3. Sized(un, 2) /\ 256 * un[1] + un[2] = n
    BY <1>1, U16Octets
  <1>4. U16(m) \o w \o U16(n) \o a \o z = b
    OBVIOUS
  <1> HIDE DEF um, un
  <1> DEFINE c == 2 + m
             d == c + 2
             e == d + n
  <1>5. c \in Nat /\ d \in Nat /\ e \in Nat /\ c >= 2
    BY <1>1
  <1>6. Sized(p1, c) /\ p1[1] = um[1] /\ p1[2] = um[2] /\ \A j \in 1 .. m : p1[2 + j] = w[j]
    <2>1. Joined(p1, um, 2, w, m)
      BY <1>2, Behind
    <2> HIDE DEF p1
    <2> QED BY <2>1 DEF Joined
  <1>7. /\ \A j \in 1 .. m : 2 + j \in 1 .. c
        /\ \A j \in 1 .. c : j \in 1 .. d
        /\ \A j \in 1 .. d : j \in 1 .. e
        /\ \A j \in 1 .. n : d + j \in 1 .. e
        /\ 1 \in 1 .. c /\ 2 \in 1 .. c /\ c + 1 \in 1 .. d /\ c + 2 \in 1 .. d
    BY <1>1
  <1> HIDE DEF p1, c
  <1>8. /\ Sized(p2, d) /\ (\A j \in 1 .. c : p2[j] = p1[j])
        /\ p2[c + 1] = un[1] /\ p2[c + 2] = un[2]
    <2>1. Joined(p2, p1, c, un, 2)
      BY <1>3, <1>6, Behind
    <2> HIDE DEF p2
    <2>2. \A j \in 1 .. 2 : p2[c + j] = un[j]
      BY <2>1 DEF Joined
    <2> QED BY <2>1, <2>2 DEF Joined
  <1> HIDE DEF p2, d
  <1>9. Sized(p3, e) /\ (\A j \in 1 .. d : p3[j] = p2[j]) /\ \A j \in 1 .. n : p3[d + j] = a[j]
    <2>1. Joined(p3, p2, d, a, n)
      BY <1>8, Behind
    <2> HIDE DEF p3
    <2> QED BY <2>1 DEF Joined
  <1> HIDE DEF p3, e
  <1>10. Sized(b, e) /\ \A j \in 1 .. e : b[j] = p3[j]
    <2>1. Joined(b, p3, e, z, 0)
      BY <1>9, Behind
    <2>2. e + 0 = e
      BY <1>5
    <2> HIDE DEF b
    <2> QED BY <2>1, <2>2 DEF Joined
  <1> HIDE DEF b
  <1>11. \A j \in 1 .. d : b[j] = p2[j]
    BY <1>7, <1>9, <1>10
  <1>12. \A j \in 1 .. c : b[j] = p1[j]
    BY <1>7, <1>8, <1>11
  <1>13. 256 * b[1] + b[2] = m
    <2>1. b[1] = um[1] /\ b[2] = um[2]
      BY <1>6, <1>7, <1>12
    <2> QED BY <1>2, <2>1
  <1>14. 256 * b[c + 1] + b[c + 2] = n
    <2>1. b[c + 1] = un[1] /\ b[c + 2] = un[2]
      BY <1>7, <1>8, <1>11
    <2> QED BY <1>3, <2>1
  <1>15. Holds(b, 2, w, m)
    BY <1>6, <1>7, <1>12 DEF Holds
  <1>16. Holds(b, d, a, n)
    BY <1>7, <1>9, <1>10 DEF Holds
  <1>17. ListsLaid(b, w, m, a, n, 0)
    <2>1. Sized(b, e + 0)
      <3>1. e + 0 = e
        BY <1>5
      <3> QED BY <1>10, <3>1
    <2> QED BY <2>1, <1>13, <1>14, <1>15, <1>16 DEF ListsLaid, c, d, e
  <1> QED BY <1>4, <1>17

\* The prefixes at the end are never refused: their decoders ask for more
\* octets or panic.
Unrefused(r) == r.code # "UpdateMessageError"
AlwaysUnrefused(F(_, _)) == \A v, i : Unrefused(F(v, i))

LEMMA ThenUnrefused ==
    ASSUME NEW F(_, _), NEW r, Unrefused(r), AlwaysUnrefused(F)
    PROVE  Unrefused(Then(r, F))
  <1>1. Then(r, F) = GoOn(r, F)
    BY ThenGoesOn
  <1>2. CASE r.code = "Ok"
    BY <1>1, <1>2 DEF GoOn, AlwaysUnrefused
  <1>3. CASE r.code # "Ok"
    BY <1>1, <1>3 DEF GoOn
  <1> QED BY <1>2, <1>3

\* One prefix, wherever it is read.
LEMMA NlriUnrefused ==
    ASSUME NEW b, NEW i
    PROVE  Unrefused(Nlri(b, i))
  <1> DEFINE V(length, c, k) == Ok([length |-> length, prefix |-> c.prefix], k)
             M(length, j) == Then(Cidr(b, j), LAMBDA c, k : V(length, c, k))
             P(n, s, k) == PrefixOf(n, s, k)
             R(n, j) == IF OverflowChecks /\ n + 7 > 255 THEN Panic ELSE
                        Then(get_bytes(b, j, PaddedLength(n)), LAMBDA s, k : P(n, s, k))
  <1>1. /\ \A v, k : Unrefused(Ok(v, k))
        /\ Unrefused(Panic) /\ Unrefused(BufferTooShort)
    BY DEF Unrefused, Ok, Panic, BufferTooShort, Err
  <1>2. \A j, n : Unrefused(get_u8(b, j)) /\ Unrefused(get_bytes(b, j, n))
    BY <1>1 DEF get_u8, get_bytes
  <1>3. \A n, s, k : Unrefused(P(n, s, k))
    BY <1>1 DEF PrefixOf
  <1>4. \A j : Cidr(b, j) = Then(get_u8(b, j), LAMBDA n, k : R(n, k))
    BY Zenon DEF Cidr, PrefixOf
  <1>5. Nlri(b, i) = Then(get_u8(b, i), LAMBDA length, j : M(length, j))
    BY Zenon DEF Nlri
  <1>6. \A length, c, k : Unrefused(V(length, c, k))
    BY <1>1
  <1> HIDE DEF P, V
  <1>7. ASSUME NEW n, NEW j PROVE Unrefused(R(n, j))
    <2>1. AlwaysUnrefused(LAMBDA s, k : P(n, s, k))
      BY <1>3, Zenon DEF AlwaysUnrefused
    <2>2. Unrefused(Then(get_bytes(b, j, PaddedLength(n)), LAMBDA s, k : P(n, s, k)))
      BY <1>2, <2>1, ThenUnrefused
    <2> QED BY <1>1, <2>2, Zenon
  <1> HIDE DEF R
  <1>8. ASSUME NEW j PROVE Unrefused(Cidr(b, j))
    <2>1. AlwaysUnrefused(LAMBDA n, k : R(n, k))
      BY <1>7, Zenon DEF AlwaysUnrefused
    <2>2. Unrefused(Then(get_u8(b, j), LAMBDA n, k : R(n, k)))
      BY <1>2, <2>1, ThenUnrefused
    <2> QED BY <1>4, <2>2, Zenon
  <1>9. ASSUME NEW length, NEW j PROVE Unrefused(M(length, j))
    <2>1. AlwaysUnrefused(LAMBDA c, k : V(length, c, k))
      BY <1>6, Zenon DEF AlwaysUnrefused
    <2>2. Unrefused(Then(Cidr(b, j), LAMBDA c, k : V(length, c, k)))
      BY <1>8, <2>1, ThenUnrefused
    <2> QED BY <2>2, Zenon
  <1> HIDE DEF M
  <1>10. AlwaysUnrefused(LAMBDA length, j : M(length, j))
    BY <1>9, Zenon DEF AlwaysUnrefused
  <1>11. Unrefused(Then(get_u8(b, i), LAMBDA length, j : M(length, j)))
    BY <1>2, <1>10, ThenUnrefused
  <1> QED BY <1>5, <1>11, Zenon

\* All of them: a loop ends as one of its turns does.
LEMMA AllUnrefused ==
    ASSUME NEW b \in Seq(Octet), NEW i \in 0 .. Len(b)
    PROVE  Unrefused(All(b, i, Nlri))
  <1> DEFINE N == Len(b)
             T == {m \in Nat : \A k \in 0 .. N : N - k <= m => Unrefused(All(b, k, Nlri))}
  <1>1. N \in Nat
    BY LenProperties
  <1>2. Progresses(b, Nlri)
    BY <1>1, NlriEnds DEF Progresses
  <1>3. /\ All(b, N, Nlri) = Ok(<<>>, N)
        /\ \A k \in 0 .. N - 1 :
             All(b, k, Nlri) = IF Nlri(b, k).code = "Ok"
                               THEN Prepend(Nlri(b, k).val, All(b, Nlri(b, k).off, Nlri))
                               ELSE Nlri(b, k)
    <2>1. Unrolls(b, Nlri)
      BY <1>2, AllStep
    <2> QED BY <2>1 DEF Unrolls
  <1>0. \A v, k : Unrefused(Ok(v, k))
    BY DEF Unrefused, Ok
  <1>4. Unrefused(All(b, N, Nlri))
    BY <1>0, <1>3, Zenon
  <1>5. 0 \in T
    BY <1>1, <1>4
  <1>6. ASSUME NEW m \in Nat, m \in T PROVE m + 1 \in T
    <2> SUFFICES ASSUME NEW k \in 0 .. N, N - k <= m + 1 PROVE Unrefused(All(b, k, Nlri))
      OBVIOUS
    <2>1. CASE k = N
      BY <1>4, <2>1
    <2>2. CASE k # N
      <3> DEFINE r == Nlri(b, k)
      <3>1. k \in 0 .. N - 1
        BY <1>1, <2>2
      <3>2. Ends(r, k + 1, N) /\ Unrefused(r)
        BY <1>2, <3>1, NlriUnrefused DEF Progresses
      <3>3. All(b, k, Nlri) = IF r.code = "Ok" THEN Prepend(r.val, All(b, r.off, Nlri)) ELSE r
        BY <1>3, <3>1
      <3> HIDE DEF r
      <3>4. CASE r.code # "Ok"
        BY <3>2, <3>3, <3>4
      <3>5. CASE r.code = "Ok"
        <4> DEFINE a == All(b, r.off, Nlri)
        <4>1. r.off \in 0 .. N /\ N - r.off <= m
          BY <1>1, <3>2, <3>5 DEF Ends
        <4>2. Unrefused(a)
          BY <1>6, <4>1
        <4>3. All(b, k, Nlri) = Prepend(r.val, a)
          BY <3>3, <3>5
        <4> HIDE DEF a
        <4>4. CASE a.code = "Ok"
          <5>1. Prepend(r.val, a) = Ok(<<r.val>> \o a.val, a.off)
            BY <4>4, PrependOff
          <5> QED BY <1>0, <4>3, <5>1, Zenon
        <4>5. CASE a.code # "Ok"
          <5>1. Prepend(r.val, a) = a
            BY <4>5, PrependOff
          <5> QED BY <4>2, <4>3, <5>1
        <4> QED BY <4>4, <4>5
      <3> QED BY <3>4, <3>5
    <2> QED BY <2>1, <2>2
  <1>7. N \in T
    <2> HIDE DEF T
    <2>1. \A m \in Nat : m \in T
      BY <1>5, <1>6, SetInduction
    <2> QED BY <1>1, <2>1
  <1> QED BY <1>1, <1>7

\* UpdateMsg::decode ends as the loop over the prefixes does, if its other
\* loops succeed.
LEMMA UpdateMsgReads ==
    ASSUME NEW b, NEW peer, NEW w, NEW m, NEW a, NEW n, Sized(w, m), Sized(a, n),
           NEW e, ListsLaid(b, w, m, a, n, e),
           All(w, 0, Cidr).code = "Ok", EveryAttribute(a, peer).code = "Ok",
           NEW rn, rn = All(b, (2 + m) + 2 + n, Nlri)
    PROVE  /\ UpdateMsg(b, peer)
                = IF rn.code = "Ok"
                  THEN Ok([withdrawn_routes |-> All(w, 0, Cidr).val,
                           path_attributes |-> EveryAttribute(a, peer).val,
                           nlri |-> rn.val], rn.off)
                  ELSE rn
           /\ Unrefused(rn)
  <1> DEFINE rw == All(w, 0, Cidr)
             ra == EveryAttribute(a, peer)
             c == 2 + m
             N == c + 2 + n
             Value(withdrawn, attrs, nlri, k) ==
               Ok([withdrawn_routes |-> withdrawn, path_attributes |-> attrs, nlri |-> nlri], k)
             K3(withdrawn, attrs, j) ==
               Then(All(b, j, Nlri), LAMBDA nlri, k : Value(withdrawn, attrs, nlri, k))
             K2(withdrawn, s, j) ==
               Then(All(s, 0, LAMBDA q, k : PathAttribute(q, k, peer)),
                    LAMBDA attrs, ia : K3(withdrawn, attrs, j))
             K1(withdrawn, i) ==
               Then(get_bytes_with_u16_length(b, i), LAMBDA s, j : K2(withdrawn, s, j))
             K0(s, i) == Then(All(s, 0, Cidr), LAMBDA withdrawn, iw : K1(withdrawn, i))
  <1>1. UpdateMsg(b, peer) = Then(get_bytes_with_u16_length(b, 0), LAMBDA s, i : K0(s, i))
    BY Zenon DEF UpdateMsg
  <1>2. /\ Sized(b, N + e) /\ e \in Nat /\ 256 * b[1] + b[2] = m /\ Holds(b, 2, w, m)
        /\ 256 * b[c + 1] + b[c + 2] = n /\ Holds(b, c + 2, a, n)
    BY DEF ListsLaid
  <1>3. m \in Nat /\ n \in Nat /\ c \in Nat /\ c = 2 + m /\ N \in Nat
    BY DEF Sized
  <1>4. b \in Seq(Octet) /\ N \in 0 .. Len(b) /\ Len(b) \in Nat
    <2> HIDE DEF N
    <2>1. b \in Seq(Octet) /\ Len(b) = N + e
      BY <1>2 DEF Sized
    <2> QED BY <1>2, <1>3, <2>1
  <1> HIDE DEF c
  <1>5. get_bytes_with_u16_length(b, 0) = Ok(w, c)
    <2>1. 0 + 1 = 1 /\ 0 + 2 = 2 /\ 0 + 2 + m = c /\ 0 + 2 + m <= Len(b)
      BY <1>3, <1>4
    <2>2. 256 * b[0 + 1] + b[0 + 2] = m /\ Holds(b, 0 + 2, w, m) /\ 0 + 2 + m <= Len(b)
      BY <1>2, <1>4, <2>1
    <2>3. get_bytes_with_u16_length(b, 0) = Ok(w, 0 + 2 + m)
      <3> HIDE DEF Octet
      <3> QED BY <1>4, <2>2, SliceAt
    <2> QED BY <2>1, <2>3
  <1>6. get_bytes_with_u16_length(b, c) = Ok(a, N)
    <2>1. c + 2 + n <= Len(b)
      BY <1>3, <1>4
    <2>2. get_bytes_with_u16_length(b, c) = Ok(a, c + 2 + n)
      <3>1. 256 * b[c + 1] + b[c + 2] = n /\ Holds(b, c + 2, a, n) /\ b \in Seq(Octet) /\ c \in Nat
        BY <1>2, <1>3, <1>4
      <3> HIDE DEF Octet
      <3> QED BY <2>1, <3>1, SliceAt
    <2> QED BY <1>4, <2>2
  <1>7. rn = All(b, N, Nlri) /\ Unrefused(rn)
    <2>1. rn = All(b, N, Nlri)
      BY Zenon DEF c
    <2> HIDE DEF N, Octet
    <2> QED BY <1>4, <2>1, AllUnrefused
  <1>8. rw.code = "Ok" /\ ra.code = "Ok"
    OBVIOUS
  <1> HIDE DEF N
  <1> DEFINE v == rw.val
             x == ra.val
             z == IF rn.code = "Ok" THEN Value(v, x, rn.val, rn.off) ELSE rn
  <1> HIDE DEF Value
  <1>9. K3(v, x, N) = z
    <2> HIDE DEF v, x
    <2>1. Then(rn, LAMBDA nlri, k : Value(v, x, nlri, k))
            = GoOn(rn, LAMBDA nlri, k : Value(v, x, nlri, k))
      BY ThenGoesOn
    <2>2. GoOn(rn, LAMBDA nlri, k : Value(v, x, nlri, k)) = z
      BY DEF GoOn
    <2>3. Then(All(b, N, Nlri), LAMBDA nlri, k : Value(v, x, nlri, k)) = z
      BY <1>7, <2>1, <2>2
    <2> QED BY <2>3, Zenon
  <1> HIDE DEF K3, z
  <1>10. K2(v, a, N) = z
    <2> HIDE DEF v, ra
    <2>1. Then(ra, LAMBDA attrs, ia : K3(v, attrs, N)) = GoOn(ra, LAMBDA attrs, ia : K3(v, attrs, N))
      BY ThenGoesOn
    <2>2. GoOn(ra, LAMBDA attrs, ia : K3(v, attrs, N)) = K3(v, x, N)
      BY <1>8 DEF GoOn
    <2>3. Then(ra, LAMBDA attrs, ia : K3(v, attrs, N)) = z
      BY <1>9, <2>1, <2>2
    <2> QED BY <2>3, Zenon DEF ra, EveryAttribute
  <1> HIDE DEF K2
  <1>11. K1(v, c) = z
    <2> HIDE DEF v
    <2>1. Then(Ok(a, N), LAMBDA s, j : K2(v, s, j)) = GoOn(Ok(a, N), LAMBDA s, j : K2(v, s, j))
      BY ThenGoesOn
    <2>2. GoOn(Ok(a, N), LAMBDA s, j : K2(v, s, j)) = K2(v, a, N)
      BY DEF GoOn, Ok
    <2>3. Then(get_bytes_with_u16_length(b, c), LAMBDA s, j : K2(v, s, j)) = z
      BY <1>6, <1>10, <2>1, <2>2
    <2> QED BY <2>3, Zenon
  <1> HIDE DEF K1
  <1>12. K0(w, c) = z
    <2> HIDE DEF rw
    <2>1. Then(rw, LAMBDA withdrawn, iw : K1(withdrawn, c))
            = GoOn(rw, LAMBDA withdrawn, iw : K1(withdrawn, c))
      BY ThenGoesOn
    <2>2. GoOn(rw, LAMBDA withdrawn, iw : K1(withdrawn, c)) = K1(v, c)
      BY <1>8 DEF GoOn
    <2>3. Then(rw, LAMBDA withdrawn, iw : K1(withdrawn, c)) = z
      BY <1>11, <2>1, <2>2
    <2> QED BY <2>3, Zenon DEF rw
  <1> HIDE DEF K0
  <1>13. UpdateMsg(b, peer) = z
    <2>1. Then(Ok(w, c), LAMBDA s, i : K0(s, i)) = GoOn(Ok(w, c), LAMBDA s, i : K0(s, i))
      BY ThenGoesOn
    <2>2. GoOn(Ok(w, c), LAMBDA s, i : K0(s, i)) = K0(w, c)
      BY DEF GoOn, Ok
    <2> QED BY <1>1, <1>5, <1>12, <2>1, <2>2
  <1> QED BY <1>7, <1>13 DEF z, Value

\* A longer sequence that begins with the lists.
LEMMA ListsBegin ==
    ASSUME NEW b, NEW q, NEW w, NEW m, NEW a, NEW n, NEW k \in Nat, NEW l,
           Sized(w, m), Sized(a, n), ListsLaid(b, w, m, a, n, 0), Sized(b, l), Sized(q, l + k),
           \A j \in 1 .. l : q[j] = b[j]
    PROVE  ListsLaid(q, w, m, a, n, k)
  <1> DEFINE c == 2 + m
             d == c + 2
             e == d + n
  <1>1. m \in Nat /\ n \in Nat /\ l \in Nat
    BY DEF Sized
  <1>2. /\ Sized(b, e + 0) /\ 256 * b[1] + b[2] = m /\ Holds(b, 2, w, m)
        /\ 256 * b[c + 1] + b[c + 2] = n /\ Holds(b, d, a, n)
    BY DEF ListsLaid
  <1>3. l = e
    <2>1. Len(b) = e + 0 /\ Len(b) = l /\ e \in Nat
      BY <1>1, <1>2 DEF Sized
    <2> HIDE DEF e
    <2> QED BY <2>1
  <1>4. /\ \A j \in 1 .. m : 2 + j \in 1 .. e
        /\ \A j \in 1 .. n : d + j \in 1 .. e
        /\ 1 \in 1 .. e /\ 2 \in 1 .. e /\ c + 1 \in 1 .. e /\ c + 2 \in 1 .. e
    BY <1>1
  <1> HIDE DEF c, d, e
  <1>5. \A j \in 1 .. e : q[j] = b[j]
    BY <1>3
  <1>6. 256 * q[1] + q[2] = m /\ 256 * q[c + 1] + q[c + 2] = n
    BY <1>2, <1>4, <1>5
  <1>7. Holds(q, 2, w, m) /\ Holds(q, d, a, n)
    BY <1>2, <1>4, <1>5 DEF Holds
  <1>8. Sized(q, e + k)
    BY <1>3
  <1> QED BY <1>6, <1>7, <1>8 DEF ListsLaid, c, d, e

\* The lists of an UPDATE are shorter than the UPDATE.
LEMMA ListsFit ==
    ASSUME NEW w \in Seq(Octet), NEW a \in Seq(Octet), NEW z \in Seq(Octet),
           NEW b, b = U16(Len(w)) \o w \o U16(Len(a)) \o a \o z
    PROVE  Len(w) + Len(a) <= Len(b)
  <1> DEFINE S == Nat
             um == U16(Len(w))
             un == U16(Len(a))
             p1 == um \o w
             p2 == p1 \o un
             p3 == p2 \o a
             p4 == p3 \o z
  <1>1. \A s \in Seq(Octet) : s \in Seq(S) /\ Len(s) \in Nat
    <2> SUFFICES ASSUME NEW s \in Seq(Octet) PROVE s \in Seq(S) /\ Len(s) \in Nat
      OBVIOUS
    <2>1. Len(s) \in Nat /\ s \in [1 .. Len(s) -> Octet]
      BY LenProperties
    <2>2. s \in [1 .. Len(s) -> S]
      <3>1. \A y \in Octet : y \in S
        BY DEF Octet
      <3> HIDE DEF S
      <3> QED BY <2>1, <3>1
    <2>3. \E k \in Nat : s \in [1 .. k -> S]
      BY <2>1, <2>2, Zenon
    <2> HIDE DEF S
    <2> QED BY <2>1, <2>3
  <1>2. \A n \in Nat : U16(n) \in Seq(S) /\ Len(U16(n)) = 2
    <2> TAKE n \in Nat
    <2>1. n \div 256 \in S /\ n % 256 \in S
      OBVIOUS
    <2> QED BY <2>1 DEF U16
  <1>3. /\ w \in Seq(S) /\ a \in Seq(S) /\ z \in Seq(S) /\ um \in Seq(S) /\ un \in Seq(S)
        /\ Len(w) \in Nat /\ Len(a) \in Nat /\ Len(z) \in Nat /\ Len(um) = 2 /\ Len(un) = 2
    BY <1>1, <1>2
  <1>4. b = p4
    OBVIOUS
  <1> HIDE DEF S, um, un
  <1>5. p1 \in Seq(S) /\ Len(p1) = Len(um) + Len(w)
    BY <1>3, ConcatProperties
  <1> HIDE DEF p1
  <1>6. p2 \in Seq(S) /\ Len(p2) = Len(p1) + Len(un)
    BY <1>3, <1>5, ConcatProperties
  <1> HIDE DEF p2
  <1>7. p3 \in Seq(S) /\ Len(p3) = Len(p2) + Len(a)
    BY <1>3, <1>6, ConcatProperties
  <1> HIDE DEF p3
  <1>8. Len(p4) = Len(p3) + Len(z)
    BY <1>3, <1>7, ConcatProperties
  <1> QED BY <1>3, <1>4, <1>5, <1>6, <1>7, <1>8

\* The message, if its body is read.
LEMMA UpdatePayload ==
    ASSUME NEW n, NEW q, NEW peer, peer # NoPeer, NEW r, r = UpdateMsg(q, peer),
           NEW p, p = Payload(HeaderSays(2, n), q, peer)
    PROVE  IF r.code = "Ok" THEN p.code = "Ok" /\ p.val.msg = r.val ELSE p = r
  <1> DEFINE h == HeaderSays(2, n)
             F(v, k) == Ok([type |-> h.msg_type, msg |-> v], k + MIN_MSG_LEN)
  <1>1. h.msg_type = "Update"
    BY DEF HeaderSays, MsgType
  <1>2. p = Then(Body(h.msg_type, q, peer), LAMBDA v, k : F(v, k))
    BY Zenon DEF Payload
  <1> HIDE DEF h
  <1>3. Body(h.msg_type, q, peer) = r
    BY <1>1 DEF Body
  <1>4. F(r.val, r.off).code = "Ok" /\ F(r.val, r.off).val.msg = r.val
    BY DEF Ok
  <1> HIDE DEF F
  <1>5. Then(r, LAMBDA v, k : F(v, k)) = GoOn(r, LAMBDA v, k : F(v, k))
    BY ThenGoesOn
  <1>6. p = GoOn(r, LAMBDA v, k : F(v, k))
    BY <1>2, <1>3, <1>5
  <1>7. p = IF r.code = "Ok" THEN F(r.val, r.off) ELSE r
    BY <1>6, Zenon DEF GoOn
  <1> QED BY <1>4, <1>7

\* Every UPDATE whose lists fit into it.
LEMMA EveryUpdate ==
    ASSUME ResultOfInput
    PROVE  UpdateBodyDecodes
  <1> SUFFICES ASSUME Decoded("update"), NarrowPaths PROVE UpdateBodyDecodes
    BY DEF UpdateBodyDecodes
  <1>1. input.of = "update" /\ result = Result
    BY DEF Decoded, ResultOfInput
  <1>2. PICK ws \in Withdrawn, as \in Attributes, peer \in Peers, next \in Following :
          /\ \A k \in DOMAIN as : Fits(as[k], peer)
          /\ input = [of |-> "update", withdrawn |-> ws, attributes |-> as,
                      peer |-> peer, next |-> next]
    <2>1. \A n : input # [of |-> "prefix", length |-> n]
      BY <1>1
    <2>2. \A f : input # [of |-> "open", fields |-> f]
      BY <1>1
    <2>3. \A f, p, n : input # [of |-> "cut", frame |-> f, cut |-> n, peer |-> p]
      BY <1>1
    <2> QED BY <2>1, <2>2, <2>3, Zenon DEF ResultOfInput, Input
  <1>3. /\ input.withdrawn = ws /\ input.attributes = as /\ input.peer = peer
        /\ input.next = next
    BY <1>2
  <1>4. ws \in Seq(CidrLength) /\ as \in Seq(AnyAttribute)
    BY OctetAssumption
  <1> DEFINE w == PrefixesOf(ws)
             a == AttributesOf(as)
             z == PrefixesOf(<<>>)
             m == Len(w)
             n == Len(a)
             b == UpdateBody(ws, as, <<>>)
             rw == All(w, 0, Cidr)
             ra == EveryAttribute(a, peer)
  <1>5. MIN_MSG_LEN + Len(b) <= U16MAX /\ \A k \in DOMAIN as : WellFormed(as[k])
    BY UpdateAssumption
  <1>6. DOMAIN ws = 1 .. Len(ws) /\ DOMAIN as = 1 .. Len(as)
    BY <1>4, LenProperties
  <1>7. /\ w \in Seq(Octet) /\ rw.code = "Ok" /\ Len(rw.val) = Len(ws)
        /\ \A k \in 1 .. Len(ws) : rw.val[k].length = ws[k]
    BY <1>4, RoutesRead
  <1>8. /\ a \in Seq(Octet) /\ ra.code = "Ok" /\ Len(ra.val) = Len(as)
        /\ \A k \in 1 .. Len(as) : /\ ra.val[k].attr_type_code = as[k].type
                                   /\ ra.val[k].attr_value = Meaning(as[k], peer)
    <2>1. Sendable(as, peer)
      BY <1>2, <1>3, <1>5, <1>6 DEF Sendable, Narrow, NarrowPaths
    <2>2. a \in Seq(Octet) /\ SaysAttributes(ra, as, peer)
      BY <1>4, <2>1, AttributesRead
    <2> QED BY <2>2 DEF SaysAttributes
  <1>9. Sized(z, 0)
    <2> DEFINE none == <<>>
               rz == All(z, 0, Cidr)
    <2>1. none \in Seq(CidrLength) /\ Len(none) = 0
      OBVIOUS
    <2> HIDE DEF none
    <2>2. z = PrefixesOf(none)
      BY DEF none
    <2> HIDE DEF z
    <2>3. z \in Seq(Octet)
      BY <2>1, <2>2, RoutesRead
    <2>4. Len(z) = 0
      <3> DEFINE es == [k \in DOMAIN none |-> Prefix(none[k])]
      <3>1. DOMAIN none = {} /\ DOMAIN none = 1 .. 0
        BY <2>1, LenProperties
      <3>2. es \in [1 .. 0 -> {0}]
        BY <3>1
      <3>3. es \in Seq({0}) /\ DOMAIN es = 1 .. 0
        BY <3>1, <3>2, SeqDef
      <3>4. z = FlattenSeq(es)
        BY <2>2 DEF PrefixesOf
      <3> HIDE DEF es
      <3>5. Len(es) = 0
        BY <3>3, LenProperties
      <3> QED BY <3>4, <3>5 DEF FlattenSeq
    <2> QED BY <2>3, <2>4 DEF Sized
  <1>10. b = U16(m) \o w \o U16(n) \o a \o z
    BY DEF UpdateBody
  <1> DEFINE l == Len(b)
             e == Len(next)
             f == Frame(2, b) \o next
             q == Slice(f, 19 + l)
             h == HeaderSays(2, l)
  <1>11. result = Decode(f, peer) /\ peer # NoPeer
    BY <1>1, <1>2, <1>3, OctetAssumption DEF Result
  <1> HIDE DEF w, a, z, b, rw, ra
  <1>12. Sized(w, m) /\ Sized(a, n)
    BY <1>7, <1>8, LenProperties DEF Sized
  <1>13. ListsLaid(b, w, m, a, n, 0)
    <2>1. m + n <= l
      BY <1>7, <1>8, <1>9, <1>10, ListsFit DEF Sized
    <2>2. m <= 65535 /\ n <= 65535
      <3>1. m \in Nat /\ n \in Nat
        BY <1>12 DEF Sized
      <3>2. 19 + l <= 65535
        BY <1>5 DEF U16MAX, MIN_MSG_LEN
      <3>3. l \in Nat
        BY <1>10 DEF U16
      <3> HIDE DEF m, n, l
      <3> QED BY <2>1, <3>1, <3>2, <3>3
    <2> HIDE DEF m, n
    <2> QED BY <1>9, <1>10, <1>12, <2>2, UpdateOctets
  <1>14. Sized(b, l) /\ l \in Nat /\ l >= 4 /\ 19 + l <= 65535 /\ l <= 65516
    <2>1. b \in Seq(Octet) /\ l = ((2 + m) + 2 + n) + 0 /\ m \in Nat /\ n \in Nat
      BY <1>12, <1>13 DEF ListsLaid, Sized
    <2>2. 19 + l <= 65535
      BY <1>5 DEF U16MAX, MIN_MSG_LEN
    <2> HIDE DEF m, n
    <2>3. l \in Nat /\ l >= 4
      BY <2>1
    <2>4. Sized(b, l)
      BY <2>1, <2>3 DEF Sized
    <2> HIDE DEF l
    <2> QED BY <2>2, <2>3, <2>4
  <1>15. Sized(next, e)
    BY OctetAssumption, LenProperties DEF Sized
  <1> HIDE DEF m, n, l, e
  <1>16. Framed(f, 2, b, l, next, e)
    <2>1. 2 \in Octet
      BY DEF Octet
    <2> HIDE DEF Octet
    <2> QED BY <1>14, <1>15, <2>1, FrameOctets
  <1> HIDE DEF f
  <1>17. Decode(f, peer) = IF e < 19 THEN BufferTooShort ELSE Payload(h, q, peer)
    <2>1. ~BadLength(2, 19 + l)
      BY <1>14 DEF BadLength, MinLen, MsgType
    <2>2. 2 \in 1 .. 4 /\ e \in Nat /\ l \in Nat
      BY <1>14, <1>15 DEF Sized
    <2>3. FramedIs(f, 2, l, e, peer)
      BY <1>16, <2>1, <2>2, FramedDecodes
    <2> QED BY <2>3 DEF FramedIs
  <1>18. CASE e < 19
    <2>1. result = BufferTooShort
      BY <1>11, <1>17, <1>18
    <2>2. result.code = "LocalLogicError"
      BY <2>1 DEF BufferTooShort, Err
    <2> QED BY <2>2 DEF UpdateBodyDecodes
  <1>19. CASE ~(e < 19)
    <2> DEFINE r == UpdateMsg(q, peer)
               rn == All(q, (2 + m) + 2 + n, Nlri)
               x == [withdrawn_routes |-> rw.val, path_attributes |-> ra.val, nlri |-> rn.val]
    <2>1. ListsLaid(q, w, m, a, n, 19)
      <3>1. Sized(f, 19 + l + e) /\ (\A j \in 1 .. l : f[19 + j] = b[j]) /\ e \in Nat
        BY <1>15, <1>16 DEF Framed, Sized
      <3>2. 19 + l \in Nat /\ 19 + (19 + l) <= 19 + l + e /\ 19 + l = l + 19
        BY <1>14, <1>19, <3>1
      <3>3. Sized(q, 19 + l) /\ \A j \in 1 .. 19 + l : q[j] = f[19 + j]
        BY <3>1, <3>2, SliceOctets
      <3> HIDE DEF q
      <3>4. \A j \in 1 .. l : j \in 1 .. 19 + l
        BY <1>14
      <3>5. \A j \in 1 .. l : q[j] = b[j]
        BY <3>1, <3>3, <3>4
      <3>6. Sized(q, l + 19) /\ 19 \in Nat
        BY <3>2, <3>3
      <3> QED BY <1>12, <1>13, <1>14, <3>5, <3>6, ListsBegin
    <2> HIDE DEF q
    <2>2. r = (IF rn.code = "Ok" THEN Ok(x, rn.off) ELSE rn) /\ Unrefused(rn)
      <3>1. All(w, 0, Cidr).code = "Ok" /\ EveryAttribute(a, peer).code = "Ok"
        BY <1>7, <1>8 DEF rw, ra
      <3> QED BY <1>12, <2>1, <3>1, UpdateMsgReads DEF rw, ra
    <2>3. x.withdrawn_routes = rw.val /\ x.path_attributes = ra.val
      OBVIOUS
    <2> HIDE DEF x, rn
    <2>4. IF r.code = "Ok" THEN result.code = "Ok" /\ result.val.msg = r.val ELSE result = r
      <3>1. result = Payload(h, q, peer)
        BY <1>11, <1>17, <1>19
      <3> QED BY <1>11, <3>1, UpdatePayload
    <2> HIDE DEF r
    <2>5. CASE rn.code = "Ok"
      <3>1. r.code = "Ok" /\ r.val = x
        BY <2>2, <2>5 DEF Ok
      <3>2. result.code = "Ok" /\ result.val.msg = x
        BY <2>4, <3>1
      <3>3. result.code # "UpdateMessageError"
        BY <3>2
      <3>4. /\ result.val.msg.withdrawn_routes = rw.val
            /\ result.val.msg.path_attributes = ra.val
        BY <2>3, <3>2
      <3> QED BY <1>3, <1>6, <1>7, <1>8, <3>3, <3>4 DEF UpdateBodyDecodes
    <2>6. CASE rn.code # "Ok"
      <3>1. r = rn /\ result = rn
        BY <2>2, <2>4, <2>6
      <3> QED BY <2>2, <2>6, <3>1 DEF UpdateBodyDecodes, Unrefused
    <2> QED BY <2>5, <2>6
  <1> QED BY <1>18, <1>19

\* However long the lists of withdrawn routes and of path attributes of an
\* UPDATE, and whatever has arrived behind it, Message::decode does not refuse
\* it and returns it, if at all, with the lists that were sent: AGGREGATOR as
\* wide as the peer's OPEN said, AS_PATH if its AS numbers have two octets.
THEOREM UpdatesDecode == Spec => []UpdateBodyDecodes
  <1>1. ResultOfInput => UpdateBodyDecodes
    BY EveryUpdate
  <1> QED BY <1>1, ResultInvariance, PTL
=============================================================================
