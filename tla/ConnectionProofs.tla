-------------------------- MODULE ConnectionProofs --------------------------
(***************************************************************************)
(* A connection loses no octet of its stream and no message of run, for    *)
(* any streams, any pieces they arrive in and any capacities.              *)
(*                                                                         *)
(* Kept is the part of PiecesDoNotMatter that every step has to keep; that *)
(* the pieces do not matter then follows from DecodeStable.  What run is   *)
(* told is what the stream says: Reports, the invariant for that, sets     *)
(* each state of a task against a number of messages of its stream.        *)
(***************************************************************************)
EXTENDS ConnectionStream, MessageProofs

\* The buffer holds what has arrived and has not been decoded.
Kept == taken <= arrived /\ buffer = SubSeq(stream, taken + 1, arrived)

\* What run has put into the channel of process is written, in that order,
\* or still in the channel, unless the task has been aborted or has failed.
OutgoingKept == why \in {"", "closed"} => given = written \o out

\* The channel for events is a sequence, whatever the events are, and a task
\* that has not ended has no reason for its end.
Channels ==
    /\ \E E : bgp \in Seq(E) /\ held \in Seq(E)
    /\ task # "ended" => why = ""

IInv == TypeOK /\ Kept /\ OutgoingKept /\ Channels

(***************************************************************************)
(* Sequences                                                               *)
(***************************************************************************)
\* A slice has its octets.
LEMMA Slice ==
    ASSUME NEW S, NEW s \in Seq(S), NEW a \in Nat, NEW c \in Nat, a <= c, c <= Len(s)
    PROVE  /\ SubSeq(s, a + 1, c) \in Seq(S)
           /\ Len(SubSeq(s, a + 1, c)) = c - a
           /\ \A i \in 1 .. c - a : SubSeq(s, a + 1, c)[i] = s[a + i]
  <1>1. Len(s) \in Nat /\ \A i \in 1 .. Len(s) : s[i] \in S
    BY ElementOfSeq, LenProperties
  <1>2. \A i \in a + 1 .. c : i \in 1 .. Len(s)
    BY <1>1
  <1>3. \A i \in a + 1 .. c : s[i] \in S
    BY <1>1, <1>2
  <1>4. a + 1 \in Int /\ c \in Int
    OBVIOUS
  <1> DEFINE m == a + 1
  <1> HIDE DEF m
  <1>5. /\ SubSeq(s, m, c) \in Seq(S)
        /\ Len(SubSeq(s, m, c)) = IF m <= c THEN c - m + 1 ELSE 0
        /\ \A i \in 1 .. c - m + 1 : SubSeq(s, m, c)[i] = s[m + i - 1]
    BY <1>3, <1>4, SubSeqProperties DEF m
  <1> DEFINE t == SubSeq(s, m, c)
  <1> HIDE DEF t
  <1>6. Len(t) = c - a
    BY <1>5 DEF m, t
  <1>7. ASSUME NEW i \in 1 .. c - a PROVE t[i] = s[a + i]
    <2>1. i \in 1 .. c - m + 1 /\ m + i - 1 = a + i
      BY DEF m
    <2> QED BY <1>5, <2>1 DEF t
  <1> QED BY <1>5, <1>6, <1>7 DEF m, t

\* Two slices that follow each other are one.
LEMMA SlicesJoin ==
    ASSUME NEW S, NEW s \in Seq(S), NEW a \in Nat, NEW b \in Nat, NEW c \in Nat,
           a <= b, b <= c, c <= Len(s)
    PROVE  SubSeq(s, a + 1, b) \o SubSeq(s, b + 1, c) = SubSeq(s, a + 1, c)
  <1> DEFINE t == SubSeq(s, a + 1, b)
             u == SubSeq(s, b + 1, c)
             v == SubSeq(s, a + 1, c)
  <1>0. Len(s) \in Nat
    BY LenProperties
  <1>1. t \in Seq(S) /\ Len(t) = b - a /\ \A i \in 1 .. b - a : t[i] = s[a + i]
    BY <1>0, Slice
  <1>2. u \in Seq(S) /\ Len(u) = c - b /\ \A i \in 1 .. c - b : u[i] = s[b + i]
    BY Slice
  <1>3. v \in Seq(S) /\ Len(v) = c - a /\ \A i \in 1 .. c - a : v[i] = s[a + i]
    BY Slice
  <1> HIDE DEF t, u, v
  <1>4. /\ t \o u \in Seq(S) /\ Len(t \o u) = Len(t) + Len(u)
        /\ \A i \in 1 .. Len(t) + Len(u) :
              (t \o u)[i] = IF i <= Len(t) THEN t[i] ELSE u[i - Len(t)]
    BY <1>1, <1>2, ConcatProperties
  <1>5. Len(t \o u) = Len(v)
    BY <1>1, <1>2, <1>3, <1>4
  <1>6. ASSUME NEW i \in 1 .. Len(t \o u) PROVE (t \o u)[i] = v[i]
    <2>1. i \in 1 .. c - a /\ i \in 1 .. Len(t) + Len(u)
      BY <1>3, <1>4, <1>5
    <2>2. v[i] = s[a + i]
      BY <1>3, <2>1
    <2>3. CASE i <= b - a
      <3>1. i \in 1 .. b - a
        BY <2>1, <2>3
      <3> QED BY <1>1, <1>4, <2>1, <2>2, <2>3, <3>1
    <2>4. CASE ~(i <= b - a)
      <3>1. i - (b - a) \in 1 .. c - b /\ b + (i - (b - a)) = a + i
        BY <2>1, <2>4
      <3>2. (t \o u)[i] = u[i - (b - a)]
        BY <1>1, <1>4, <2>1, <2>4
      <3>3. u[i - (b - a)] = s[b + (i - (b - a))]
        BY <1>2, <3>1
      <3> QED BY <2>2, <3>1, <3>2, <3>3
    <2> QED BY <2>3, <2>4
  <1>7. t \o u = v
    BY <1>3, <1>4, <1>5, <1>6, SeqEqual
  <1> QED BY <1>7 DEF t, u, v

\* A slice of a slice.
LEMMA SliceOfSlice ==
    ASSUME NEW S, NEW s \in Seq(S), NEW a \in Nat, NEW c \in Nat, NEW n \in Nat,
           a + n <= c, c <= Len(s)
    PROVE  SubSeq(SubSeq(s, a + 1, c), n + 1, c - a) = SubSeq(s, a + n + 1, c)
  <1> DEFINE t == SubSeq(s, a + 1, c)
             k == c - a
             u == SubSeq(t, n + 1, k)
             m == a + n
             v == SubSeq(s, m + 1, c)
  <1>0. k \in Nat /\ n <= k /\ m \in Nat /\ m <= c /\ a <= c /\ k - n = c - m
    OBVIOUS
  <1>1. t \in Seq(S) /\ Len(t) = k /\ \A i \in 1 .. k : t[i] = s[a + i]
    BY <1>0, Slice
  <1> HIDE DEF t
  <1>2. u \in Seq(S) /\ Len(u) = k - n /\ \A i \in 1 .. k - n : u[i] = t[n + i]
    <2> HIDE DEF k
    <2> QED BY <1>0, <1>1, Slice
  <1>3. v \in Seq(S) /\ Len(v) = c - m /\ \A i \in 1 .. c - m : v[i] = s[m + i]
    <2> HIDE DEF m
    <2> QED BY <1>0, Slice
  <1> HIDE DEF u, v
  <1>4. ASSUME NEW i \in 1 .. Len(u) PROVE u[i] = v[i]
    <2>1. i \in 1 .. k - n /\ i \in 1 .. c - m /\ n + i \in 1 .. k /\ a + (n + i) = m + i
      BY <1>0, <1>2
    <2> HIDE DEF k, m
    <2>2. u[i] = s[a + (n + i)]
      BY <1>1, <1>2, <2>1
    <2>3. v[i] = s[m + i]
      BY <1>3, <2>1
    <2> QED BY <2>1, <2>2, <2>3
  <1>5. u = v
    BY <1>0, <1>2, <1>3, <1>4, SeqEqual
  <1> QED BY <1>5 DEF t, k, u, m, v

\* Moving the head of one sequence to the end of another.
LEMMA MoveHead ==
    ASSUME NEW S, NEW g \in Seq(S), NEW a \in Seq(S), a # <<>>
    PROVE  Append(g, Head(a)) \o Tail(a) = g \o a
  <1> DEFINE h == Append(g, Head(a))
  <1>1. /\ Head(a) \in S /\ Tail(a) \in Seq(S) /\ Len(Tail(a)) = Len(a) - 1
        /\ \A i \in 1 .. Len(Tail(a)) : Tail(a)[i] = a[i + 1]
        /\ Head(a) = a[1]
    BY HeadTailProperties
  <1>2. /\ h \in Seq(S) /\ Len(h) = Len(g) + 1
        /\ \A i \in 1 .. Len(g) : h[i] = g[i]
        /\ h[Len(g) + 1] = a[1]
    BY <1>1, AppendProperties
  <1> HIDE DEF h
  <1>3. /\ h \o Tail(a) \in Seq(S)
        /\ Len(h \o Tail(a)) = Len(h) + Len(Tail(a))
        /\ \A i \in 1 .. Len(h) + Len(Tail(a)) : (h \o Tail(a))[i] =
              IF i <= Len(h) THEN h[i] ELSE Tail(a)[i - Len(h)]
    BY <1>1, <1>2, ConcatProperties
  <1>4. /\ g \o a \in Seq(S)
        /\ Len(g \o a) = Len(g) + Len(a)
        /\ \A i \in 1 .. Len(g) + Len(a) : (g \o a)[i] =
              IF i <= Len(g) THEN g[i] ELSE a[i - Len(g)]
    BY ConcatProperties
  <1>5. Len(g) \in Nat /\ Len(a) \in Nat
    BY LenProperties
  <1>6. Len(h \o Tail(a)) = Len(g \o a)
    BY <1>1, <1>2, <1>3, <1>4, <1>5
  <1>7. ASSUME NEW i \in 1 .. Len(h \o Tail(a)) PROVE (h \o Tail(a))[i] = (g \o a)[i]
    BY <1>1, <1>2, <1>3, <1>4, <1>5, <1>6
  <1>8. h \o Tail(a) = g \o a
    BY <1>3, <1>4, <1>6, <1>7, SeqEqual
  <1> QED BY <1>8 DEF h

\* Adding to the second of two sequences is adding to both of them.
LEMMA AppendBehind ==
    ASSUME NEW S, NEW g \in Seq(S), NEW a \in Seq(S), NEW e \in S
    PROVE  g \o Append(a, e) = Append(g \o a, e)
  <1> DEFINE b == Append(a, e)
             c == g \o a
             d == Append(c, e)
  <1>1. /\ b \in Seq(S) /\ Len(b) = Len(a) + 1
        /\ \A i \in 1 .. Len(a) : b[i] = a[i]
        /\ b[Len(a) + 1] = e
    BY AppendProperties
  <1>2. /\ c \in Seq(S) /\ Len(c) = Len(g) + Len(a)
        /\ \A i \in 1 .. Len(g) + Len(a) : c[i] = IF i <= Len(g) THEN g[i] ELSE a[i - Len(g)]
    BY ConcatProperties
  <1>3. /\ d \in Seq(S) /\ Len(d) = Len(c) + 1
        /\ \A i \in 1 .. Len(c) : d[i] = c[i]
        /\ d[Len(c) + 1] = e
    <2> HIDE DEF c
    <2> QED BY <1>2, AppendProperties
  <1> HIDE DEF b, c, d
  <1>4. /\ g \o b \in Seq(S) /\ Len(g \o b) = Len(g) + Len(b)
        /\ \A i \in 1 .. Len(g) + Len(b) :
              (g \o b)[i] = IF i <= Len(g) THEN g[i] ELSE b[i - Len(g)]
    BY <1>1, ConcatProperties
  <1>5. Len(g) \in Nat /\ Len(a) \in Nat
    BY LenProperties
  <1>6. Len(g \o b) = Len(d)
    BY <1>1, <1>2, <1>3, <1>4, <1>5
  <1>7. ASSUME NEW i \in 1 .. Len(g \o b) PROVE (g \o b)[i] = d[i]
    <2>1. i \in 1 .. Len(g) + Len(b) /\ i \in Int
      BY <1>1, <1>4, <1>5
    <2>2. CASE i <= Len(g)
      <3>1. i \in 1 .. Len(c)
        BY <1>2, <1>5, <2>1, <2>2
      <3> QED BY <1>2, <1>3, <1>4, <2>1, <2>2, <3>1
    <2>3. CASE i > Len(g) /\ i <= Len(c)
      <3>1. i \in 1 .. Len(c) /\ i - Len(g) \in 1 .. Len(a) /\ ~(i <= Len(g))
        BY <1>2, <1>5, <2>1, <2>3
      <3>2. (g \o b)[i] = a[i - Len(g)]
        BY <1>1, <1>4, <2>1, <3>1
      <3>3. d[i] = a[i - Len(g)]
        BY <1>2, <1>3, <3>1
      <3> QED BY <3>2, <3>3
    <2>4. CASE i > Len(c)
      <3>1. i = Len(c) + 1 /\ i - Len(g) = Len(a) + 1 /\ ~(i <= Len(g))
        <4>1. Len(b) = Len(a) + 1 /\ Len(c) = Len(g) + Len(a)
          BY <1>1, <1>2
        <4>2. Len(g) \in Int /\ Len(a) \in Int /\ Len(a) >= 0
          BY <1>5
        <4>3. i <= Len(g) + (Len(a) + 1) /\ i > Len(g) + Len(a) /\ i \in Int
          BY <2>1, <2>4, <4>1
        <4> HIDE DEF b, c, d
        <4>4. i = Len(g) + Len(a) + 1
          BY <4>2, <4>3
        <4> QED BY <4>1, <4>2, <4>4
      <3>2. (g \o b)[i] = e
        BY <1>1, <1>4, <2>1, <3>1
      <3> QED BY <1>3, <3>1, <3>2
    <2> QED BY <1>2, <1>5, <2>1, <2>2, <2>3, <2>4
  <1>8. g \o b = d
    BY <1>3, <1>4, <1>6, <1>7, SeqEqual
  <1> QED BY <1>8 DEF b, c, d

\* Any two sequences are sequences over one set.
LEMMA OneSet ==
    ASSUME NEW A, NEW B, NEW s \in Seq(A), NEW t \in Seq(B)
    PROVE  s \in Seq(A \cup B) /\ t \in Seq(A \cup B)
  BY SeqMonotonic

(***************************************************************************)
(* What is reported                                                        *)
(***************************************************************************)
\* At most one event comes of a message.
LEMMA OneEvent ==
    ASSUME NEW r
    PROVE  /\ Len(EventOf(r)) <= 1
           /\ \E E : EventOf(r) \in Seq(E)
  <1>1. \E e : EventOf(r) = <<e>> \/ EventOf(r) = <<>>
    BY DEF EventOf
  <1>2. PICK e : EventOf(r) = <<e>> \/ EventOf(r) = <<>>
    BY <1>1
  <1>3. <<e>> \in Seq({e}) /\ <<>> \in Seq({e}) /\ Len(<<e>>) = 1 /\ Len(<<>>) = 0
    OBVIOUS
  <1>4. Len(EventOf(r)) <= 1
    <2> DEFINE n == Len(EventOf(r))
    <2>1. n = 1 \/ n = 0
      BY <1>2, <1>3, Zenon
    <2> HIDE DEF n
    <2>2. n <= 1
      BY <2>1
    <2> QED BY <2>2 DEF n
  <1>5. EventOf(r) \in Seq({e})
    BY <1>2, <1>3
  <1> QED BY <1>4, <1>5

(***************************************************************************)
(* The octets                                                              *)
(***************************************************************************)
\* Reading adds the octets that come next.
LEMMA ReadBufKeeps ==
    ASSUME TypeOK, Kept, NEW n \in Piece, ReadBuf(n)
    PROVE  /\ Kept' /\ buffer' \in Seq(0..255)
           /\ arrived' \in 0..Len(stream)
  <1>1. /\ stream \in Seq(0..255) /\ Len(stream) \in Nat
        /\ arrived \in Nat /\ taken \in Nat /\ taken <= arrived
        /\ n \in Nat /\ arrived < Len(stream)
    BY StreamAssumption DEF TypeOK, Kept, ReadBuf
  <1> DEFINE m == IF arrived + n <= Len(stream) THEN arrived + n ELSE Len(stream)
  <1>2. m \in Nat /\ arrived <= m /\ m <= Len(stream)
    BY <1>1
  <1>3. /\ buffer' = buffer \o SubSeq(stream, arrived + 1, m) /\ arrived' = m
        /\ stream' = stream /\ taken' = taken
    BY DEF ReadBuf
  <1> HIDE DEF m
  <1>4. buffer = SubSeq(stream, taken + 1, arrived)
    BY DEF Kept
  <1>5. SubSeq(stream, taken + 1, arrived) \o SubSeq(stream, arrived + 1, m)
          = SubSeq(stream, taken + 1, m)
    BY <1>1, <1>2, SlicesJoin
  <1>6. buffer' = SubSeq(stream, taken + 1, m)
    BY <1>3, <1>4, <1>5
  <1>7. taken <= m
    BY <1>1, <1>2
  <1>8. buffer' \in Seq(0..255)
    BY <1>1, <1>2, <1>6, <1>7, Slice
  <1>9. arrived' \in 0..Len(stream)
    BY <1>1, <1>2, <1>3
  <1>10. Kept'
    BY <1>3, <1>6, <1>7 DEF Kept
  <1> QED BY <1>8, <1>9, <1>10

\* Advancing past a message takes its octets and no others.
LEMMA AdvanceKeeps ==
    ASSUME TypeOK, Kept, NEW r, r.off \in 0..Len(buffer), Advance(r),
           UNCHANGED <<stream, arrived>>
    PROVE  Kept' /\ buffer' \in Seq(0..255) /\ taken' \in Nat
  <1>1. /\ stream \in Seq(0..255) /\ Len(stream) \in Nat
        /\ arrived \in Nat /\ taken \in Nat /\ taken <= arrived /\ arrived <= Len(stream)
    BY StreamAssumption DEF TypeOK, Kept
  <1>2. buffer = SubSeq(stream, taken + 1, arrived)
    BY DEF Kept
  <1>3. Len(buffer) = arrived - taken
    BY <1>1, <1>2, Slice
  <1> DEFINE n == r.off
  <1>4. n \in Nat /\ taken + n <= arrived
    BY <1>1, <1>3
  <1>5. buffer' = SubSeq(buffer, n + 1, arrived - taken) /\ taken' = taken + n
    BY <1>3 DEF Advance
  <1> HIDE DEF n
  <1>6. buffer' = SubSeq(stream, taken + n + 1, arrived)
    BY <1>1, <1>2, <1>4, <1>5, SliceOfSlice
  <1> DEFINE m == taken + n
  <1>7. m \in Nat /\ m <= arrived /\ taken' = m /\ buffer' = SubSeq(stream, m + 1, arrived)
    BY <1>1, <1>4, <1>5, <1>6
  <1> HIDE DEF m
  <1>8. buffer' \in Seq(0..255)
    BY <1>1, <1>7, Slice
  <1> QED BY <1>7, <1>8 DEF Kept

\* What decode makes of the buffer, it makes of all that is left of the stream.
LEMMA KeptDecodes ==
    ASSUME TypeOK, Kept
    PROVE  PiecesDoNotMatter
  <1>1. /\ stream \in Seq(0..255) /\ Len(stream) \in Nat
        /\ arrived \in Nat /\ taken \in Nat /\ taken <= arrived /\ arrived <= Len(stream)
        /\ taken <= Len(stream)
    BY StreamAssumption DEF TypeOK, Kept
  <1>2. buffer = SubSeq(stream, taken + 1, arrived)
    BY DEF Kept
  <1> DEFINE n == Len(stream)
             rest == SubSeq(stream, taken + 1, n)
  <1>3. n \in Nat /\ n <= Len(stream) /\ taken <= n /\ arrived <= n
    BY <1>1
  <1>4. /\ buffer \in Seq(0..255) /\ Len(buffer) = arrived - taken
        /\ \A i \in 1 .. arrived - taken : buffer[i] = stream[taken + i]
    <2> DEFINE S == 0..255
    <2>1. stream \in Seq(S)
      BY <1>1
    <2> HIDE DEF S
    <2>2. /\ buffer \in Seq(S) /\ Len(buffer) = arrived - taken
          /\ \A i \in 1 .. arrived - taken : buffer[i] = stream[taken + i]
      BY <1>1, <1>2, <2>1, Slice
    <2> QED BY <2>2 DEF S
  <1> HIDE DEF n
  <1>5. /\ rest \in Seq(0..255) /\ Len(rest) = n - taken
        /\ \A i \in 1 .. n - taken : rest[i] = stream[taken + i]
    <2> DEFINE S == 0..255
    <2>1. stream \in Seq(S)
      BY <1>1
    <2> HIDE DEF S
    <2>2. /\ rest \in Seq(S) /\ Len(rest) = n - taken
          /\ \A i \in 1 .. n - taken : rest[i] = stream[taken + i]
      BY <1>1, <1>3, <2>1, Slice
    <2> QED BY <2>2 DEF S
  <1> HIDE DEF rest
  <1>6. Len(buffer) <= Len(rest) /\ \A i \in 1 .. Len(buffer) : rest[i] = buffer[i]
    <2>1. Len(buffer) = arrived - taken /\ Len(rest) = n - taken
      BY <1>4, <1>5
    <2>2. arrived - taken <= n - taken
      BY <1>1, <1>3
    <2>3. ASSUME NEW i \in 1 .. arrived - taken PROVE rest[i] = buffer[i]
      <3>1. i \in 1 .. n - taken
        BY <1>1, <1>3
      <3> QED BY <1>4, <1>5, <3>1
    <2> QED BY <2>1, <2>2, <2>3
  <1>7. Res # BufferTooShort => Res = Decode(rest, peer)
    BY <1>4, <1>5, <1>6, DecodeStable DEF Res
  <1> QED BY <1>7 DEF PiecesDoNotMatter, Kept, rest, n

\* Every step keeps the octets.
LEMMA OctetsStep ==
    ASSUME TypeOK, Kept, [Next]_vars
    PROVE  /\ Kept' /\ stream' \in Streams /\ arrived' \in 0..Len(stream')
           /\ buffer' \in Seq(0..255) /\ taken' \in Nat
  <1> DEFINE Goal == /\ Kept' /\ stream' \in Streams /\ arrived' \in 0..Len(stream')
                     /\ buffer' \in Seq(0..255) /\ taken' \in Nat
  <1>1. ASSUME UNCHANGED <<stream, arrived, buffer, taken>> PROVE Goal
    BY <1>1 DEF TypeOK, Kept
  <1>2. ASSUME NEW n \in Piece, ReadBuf(n) PROVE Goal
    <2>1. stream' = stream /\ taken' = taken
      BY <1>2 DEF ReadBuf
    <2> QED BY <1>2, <2>1, ReadBufKeeps DEF TypeOK
  <1>3. ASSUME Advance(Res), UNCHANGED <<stream, arrived>>, Res.code = "Ok", ~Breaks(Res)
        PROVE  Goal
    <2>1. Res.off \in 0..Len(buffer)
      BY <1>3 DEF Breaks
    <2> QED BY <1>3, <2>1, AdvanceKeeps DEF TypeOK
  <1>4. CASE ProcessReads
    BY <1>3, <1>4 DEF ProcessReads
  <1>5. CASE OneReads
    BY <1>1, <1>3, <1>5 DEF OneReads
  <1>6. CASE \/ ReadBufFails \/ ProcessReadsErr \/ ReadEnds
             \/ ProcessTells \/ ProcessTellsNobody \/ ProcessWrites \/ ProcessOutClosed
    BY <1>1, <1>6
    DEF ReadBufFails, ProcessReadsErr, ReadEnds, ProcessTells, ProcessTellsNobody,
        ProcessWrites, ProcessOutClosed, link
  <1>7. CASE \/ RunReceives \/ RunTakesOver \/ RunStartsSend
             \/ RunDropsOut \/ RunAborts \/ RunPanics \/ OthersTell
             \/ RunSendsElsewhere \/ RunReturns \/ UNCHANGED vars
    BY <1>1, <1>7
    DEF RunReceives, RunTakesOver, RunStartsSend, RunDropsOut, RunAborts, RunPanics,
        OthersTell, RunSendsElsewhere, RunReturns,
        link, vars
  <1>8. ASSUME NEW m \in OutMsg, RunSends(m) PROVE Goal
    BY <1>1, <1>8 DEF RunSends, link
  <1> QED BY <1>2, <1>4, <1>5, <1>6, <1>7, <1>8 DEF Next

(***************************************************************************)
(* The channels                                                            *)
(***************************************************************************)
\* Every step keeps the types of the task and of run.
LEMMA TaskStep ==
    ASSUME TypeOK, [Next]_vars
    PROVE  /\ task' \in TaskState /\ run' \in {"select", "sending", "elsewhere", "gone"}
           /\ outOpen' \in BOOLEAN
  <1> USE DEF TypeOK, TaskState, End
  <1>1. ASSUME NEW n \in Piece, ReadBuf(n)
        PROVE  /\ task' \in TaskState /\ run' \in {"select", "sending", "elsewhere", "gone"}
               /\ outOpen' \in BOOLEAN
    BY <1>1 DEF ReadBuf, runVars
  <1>2. ASSUME NEW m \in OutMsg, RunSends(m)
        PROVE  /\ task' \in TaskState /\ run' \in {"select", "sending", "elsewhere", "gone"}
               /\ outOpen' \in BOOLEAN
    BY <1>2 DEF RunSends
  <1>3. CASE ReadBufFails \/ ProcessReads \/ ProcessReadsErr \/ ReadEnds
    BY <1>3 DEF ReadBufFails, ProcessReads, ProcessReadsErr, ReadEnds, runVars
  <1>4. CASE OneReads
    BY <1>4 DEF OneReads, runVars
  <1>5. CASE ProcessTells \/ ProcessTellsNobody \/ ProcessWrites \/ ProcessOutClosed
    BY <1>5 DEF ProcessTells, ProcessTellsNobody, ProcessWrites, ProcessOutClosed, runVars
  <1>6. CASE RunReceives \/ RunTakesOver \/ RunStartsSend \/ UNCHANGED vars
    BY <1>6 DEF RunReceives, RunTakesOver, RunStartsSend, vars
  <1>7. CASE RunDropsOut \/ RunAborts \/ RunPanics
    BY <1>7 DEF RunDropsOut, RunAborts, RunPanics
  <1>8. CASE OthersTell \/ RunSendsElsewhere \/ RunReturns
    BY <1>8 DEF OthersTell, RunSendsElsewhere, RunReturns
  <1> QED BY <1>1, <1>2, <1>3, <1>4, <1>5, <1>6, <1>7, <1>8 DEF Next

\* Every step keeps the channel for events, and its bound.
LEMMA EventsStep ==
    ASSUME TypeOK, Channels, [Next]_vars
    PROVE  Channels' /\ Len(held') <= 1 /\ Len(bgp') <= BgpCap
  <1>1. PICK E : bgp \in Seq(E) /\ held \in Seq(E)
    BY DEF Channels
  <1>2. <<>> \in Seq(E) /\ Len(<<>>) = 0 /\ BgpCap \in Nat /\ 0 <= BgpCap
    BY CapAssumption
  <1> DEFINE Reason == task' # "ended" => why' = ""
             Events == (\E G : bgp' \in Seq(G) /\ held' \in Seq(G))
                         /\ Len(held') <= 1 /\ Len(bgp') <= BgpCap
  <1>3. ASSUME bgp' = bgp, held' = held PROVE Events
    BY <1>1, <1>3 DEF TypeOK
  <1>4. ASSUME bgp' = bgp, held' = <<>> PROVE Events
    BY <1>1, <1>2, <1>4 DEF TypeOK
  <1>5. ASSUME NEW r, bgp' = bgp, held' = EventOf(r) PROVE Events
    <2>1. PICK D : held' \in Seq(D)
      BY <1>5, OneEvent
    <2>2. bgp' \in Seq(E \cup D) /\ held' \in Seq(E \cup D)
      BY <1>1, <1>5, <2>1, OneSet
    <2>3. Len(held') <= 1
      BY <1>5, OneEvent
    <2>4. Len(bgp') <= BgpCap
      BY <1>5 DEF TypeOK
    <2> QED BY <2>2, <2>3, <2>4
  <1>6. ASSUME NEW n \in Piece, ReadBuf(n) PROVE Reason /\ Events
    BY <1>3, <1>6 DEF ReadBuf, runVars, Channels
  <1>7. ASSUME NEW m \in OutMsg, RunSends(m) PROVE Reason /\ Events
    BY <1>3, <1>7 DEF RunSends, Channels
  <1>8. CASE ReadBufFails \/ ReadEnds \/ ProcessTellsNobody \/ ProcessOutClosed
    <2>1. Reason
      BY <1>8 DEF ReadBufFails, ReadEnds, ProcessTellsNobody, ProcessOutClosed, End
    <2>2. bgp' = bgp /\ held' = <<>>
      BY <1>8 DEF ReadBufFails, ReadEnds, ProcessTellsNobody, ProcessOutClosed, End, runVars
    <2> QED BY <1>4, <2>1, <2>2 DEF Channels
  <1>9. CASE ProcessReads \/ ProcessReadsErr
    <2>1. Reason
      BY <1>9 DEF ProcessReads, ProcessReadsErr, Channels
    <2>2. bgp' = bgp /\ held' = EventOf(Res)
      BY <1>9 DEF ProcessReads, ProcessReadsErr, runVars
    <2> QED BY <1>5, <2>1, <2>2 DEF Channels
  <1>10. CASE OneReads
    <2>1. Reason
      BY <1>10 DEF OneReads, End, Channels
    <2>2. bgp' = bgp /\ (held' = held \/ held' = <<>>)
      BY <1>10 DEF OneReads, End, runVars
    <2> QED BY <1>3, <1>4, <2>1, <2>2 DEF Channels
  <1>11. CASE ProcessTells
    <2>1. Reason
      BY <1>11 DEF ProcessTells, Channels
    <2>2. bgp' = bgp \o held /\ held' = <<>> /\ Len(bgp) < BgpCap
      BY <1>11 DEF ProcessTells
    <2>3. bgp' \in Seq(E) /\ Len(bgp') = Len(bgp) + Len(held)
      BY <1>1, <2>2, ConcatProperties
    <2>4. Len(bgp) \in Nat /\ Len(held) \in Nat /\ Len(held) <= 1
      BY <1>1, LenProperties DEF TypeOK
    <2>5. Len(bgp') <= BgpCap
      BY <1>2, <2>2, <2>3, <2>4
    <2>6. held' \in Seq(E) /\ Len(held') <= 1
      BY <1>2, <2>2
    <2> QED BY <2>1, <2>3, <2>5, <2>6 DEF Channels
  <1>12. CASE RunReceives
    <2>1. Reason
      BY <1>12 DEF RunReceives, Channels
    <2>2. bgp' = Tail(bgp) /\ bgp # <<>> /\ held' = held
      BY <1>12 DEF RunReceives
    <2>3. bgp' \in Seq(E) /\ Len(bgp') = Len(bgp) - 1
      BY <1>1, <2>2, HeadTailProperties
    <2>4. Len(bgp) \in Nat /\ Len(bgp) <= BgpCap
      BY <1>1, LenProperties DEF TypeOK
    <2>5. Len(bgp') <= BgpCap
      BY <1>2, <2>3, <2>4
    <2> QED BY <1>1, <2>1, <2>2, <2>3, <2>5 DEF Channels, TypeOK
  <1>13. CASE ProcessWrites \/ RunTakesOver \/ RunStartsSend \/ RunDropsOut
              \/ RunSendsElsewhere \/ RunReturns \/ UNCHANGED vars
    <2>1. Reason
      BY <1>13
      DEF ProcessWrites, RunTakesOver, RunStartsSend, RunDropsOut, RunSendsElsewhere,
          RunReturns, vars, Channels
    <2>2. bgp' = bgp /\ held' = held
      BY <1>13
      DEF ProcessWrites, RunTakesOver, RunStartsSend, RunDropsOut, RunSendsElsewhere,
          RunReturns, vars, runVars
    <2> QED BY <1>3, <2>1, <2>2 DEF Channels
  <1>14. CASE RunAborts
    <2>1. Reason /\ bgp' = bgp /\ held' = <<>>
      BY <1>14 DEF RunAborts, End
    <2> QED BY <1>4, <2>1 DEF Channels
  <1>15. CASE RunPanics
    <2>1. Reason /\ bgp' = <<>> /\ held' = held
      BY <1>15 DEF RunPanics, Channels
    <2>2. bgp' \in Seq(E) /\ held' \in Seq(E) /\ Len(bgp') <= BgpCap
      BY <1>1, <1>2, <2>1
    <2> QED BY <2>1, <2>2 DEF Channels, TypeOK
  <1>16. CASE OthersTell
    <2>1. Reason
      BY <1>16 DEF OthersTell, Channels
    <2>2. bgp' = Append(bgp, Other) /\ held' = held /\ Len(bgp) < BgpCap
      BY <1>16 DEF OthersTell
    <2>3. <<Other>> \in Seq({Other})
      OBVIOUS
    <2>4. bgp \in Seq(E \cup {Other}) /\ held \in Seq(E \cup {Other})
      BY <1>1, <2>3, OneSet
    <2>5. bgp' \in Seq(E \cup {Other}) /\ Len(bgp') = Len(bgp) + 1
      BY <2>2, <2>4, AppendProperties
    <2>6. Len(bgp) \in Nat /\ Len(held') <= 1
      BY <1>1, <2>2, LenProperties DEF TypeOK
    <2>7. Len(bgp') <= BgpCap
      BY <1>2, <2>2, <2>5, <2>6
    <2> QED BY <2>1, <2>2, <2>4, <2>5, <2>6, <2>7 DEF Channels
  <1> QED
    BY <1>6, <1>7, <1>8, <1>9, <1>10, <1>11, <1>12, <1>13, <1>14, <1>15, <1>16
    DEF Next, Channels

\* Every step keeps the messages of run, and the bound of their channel.
LEMMA OutgoingStep ==
    ASSUME TypeOK, Channels, OutgoingKept, [Next]_vars
    PROVE  /\ OutgoingKept' /\ out' \in Seq(OutMsg) /\ Len(out') <= OutCap
           /\ given' \in Seq(OutMsg) /\ written' \in Seq(OutMsg)
  <1> DEFINE Goal == /\ OutgoingKept' /\ out' \in Seq(OutMsg) /\ Len(out') <= OutCap
                     /\ given' \in Seq(OutMsg) /\ written' \in Seq(OutMsg)
  <1>1. /\ out \in Seq(OutMsg) /\ given \in Seq(OutMsg) /\ written \in Seq(OutMsg)
        /\ Len(out) \in Nat /\ Len(out) <= OutCap /\ OutCap \in Nat
    BY CapAssumption, LenProperties DEF TypeOK
  <1>2. <<>> \in Seq(OutMsg) /\ Len(<<>>) = 0
    OBVIOUS
  <1>3. ASSUME UNCHANGED <<out, given, written, why>> PROVE Goal
    BY <1>1, <1>3 DEF OutgoingKept
  <1>4. ASSUME out' = <<>>, UNCHANGED <<given, written>>,
               why' \in {"", "closed"} => why = "" /\ out = <<>>
        PROVE  Goal
    <2>1. OutgoingKept'
      BY <1>4 DEF OutgoingKept
    <2>2. Len(out') <= OutCap
      <3>1. 0 <= OutCap
        BY <1>1
      <3> QED BY <1>2, <1>4, <3>1, Zenon
    <2> QED BY <1>1, <1>2, <1>4, <2>1, <2>2
  <1>5. ASSUME NEW n \in Piece, ReadBuf(n) PROVE Goal
    BY <1>3, <1>5 DEF ReadBuf, runVars
  <1>6. ASSUME NEW m \in OutMsg, RunSends(m) PROVE Goal
    <2>1. /\ out' = Append(out, m) /\ given' = Append(given, m)
          /\ why' = why /\ written' = written /\ Len(out) < OutCap
      BY <1>6 DEF RunSends
    <2>2. out' \in Seq(OutMsg) /\ given' \in Seq(OutMsg) /\ Len(out') = Len(out) + 1
      BY <1>1, <2>1, AppendProperties
    <2>3. Len(out') <= OutCap
      BY <1>1, <2>1, <2>2
    <2>4. written \o Append(out, m) = Append(written \o out, m)
      BY <1>1, AppendBehind
    <2>5. OutgoingKept'
      BY <2>1, <2>4 DEF OutgoingKept
    <2> QED BY <1>1, <2>1, <2>2, <2>3, <2>5
  <1>7. CASE ProcessWrites
    <2>1. /\ out # <<>> /\ out' = Tail(out) /\ written' = Append(written, Head(out))
          /\ why' = why /\ given' = given
      BY <1>7 DEF ProcessWrites, runVars
    <2>2. /\ Head(out) \in OutMsg /\ out' \in Seq(OutMsg) /\ Len(out') = Len(out) - 1
      BY <1>1, <2>1, HeadTailProperties
    <2>3. written' \in Seq(OutMsg)
      BY <1>1, <2>1, <2>2, AppendProperties
    <2>4. Len(out') <= OutCap
      BY <1>1, <2>2
    <2>5. Append(written, Head(out)) \o Tail(out) = written \o out
      BY <1>1, <2>1, MoveHead
    <2>6. OutgoingKept'
      BY <2>1, <2>5 DEF OutgoingKept
    <2> QED BY <1>1, <2>1, <2>2, <2>3, <2>4, <2>6
  <1>8. CASE ReadBufFails \/ ReadEnds \/ ProcessTellsNobody \/ RunAborts
    <2>1. out' = <<>> /\ why' \notin {"", "closed"} /\ UNCHANGED <<given, written>>
      BY <1>8 DEF ReadBufFails, ReadEnds, ProcessTellsNobody, RunAborts, End, runVars
    <2> QED BY <1>4, <2>1
  <1>9. CASE ProcessOutClosed
    <2>1. out' = <<>> /\ why = "" /\ out = <<>> /\ UNCHANGED <<given, written>>
      BY <1>9 DEF ProcessOutClosed, End, runVars, Channels
    <2> QED BY <1>4, <2>1
  <1>10. CASE OneReads
    <2>1. CASE UNCHANGED <<out, given, written, why>>
      BY <1>3, <2>1
    <2>2. CASE End("one")
      <3>1. out' = <<>> /\ why' \notin {"", "closed"} /\ UNCHANGED <<given, written>>
        BY <1>10, <2>2 DEF OneReads, End, runVars
      <3> QED BY <1>4, <3>1
    <2> QED BY <1>10, <2>1, <2>2 DEF OneReads, runVars
  <1>11. CASE ProcessReads \/ ProcessReadsErr \/ ProcessTells \/ UNCHANGED vars
    BY <1>3, <1>11 DEF ProcessReads, ProcessReadsErr, ProcessTells, runVars, vars
  <1>12. CASE RunReceives \/ RunTakesOver \/ RunStartsSend \/ RunDropsOut \/ RunPanics
    BY <1>3, <1>12 DEF RunReceives, RunTakesOver, RunStartsSend, RunDropsOut, RunPanics
  <1>13. CASE OthersTell \/ RunSendsElsewhere \/ RunReturns
    BY <1>3, <1>13 DEF OthersTell, RunSendsElsewhere, RunReturns
  <1> QED
    BY <1>5, <1>6, <1>7, <1>8, <1>9, <1>10, <1>11, <1>12, <1>13 DEF Next

(***************************************************************************)
(* The theorems                                                            *)
(***************************************************************************)
\* IInv is an invariant of a connection.
THEOREM Invariance == Spec => []IInv
  <1>1. Init => IInv
    <2> SUFFICES ASSUME Init PROVE IInv
      OBVIOUS
    <2>1. /\ stream \in Streams /\ stream \in Seq(0..255) /\ Len(stream) \in Nat
          /\ arrived = 0 /\ taken = 0 /\ buffer = <<>>
      BY StreamAssumption, LenProperties DEF Init
    <2>2. SubSeq(stream, 1, 0) = <<>>
      BY SubSeqEmpty
    <2>3. Kept
      BY <2>1, <2>2 DEF Kept
    <2>4. <<>> \in Seq(0..255) /\ <<>> \in Seq(OutMsg) /\ <<>> \in Seq({}) /\ Len(<<>>) = 0
      OBVIOUS
    <2>5. BgpCap \in Nat /\ OutCap \in Nat
      BY CapAssumption
    <2>6. outOpen \in BOOLEAN
      BY DEF Init
    <2>7. TypeOK
      <3>1. arrived \in 0..Len(stream)
        BY <2>1
      <3>2. Len(held) <= 1 /\ Len(bgp) <= BgpCap /\ Len(out) <= OutCap
        <4>1. held = <<>> /\ bgp = <<>> /\ out = <<>>
          BY DEF Init
        <4>2. 0 <= 1 /\ 0 <= BgpCap /\ 0 <= OutCap
          BY <2>5
        <4> QED BY <2>4, <4>1, <4>2, Zenon
      <3>3. buffer \in Seq(0..255) /\ taken \in Nat
        BY <2>1, <2>4
      <3> QED BY <2>1, <2>4, <2>6, <3>1, <3>2, <3>3 DEF Init, TypeOK, TaskState
    <2>8. Channels
      <3>1. bgp \in Seq({}) /\ held \in Seq({})
        BY <2>4 DEF Init
      <3> QED BY <3>1 DEF Init, Channels
    <2>9. OutgoingKept
      <3>1. <<>> \o <<>> = <<>>
        OBVIOUS
      <3> QED BY <3>1 DEF Init, OutgoingKept
    <2> QED BY <2>3, <2>7, <2>8, <2>9 DEF IInv
  <1>2. IInv /\ [Next]_vars => IInv'
    <2> SUFFICES ASSUME IInv, [Next]_vars PROVE IInv'
      OBVIOUS
    <2>1. /\ Kept' /\ stream' \in Streams /\ arrived' \in 0..Len(stream')
          /\ buffer' \in Seq(0..255) /\ taken' \in Nat
      BY OctetsStep DEF IInv
    <2>2. /\ task' \in TaskState /\ run' \in {"select", "sending", "elsewhere", "gone"}
          /\ outOpen' \in BOOLEAN
      BY TaskStep DEF IInv
    <2>3. Channels' /\ Len(held') <= 1 /\ Len(bgp') <= BgpCap
      BY EventsStep DEF IInv
    <2>4. /\ OutgoingKept' /\ out' \in Seq(OutMsg) /\ Len(out') <= OutCap
          /\ given' \in Seq(OutMsg) /\ written' \in Seq(OutMsg)
      BY OutgoingStep DEF IInv
    <2>5. TypeOK'
      BY <2>1, <2>2, <2>3, <2>4 DEF TypeOK
    <2> QED BY <2>1, <2>3, <2>4, <2>5 DEF IInv
  <1> QED BY <1>1, <1>2, PTL DEF Spec

\* Every variable has its type, and no channel exceeds its capacity.
THEOREM TypeCorrect == Spec => []TypeOK
  <1>1. IInv => TypeOK
    BY DEF IInv
  <1> QED BY <1>1, Invariance, PTL

\* No octet of a stream is lost or read twice, and what is decoded from a
\* part of it is what all of it says.
THEOREM StreamKept == Spec => []PiecesDoNotMatter
  <1>1. IInv => PiecesDoNotMatter
    BY KeptDecodes DEF IInv
  <1> QED BY <1>1, Invariance, PTL

\* The messages of run are written in the order they were given, and those
\* that are not are still in the channel, until the task is aborted or fails.
THEOREM MessagesKept == Spec => []OutgoingKept
  <1>1. IInv => OutgoingKept
    BY DEF IInv
  <1> QED BY <1>1, Invariance, PTL

(***************************************************************************)
(* What a stream says                                                      *)
(***************************************************************************)
\* The reading of a stream, message by message.
LEMMA AfterSteps ==
    ASSUME NEW s
    PROVE  /\ After(s)[0] = Beginning
           /\ \A n \in Nat : After(s)[n + 1] = Further(s, After(s)[n])
  <1> DEFINE Def(a, n) == Further(s, a)
             f0 == Beginning
             f == CHOOSE g : g = [n \in Nat |-> IF n = 0 THEN f0 ELSE Def(g[n-1], n)]
  <1>1. After(s) = f
    BY Zenon DEF After
  <1>2. NatInductiveDefConclusion(f, f0, Def)
    <2>1. NatInductiveDefHypothesis(f, f0, Def)
      BY Zenon DEF NatInductiveDefHypothesis
    <2> HIDE DEF f, f0, Def
    <2> QED BY <2>1, NatInductiveDef
  <1>3. \A n \in Nat : f[n] = IF n = 0 THEN f0 ELSE Def(f[n-1], n)
    <2> HIDE DEF f, f0, Def
    <2> QED BY <1>2 DEF NatInductiveDefConclusion
  <1> HIDE DEF f
  <1>4. f[0] = f0
    BY <1>3
  <1>5. ASSUME NEW n \in Nat PROVE f[n + 1] = Further(s, f[n])
    <2>1. n + 1 \in Nat /\ n + 1 # 0 /\ (n + 1) - 1 = n
      OBVIOUS
    <2>2. f[n + 1] = Def(f[(n + 1) - 1], n + 1)
      <3> HIDE DEF Def
      <3> QED BY <1>3, <2>1
    <2> QED BY <2>1, <2>2
  <1> QED BY <1>1, <1>4, <1>5

\* A step of it.
LEMMA FurtherSays ==
    ASSUME NEW s, NEW a, NEW r, r = NextOf(s, a), a.more
    PROVE  /\ Further(s, a).said = a.said \o EventOf(r)
           /\ Further(s, a).more = (r.code = "Ok")
           /\ Further(s, a).off = IF r.code = "Ok" THEN a.off + r.off ELSE a.off
           /\ Further(s, a).peer = IF r.code = "Ok" /\ r.val.type = "Open" THEN r.val.msg
                                   ELSE a.peer
  BY DEF Further

LEMMA FurtherStops ==
    ASSUME NEW s, NEW a, ~a.more
    PROVE  Further(s, a) = a
  BY DEF Further

\* An event of a message that is decoded is no error; one of a message that is
\* not is one.
LEMMA EventIsErr ==
    ASSUME NEW r
    PROVE  /\ EventOf(r) = <<>> \/ EventOf(r) = <<EventOf(r)[1]>>
           /\ r.code = "Ok" => EventOf(r) = <<>> \/ ~IsErr(EventOf(r)[1])
           /\ r.code \in {"MessageHeaderError", "OpenMessageError"} =>
                EventOf(r) = <<EventOf(r)[1]>> /\ IsErr(EventOf(r)[1])
  <1>1. CASE r.code = "Ok" /\ r.val.type = "Open"
    BY <1>1 DEF EventOf, IsErr
  <1>2. CASE r.code = "Ok" /\ r.val.type = "Update"
    BY <1>2 DEF EventOf, IsErr
  <1>3. CASE r.code = "Ok" /\ r.val.type \notin {"Open", "Update"}
    BY <1>3 DEF EventOf
  <1>4. CASE r.code = "MessageHeaderError"
    BY <1>4 DEF EventOf, IsErr
  <1>5. CASE r.code = "OpenMessageError"
    BY <1>5 DEF EventOf, IsErr
  <1>6. CASE r.code \notin {"Ok", "MessageHeaderError", "OpenMessageError"}
    BY <1>6 DEF EventOf
  <1> QED BY <1>1, <1>2, <1>3, <1>4, <1>5, <1>6

\* The events of a stream.
Ev(s) == {EventOf(NextOf(s, After(s)[n]))[1] : n \in Nat}

LEMMA EvOf ==
    ASSUME NEW s, NEW n \in Nat
    PROVE  EventOf(NextOf(s, After(s)[n])) \in Seq(Ev(s))
  <1> DEFINE es == EventOf(NextOf(s, After(s)[n]))
  <1>1. es = <<>> \/ es = <<es[1]>>
    BY EventIsErr
  <1>2. es[1] \in Ev(s)
    BY DEF Ev
  <1> HIDE DEF es
  <1>3. es \in Seq(Ev(s))
    <2>1. <<es[1]>> \in Seq(Ev(s)) /\ <<>> \in Seq(Ev(s))
      <3> DEFINE e == es[1]
      <3> HIDE DEF e
      <3>1. e \in Ev(s)
        BY <1>2 DEF e
      <3>2. <<e>> \in Seq(Ev(s))
        BY <3>1
      <3> QED BY <3>2 DEF e
    <2> QED BY <1>1, <2>1, Zenon
  <1> QED BY <1>3 DEF es

\* What is said is a sequence of events, and grows at its end.
LEMMA SaidGrows ==
    ASSUME NEW s, NEW n \in Nat
    PROVE  /\ After(s)[n].more \in BOOLEAN /\ After(s)[n].said \in Seq(Ev(s))
           /\ \E es \in Seq(Ev(s)) : After(s)[n + 1].said = After(s)[n].said \o es
  <1> DEFINE A == After(s)
             E == Ev(s)
             T == {k \in Nat : A[k].more \in BOOLEAN /\ A[k].said \in Seq(E)}
  <1>1. A[0] = Beginning /\ \A k \in Nat : A[k + 1] = Further(s, A[k])
    BY AfterSteps
  <1>2. \A k \in Nat : EventOf(NextOf(s, A[k])) \in Seq(E)
    BY EvOf
  <1> HIDE DEF A, E
  <1>3. 0 \in T
    <2>1. Beginning.said = <<>> /\ Beginning.more = TRUE /\ <<>> \in Seq(E)
      BY DEF Beginning
    <2> QED BY <1>1, <2>1, Zenon
  <1>4. ASSUME NEW k \in Nat, k \in T
        PROVE  /\ A[k + 1].more \in BOOLEAN /\ A[k + 1].said \in Seq(E)
               /\ \E es \in Seq(E) : A[k + 1].said = A[k].said \o es
    <2> DEFINE a == A[k]
               c == A[k + 1]
               r == NextOf(s, a)
               es == EventOf(r)
    <2>1. a.more \in BOOLEAN /\ a.said \in Seq(E) /\ es \in Seq(E)
      BY <1>2, <1>4
    <2>2. c = Further(s, a)
      BY <1>1
    <2> HIDE DEF a, c
    <2>3. CASE a.more
      <3>1. r = NextOf(s, a)
        OBVIOUS
      <3> HIDE DEF r
      <3>2. c.said = a.said \o es
        BY <2>2, <2>3, <3>1, FurtherSays, Zenon
      <3>3. c.more \in BOOLEAN
        <4>1. c.more = (r.code = "Ok")
          BY <2>2, <2>3, <3>1, FurtherSays
        <4> QED BY <4>1, Zenon
      <3> HIDE DEF es
      <3>4. a.said \o es \in Seq(E)
        BY <2>1, ConcatProperties
      <3>5. c.said \in Seq(E) /\ \E t \in Seq(E) : c.said = a.said \o t
        BY <2>1, <3>2, <3>4, Zenon
      <3> QED BY <3>3, <3>5, Zenon DEF a, c
    <2>4. CASE ~a.more
      <3>1. c = a
        BY <2>2, <2>4, FurtherStops, Zenon
      <3>2. a.said \o <<>> = a.said /\ <<>> \in Seq(E)
        BY <2>1, ConcatEmptySeq
      <3>3. c.said \in Seq(E) /\ \E t \in Seq(E) : c.said = a.said \o t
        BY <2>1, <3>1, <3>2, Zenon
      <3> QED BY <2>1, <3>1, <3>3, Zenon DEF a, c
    <2> QED BY <2>3, <2>4
  <1>5. \A k \in Nat : k \in T
    <2>1. \A k \in Nat : k \in T => k + 1 \in T
      BY <1>4
    <2> HIDE DEF T
    <2> QED BY <1>3, <2>1, SetInduction
  <1>6. A[n].more \in BOOLEAN /\ A[n].said \in Seq(E)
    BY <1>5
  <1>7. \E es \in Seq(E) : A[n + 1].said = A[n].said \o es
    BY <1>4, <1>5
  <1> QED BY <1>6, <1>7 DEF A, E

\* t is where u begins.
Begins(t, u) == Len(t) <= Len(u) /\ t = SubSeq(u, 1, Len(t))

LEMMA BeginsByElements ==
    ASSUME NEW E, NEW t \in Seq(E), NEW u \in Seq(E)
    PROVE  Begins(t, u) <=> Len(t) <= Len(u) /\ \A i \in 1 .. Len(t) : t[i] = u[i]
  <1>1. Len(t) \in Nat /\ Len(u) \in Nat
    BY LenProperties
  <1> SUFFICES ASSUME Len(t) <= Len(u)
               PROVE  t = SubSeq(u, 1, Len(t)) <=> \A i \in 1 .. Len(t) : t[i] = u[i]
    BY DEF Begins
  <1> DEFINE n == Len(t)
             v == SubSeq(u, 0 + 1, n)
  <1>2. n \in Nat /\ 0 <= n /\ n <= Len(u)
    BY <1>1
  <1>3. n - 0 = n /\ 0 + 1 = 1 /\ \A i \in 1 .. n : 0 + i = i
    BY <1>1
  <1> HIDE DEF n
  <1>4. v \in Seq(E) /\ Len(v) = n - 0 /\ \A i \in 1 .. n - 0 : v[i] = u[0 + i]
    BY <1>2, Slice
  <1> HIDE DEF v
  <1>5. v \in Seq(E) /\ Len(v) = n /\ \A i \in 1 .. n : v[i] = u[i]
    BY <1>3, <1>4
  <1>6. Len(t) = n
    BY DEF n
  <1>7. t = v <=> \A i \in 1 .. n : t[i] = u[i]
    <2>1. ASSUME \A i \in 1 .. n : t[i] = u[i] PROVE t = v
      BY <1>5, <1>6, <2>1, SeqEqual
    <2> QED BY <1>5, <2>1
  <1> QED BY <1>3, <1>7 DEF v, n

LEMMA BeginsConcat ==
    ASSUME NEW E, NEW t \in Seq(E), NEW u \in Seq(E)
    PROVE  Begins(t, t \o u)
  <1> DEFINE v == t \o u
  <1>1. /\ v \in Seq(E) /\ Len(v) = Len(t) + Len(u)
        /\ \A i \in 1 .. Len(t) + Len(u) : v[i] = IF i <= Len(t) THEN t[i] ELSE u[i - Len(t)]
    BY ConcatProperties
  <1>2. Len(t) \in Nat /\ Len(u) \in Nat
    BY LenProperties
  <1> HIDE DEF v
  <1>3. Len(t) <= Len(v) /\ \A i \in 1 .. Len(t) : t[i] = v[i]
    BY <1>1, <1>2
  <1>4. Begins(t, v)
    BY <1>1, <1>3, BeginsByElements
  <1> QED BY <1>4 DEF v

LEMMA BeginsTransitive ==
    ASSUME NEW E, NEW t \in Seq(E), NEW u \in Seq(E), NEW v \in Seq(E),
           Begins(t, u), Begins(u, v)
    PROVE  Begins(t, v)
  <1>1. Len(t) \in Nat /\ Len(u) \in Nat /\ Len(v) \in Nat
    BY LenProperties
  <1>2. /\ Len(t) <= Len(u) /\ \A i \in 1 .. Len(t) : t[i] = u[i]
        /\ Len(u) <= Len(v) /\ \A i \in 1 .. Len(u) : u[i] = v[i]
    BY BeginsByElements
  <1>3. Len(t) <= Len(v) /\ \A i \in 1 .. Len(t) : t[i] = v[i]
    BY <1>1, <1>2
  <1> QED BY <1>3, BeginsByElements

\* What a stream says at first, it says later.
LEMMA SaidBegins ==
    ASSUME NEW s, NEW n \in Nat, NEW m \in Nat, n <= m
    PROVE  Begins(After(s)[n].said, After(s)[m].said)
  <1> DEFINE F(k) == After(s)[k].said
             E == Ev(s)
             T == {k \in Nat : Begins(F(n), F(n + k))}
  <1>1. \A k \in Nat : F(k) \in Seq(E) /\ \E es \in Seq(E) : F(k + 1) = F(k) \o es
    BY SaidGrows
  <1> HIDE DEF F, E
  <1>2. \A k \in Nat : Begins(F(k), F(k + 1))
    BY <1>1, BeginsConcat
  <1>3. 0 \in T
    <2>1. F(n) \in Seq(E) /\ <<>> \in Seq(E)
      BY <1>1
    <2>2. F(n) \o <<>> = F(n)
      BY <2>1, ConcatEmptySeq
    <2>3. Begins(F(n), F(n) \o <<>>)
      BY <2>1, BeginsConcat
    <2>4. n + 0 = n
      OBVIOUS
    <2> QED BY <2>2, <2>3, <2>4
  <1>4. ASSUME NEW k \in Nat, k \in T PROVE k + 1 \in T
    <2>1. n + k \in Nat /\ (n + k) + 1 = n + (k + 1) /\ (n + k) + 1 \in Nat /\ k + 1 \in Nat
      OBVIOUS
    <2>2. Begins(F(n), F(n + k)) /\ Begins(F(n + k), F((n + k) + 1))
      BY <1>2, <1>4, <2>1
    <2>3. Begins(F(n), F((n + k) + 1))
      BY <1>1, <2>1, <2>2, BeginsTransitive
    <2> QED BY <2>1, <2>3
  <1>5. m - n \in T
    <2>1. \A k \in Nat : k \in T
      <3> HIDE DEF T
      <3> QED BY <1>3, <1>4, SetInduction
    <2> QED BY <2>1
  <1>6. n + (m - n) = m
    OBVIOUS
  <1>7. Begins(F(n), F(m))
    BY <1>5, <1>6
  <1> QED BY <1>7 DEF F

\* A message that is not waited for has its header.
LEMMA HeaderIsThere ==
    ASSUME NEW b \in Seq(0..255), NEW p, Decode(b, p) # BufferTooShort
    PROVE  Len(b) >= 19
  <1>1. Len(b) \in Nat
    BY LenProperties
  <1>2. Len(b) < MIN_MSG_LEN => Decode(b, p) = BufferTooShort
    BY Zenon DEF Decode
  <1> QED BY <1>1, <1>2 DEF MIN_MSG_LEN

\* As long as decoding goes on, each message has taken its header at least and
\* no more than the stream has, and no error has been said.
LEMMA WhileDecoding ==
    ASSUME NEW s \in Seq(0..255), NEW n \in Nat, After(s)[n].more
    PROVE  /\ After(s)[n].off \in 19 * n .. Len(s)
           /\ \A i \in 1 .. Len(After(s)[n].said) : ~IsErr(After(s)[n].said[i])
           /\ NextOf(s, After(s)[n]) # BufferTooShort => After(s)[n].off + 19 <= Len(s)
           /\ NextOf(s, After(s)[n]).code = "Ok" =>
                NextOf(s, After(s)[n]).off \in 19 .. Len(s) - After(s)[n].off
  <1> DEFINE A == After(s)
             E == Ev(s)
             L == Len(s)
             Good(k) == /\ A[k].off \in 19 * k .. L
                        /\ \A i \in 1 .. Len(A[k].said) : ~IsErr(A[k].said[i])
             T == {k \in Nat : A[k].more => Good(k)}
  <1>1. L \in Nat
    BY LenProperties
  <1>2. A[0] = Beginning /\ \A k \in Nat : A[k + 1] = Further(s, A[k])
    BY AfterSteps
  <1>3. \A k \in Nat : A[k].said \in Seq(E) /\ EventOf(NextOf(s, A[k])) \in Seq(E)
    BY SaidGrows, EvOf
  <1> HIDE DEF A, E
  <1>4. ASSUME NEW k \in Nat, A[k].off \in 19 * k .. L
        PROVE  /\ NextOf(s, A[k]) # BufferTooShort => A[k].off + 19 <= L
               /\ NextOf(s, A[k]).code = "Ok" => NextOf(s, A[k]).off \in 19 .. L - A[k].off
    <2> DEFINE o == A[k].off
               p == A[k].peer
               b == SubSeq(s, o + 1, L)
    <2>1. o \in Nat /\ o <= L
      <3>1. \A x \in 19 * k .. L : x \in Nat /\ x <= L
        BY <1>1
      <3> QED BY <1>4, <3>1
    <2>2. NextOf(s, A[k]) = Decode(b, p)
      BY DEF NextOf
    <2> HIDE DEF o, p
    <2>3. b \in Seq(0..255) /\ Len(b) = L - o
      <3> DEFINE S == 0..255
      <3>1. s \in Seq(S) /\ L <= Len(s) /\ L \in Nat
        BY <1>1
      <3> HIDE DEF S, L
      <3>2. b \in Seq(S) /\ Len(b) = L - o
        BY <2>1, <3>1, Slice
      <3> QED BY <3>2 DEF S
    <2> HIDE DEF b
    <2>4. Decode(b, p) # BufferTooShort => Len(b) >= 19
      BY <2>3, HeaderIsThere
    <2>5. Decode(b, p).code = "Ok" => Decode(b, p).off \in 19 .. Len(b)
      BY <2>3, DecodeWithin
    <2>6. L - o >= 19 => o + 19 <= L
      BY <1>1, <2>1
    <2> QED BY <2>2, <2>3, <2>4, <2>5, <2>6 DEF o
  <1>5. 0 \in T
    <2>1. Beginning.off = 0 /\ Beginning.said = <<>> /\ Len(<<>>) = 0
      BY DEF Beginning
    <2>2. 0 \in 19 * 0 .. L /\ \A i \in 1 .. 0 : FALSE
      BY <1>1
    <2>3. Good(0)
      BY <1>2, <2>1, <2>2, Zenon
    <2> QED BY <2>3
  <1>6. ASSUME NEW k \in Nat, k \in T PROVE k + 1 \in T
    <2> SUFFICES ASSUME A[k + 1].more PROVE Good(k + 1)
      OBVIOUS
    <2> DEFINE a == A[k]
               c == A[k + 1]
               r == NextOf(s, a)
               es == EventOf(r)
    <2>1. c = Further(s, a) /\ a.said \in Seq(E) /\ es \in Seq(E)
      BY <1>2, <1>3
    <2>2. c.more /\ (a.more => Good(k))
      BY <1>6
    <2>3. (a.more => a.off \in 19 * k .. L) /\ (a.more => \A i \in 1 .. Len(a.said) : ~IsErr(a.said[i]))
      BY <2>2
    <2>4. /\ a.off \in 19 * k .. L =>
               (r.code = "Ok" => r.off \in 19 .. L - a.off)
      BY <1>4
    <2>5. r = NextOf(s, a)
      OBVIOUS
    <2> HIDE DEF a, c, r
    <2>6. a.more
      <3> SUFFICES ASSUME ~a.more PROVE FALSE
        OBVIOUS
      <3>1. c = a
        BY <2>1, FurtherStops, Zenon
      <3> QED BY <2>2, <3>1
    <2>7. c.said = a.said \o es
      BY <2>1, <2>5, <2>6, FurtherSays, Zenon
    <2>8. r.code = "Ok"
      <3>1. c.more = (r.code = "Ok")
        BY <2>1, <2>5, <2>6, FurtherSays
      <3> QED BY <2>2, <3>1, Zenon
    <2>9. c.off = a.off + r.off
      <3>1. c.off = IF r.code = "Ok" THEN a.off + r.off ELSE a.off
        BY <2>1, <2>5, <2>6, FurtherSays
      <3> QED BY <2>8, <3>1, Zenon
    <2>10. c.off \in 19 * (k + 1) .. L
      <3> DEFINE o == a.off
                 d == r.off
      <3>1. o \in 19 * k .. L /\ d \in 19 .. L - o
        BY <2>3, <2>4, <2>6, <2>8
      <3> HIDE DEF o, d
      <3>2. o + d \in 19 * (k + 1) .. L
        BY <1>1, <3>1
      <3> QED BY <2>9, <3>2 DEF o, d
    <2>11. \A i \in 1 .. Len(c.said) : ~IsErr(c.said[i])
      <3> DEFINE q == a.said
      <3>1. es = <<>> \/ (es = <<es[1]>> /\ ~IsErr(es[1]))
        BY <2>8, EventIsErr
      <3>2. \A i \in 1 .. Len(q) : ~IsErr(q[i])
        BY <2>3, <2>6
      <3> HIDE DEF es, q
      <3>3. q \in Seq(E) /\ es \in Seq(E) /\ Len(q) \in Nat
        BY <2>1, LenProperties DEF q
      <3>4. CASE es = <<>>
        <4>1. c.said = q
          BY <2>7, <3>3, <3>4, ConcatEmptySeq DEF q
        <4> QED BY <3>2, <4>1
      <3>5. CASE es = <<es[1]>> /\ ~IsErr(es[1])
        <4> DEFINE e == es[1]
        <4> HIDE DEF e
        <4>1. es = <<e>> /\ ~IsErr(e)
          BY <3>5 DEF e
        <4>2. Len(es) = 1 /\ \A i \in 1 .. Len(es) : es[i] = e
          BY <4>1
        <4>3. /\ Len(q \o es) = Len(q) + Len(es)
              /\ \A i \in 1 .. Len(q) + Len(es) :
                    (q \o es)[i] = IF i <= Len(q) THEN q[i] ELSE es[i - Len(q)]
          BY <3>3, ConcatProperties
        <4>4. ASSUME NEW i \in 1 .. Len(q \o es) PROVE ~IsErr((q \o es)[i])
          <5>1. i \in 1 .. Len(q) + Len(es) /\ i \in Int
            BY <3>3, <4>2, <4>3
          <5>2. CASE i <= Len(q)
            <6>1. i \in 1 .. Len(q) /\ (q \o es)[i] = q[i]
              BY <3>3, <4>3, <5>1, <5>2
            <6> QED BY <3>2, <6>1
          <5>3. CASE ~(i <= Len(q))
            <6>1. i - Len(q) \in 1 .. Len(es) /\ (q \o es)[i] = es[i - Len(q)]
              BY <3>3, <4>2, <4>3, <5>1, <5>3
            <6>2. es[i - Len(q)] = e
              BY <4>2, <6>1
            <6> QED BY <4>1, <6>1, <6>2
          <5> QED BY <5>2, <5>3
        <4> QED BY <2>7, <4>4 DEF q
      <3> QED BY <3>1, <3>4, <3>5
    <2> QED BY <2>10, <2>11, Zenon DEF c
  <1>7. n \in T
    <2> HIDE DEF T
    <2> QED BY <1>5, <1>6, SetInduction
  <1>8. Good(n)
    BY <1>7 DEF A
  <1>9. /\ NextOf(s, A[n]) # BufferTooShort => A[n].off + 19 <= L
        /\ NextOf(s, A[n]).code = "Ok" => NextOf(s, A[n]).off \in 19 .. L - A[n].off
    BY <1>4, <1>8
  <1> QED BY <1>8, <1>9 DEF A

(***************************************************************************)
(* What run is told                                                        *)
(***************************************************************************)
\* process reports these errors, and stays where it is.
Reported(r) == r.code \in {"MessageHeaderError", "OpenMessageError"}

\* A task that has read n messages of s, which have k octets, with p for its
\* peer, t told and h in its hand: what it was told and holds is what these
\* messages say, or it is at an error, which is held, told, or both.
Abreast(s, n, k, p, t, h) ==
    LET a == After(s)[n]
        r == NextOf(s, a)
    IN /\ a.more /\ a.off = k /\ a.peer = p
       /\ t \in Seq(Ev(s)) /\ h \in Seq(Ev(s))
       /\ \/ t \o h = a.said /\ (h # <<>> => ~IsErr(h[1]))
          \/ Reported(r) /\ t = a.said /\ h = EventOf(r)
          \/ Reported(r) /\ t = a.said \o EventOf(r) /\ h \in {<<>>, EventOf(r)}

\* The task goes through the stream as one that has all of it at once.
Reports ==
    /\ task = "one" => told = <<>> /\ held = <<>>
    /\ task = "ended" => ToldInOrder
    /\ task # "ended" => \E n \in Nat : Abreast(stream, n, taken, peer, told, held)

\* All that n messages say is part of what the stream says, and so is what
\* comes of the next if it is there.
LEMMA SaidIsSaid ==
    ASSUME NEW s \in Seq(0..255), NEW n \in Nat, After(s)[n].more
    PROVE  /\ Begins(After(s)[n].said, Says(s))
           /\ NextOf(s, After(s)[n]) # BufferTooShort =>
                Begins(After(s)[n].said \o EventOf(NextOf(s, After(s)[n])), Says(s))
  <1> DEFINE L == Len(s)
             a == After(s)[n]
             r == NextOf(s, a)
             m == L \div MIN_MSG_LEN
  <1>1. L \in Nat
    BY LenProperties
  <1>2. a.off \in 19 * n .. L /\ (r # BufferTooShort => a.off + 19 <= L)
    BY WhileDecoding
  <1>3. After(s)[n + 1].said = a.said \o EventOf(r)
    <2>1. After(s)[n + 1] = Further(s, a)
      BY AfterSteps
    <2>2. r = NextOf(s, a) /\ a.more
      OBVIOUS
    <2> HIDE DEF r, a
    <2> QED BY <2>1, <2>2, FurtherSays, Zenon
  <1> HIDE DEF L
  <1>4. m \in Nat /\ n <= m /\ (r # BufferTooShort => n + 1 <= m)
    <2> DEFINE o == a.off
    <2> HIDE DEF o
    <2>1. o \in 19 * n .. L /\ (r # BufferTooShort => o + 19 <= L)
      BY <1>2 DEF o
    <2> HIDE DEF r
    <2> QED BY <1>1, <2>1 DEF MIN_MSG_LEN
  <1>5. Says(s) = After(s)[m].said
    BY DEF Says, L
  <1>6. Begins(a.said, Says(s))
    BY <1>4, <1>5, SaidBegins
  <1>7. ASSUME r # BufferTooShort PROVE Begins(a.said \o EventOf(r), Says(s))
    <2> HIDE DEF m
    <2>1. n + 1 \in Nat /\ n + 1 <= m
      BY <1>4, <1>7
    <2>2. Begins(After(s)[n + 1].said, After(s)[m].said)
      BY <1>4, <2>1, SaidBegins
    <2> QED BY <1>3, <1>5, <2>2
  <1> QED BY <1>6, <1>7

\* A reported error is no lack of octets.
LEMMA ReportedIsThere ==
    ASSUME NEW r, Reported(r)
    PROVE  r # BufferTooShort /\ r.code # "Ok"
  BY DEF Reported, BufferTooShort, Err

\* Whoever keeps abreast of a stream is told what it says.
LEMMA AbreastIsTold ==
    ASSUME NEW s \in Seq(0..255), NEW n \in Nat, NEW k, NEW p, NEW t, NEW h,
           Abreast(s, n, k, p, t, h)
    PROVE  Begins(t, Says(s))
  <1> DEFINE a == After(s)[n]
             r == NextOf(s, a)
             E == Ev(s)
  <1>1. a.more /\ t \in Seq(E) /\ h \in Seq(E) /\ a.said \in Seq(E)
    BY SaidGrows DEF Abreast
  <1>2. /\ \/ t \o h = a.said
           \/ Reported(r) /\ t = a.said
           \/ Reported(r) /\ t = a.said \o EventOf(r)
    BY DEF Abreast
  <1>3. Begins(a.said, Says(s)) /\ (r # BufferTooShort => Begins(a.said \o EventOf(r), Says(s)))
    BY <1>1, SaidIsSaid
  <1>4. Says(s) \in Seq(E)
    <2>1. Len(s) \div MIN_MSG_LEN \in Nat
      BY LenProperties DEF MIN_MSG_LEN
    <2> QED BY <2>1, SaidGrows DEF Says
  <1> HIDE DEF a, r, E
  <1>5. CASE t \o h = a.said
    <2>1. Begins(t, a.said)
      BY <1>1, <1>5, BeginsConcat
    <2> QED BY <1>1, <1>3, <1>4, <2>1, BeginsTransitive
  <1>6. CASE Reported(r) /\ t = a.said
    BY <1>3, <1>6
  <1>7. CASE Reported(r) /\ t = a.said \o EventOf(r)
    BY <1>3, <1>7, ReportedIsThere
  <1> QED BY <1>2, <1>5, <1>6, <1>7

\* What is decoded from the buffer is the next message of the stream.
LEMMA NextIsDecoded ==
    ASSUME TypeOK, Kept, NEW n \in Nat, NEW t, NEW h,
           Abreast(stream, n, taken, peer, t, h), Res # BufferTooShort
    PROVE  Res = NextOf(stream, After(stream)[n])
  <1> DEFINE a == After(stream)[n]
  <1>1. a.off = taken /\ a.peer = peer
    BY DEF Abreast
  <1>2. Res = Decode(SubSeq(stream, taken + 1, Len(stream)), peer)
    BY KeptDecodes DEF PiecesDoNotMatter
  <1> HIDE DEF a
  <1>3. NextOf(stream, a) = Decode(SubSeq(stream, a.off + 1, Len(stream)), a.peer)
    BY DEF NextOf
  <1>4. Res = NextOf(stream, a)
    BY <1>1, <1>2, <1>3
  <1> QED BY <1>4 DEF a

\* A message that is decoded brings the task one further, with its event in
\* the hand.
LEMMA MessageFurther ==
    ASSUME NEW s, NEW n \in Nat, NEW k, NEW p, NEW t,
           Abreast(s, n, k, p, t, <<>>),
           NEW r, r = NextOf(s, After(s)[n]), r.code = "Ok",
           NEW l, l = k + r.off,
           NEW q, q = IF r.val.type = "Open" THEN r.val.msg ELSE p
    PROVE  /\ Abreast(s, n + 1, l, q, t, EventOf(r))
           /\ t = After(s)[n].said
           /\ Abreast(s, n + 1, l, q, t \o EventOf(r), <<>>)
  <1> DEFINE a == After(s)[n]
             c == After(s)[n + 1]
             es == EventOf(r)
             E == Ev(s)
  <1>1. c = Further(s, a) /\ r = NextOf(s, a)
    BY AfterSteps
  <1>2. es \in Seq(E) /\ a.said \in Seq(E) /\ c.more \in BOOLEAN
    <2>1. n + 1 \in Nat
      OBVIOUS
    <2> QED BY <2>1, EvOf, SaidGrows
  <1>3. a.more /\ a.off = k /\ a.peer = p /\ t \in Seq(E)
    BY DEF Abreast
  <1>4. t = a.said
    <2>1. ~Reported(r)
      BY ReportedIsThere
    <2>2. t \o <<>> = a.said
      BY <1>1, <2>1 DEF Abreast
    <2> QED BY <1>3, <2>2, ConcatEmptySeq
  <1> HIDE DEF a, c, E
  <1>5. c.said = a.said \o es
    BY <1>1, <1>3, FurtherSays, Zenon
  <1>6. c.more
    <2>1. c.more = (r.code = "Ok")
      BY <1>1, <1>3, FurtherSays
    <2> QED BY <2>1, Zenon
  <1>7. c.off = l
    <2>1. c.off = IF r.code = "Ok" THEN a.off + r.off ELSE a.off
      BY <1>1, <1>3, FurtherSays
    <2> QED BY <1>3, <2>1, Zenon
  <1>8. c.peer = q
    <2>1. c.peer = IF r.code = "Ok" /\ r.val.type = "Open" THEN r.val.msg ELSE a.peer
      BY <1>1, <1>3, FurtherSays
    <2> QED BY <1>3, <2>1, Zenon
  <1>9. es # <<>> => ~IsErr(es[1])
    BY EventIsErr
  <1> HIDE DEF es
  <1>10. t \o es \in Seq(E) /\ (t \o es) \o <<>> = t \o es /\ <<>> \in Seq(E)
    <2>1. t \o es \in Seq(E)
      BY <1>2, <1>3, ConcatProperties
    <2> DEFINE u == t \o es
    <2> HIDE DEF u
    <2>2. u \in Seq(E)
      BY <2>1 DEF u
    <2>3. u \o <<>> = u /\ <<>> \in Seq(E)
      BY <2>2, ConcatEmptySeq
    <2> QED BY <2>1, <2>3 DEF u
  <1>11. Abreast(s, n + 1, l, q, t, es)
    BY <1>2, <1>3, <1>4, <1>5, <1>6, <1>7, <1>8, <1>9, Zenon DEF Abreast, c, E
  <1>12. Abreast(s, n + 1, l, q, t \o es, <<>>)
    BY <1>4, <1>5, <1>6, <1>7, <1>8, <1>10, Zenon DEF Abreast, c, E
  <1> QED BY <1>4, <1>11, <1>12 DEF es, a

\* An error that is decoded is taken into the hand, again and again.
LEMMA ErrorHeld ==
    ASSUME NEW s, NEW n \in Nat, NEW k, NEW p, NEW t,
           Abreast(s, n, k, p, t, <<>>),
           NEW r, r = NextOf(s, After(s)[n]), Reported(r)
    PROVE  Abreast(s, n, k, p, t, EventOf(r))
  <1> DEFINE a == After(s)[n]
             E == Ev(s)
  <1>1. /\ a.more /\ a.off = k /\ a.peer = p /\ t \in Seq(E)
        /\ \/ t \o <<>> = a.said
           \/ t = a.said
           \/ t = a.said \o EventOf(r)
    BY DEF Abreast
  <1>2. EventOf(r) \in Seq(E)
    BY EvOf
  <1>3. t = a.said \/ t = a.said \o EventOf(r)
    BY <1>1, ConcatEmptySeq
  <1> QED BY <1>1, <1>2, <1>3, Zenon DEF Abreast

\* A sequence of one event.
LEMMA HeldIsOne ==
    ASSUME NEW E, NEW h \in Seq(E), Len(h) <= 1, h # <<>>
    PROVE  h = <<h[1]>> /\ h[1] \in E
  <1>1. Len(h) \in Nat /\ Len(h) # 0
    BY LenProperties, EmptySeq
  <1>2. Len(h) = 1 /\ h[1] \in E
    <2>1. Len(h) = 1
      <3> DEFINE n == Len(h)
      <3>1. n \in Nat /\ n # 0 /\ n <= 1
        BY <1>1
      <3> HIDE DEF n
      <3>2. n = 1
        BY <3>1
      <3> QED BY <3>2 DEF n
    <2>2. 1 \in 1 .. Len(h)
      BY <2>1
    <2> QED BY <2>1, <2>2, ElementOfSeq
  <1> DEFINE e == h[1]
  <1> HIDE DEF e
  <1>3. <<e>> \in Seq(E) /\ Len(<<e>>) = 1 /\ <<e>>[1] = e
    BY <1>2 DEF e
  <1>4. \A i \in 1 .. Len(h) : h[i] = <<e>>[i]
    BY <1>2, <1>3 DEF e
  <1>5. h = <<e>>
    BY <1>2, <1>3, <1>4, SeqEqual
  <1> QED BY <1>2, <1>5 DEF e

\* Adding one event.
LEMMA AppendOne ==
    ASSUME NEW E, NEW t \in Seq(E), NEW e \in E
    PROVE  /\ Append(t, e) = t \o <<e>> /\ Append(t, e) \in Seq(E)
           /\ Append(t, e) # <<>> /\ Append(t, e)[Len(Append(t, e))] = e
  <1> DEFINE u == Append(t, e)
             v == t \o <<e>>
  <1>1. /\ u \in Seq(E) /\ Len(u) = Len(t) + 1
        /\ \A i \in 1 .. Len(t) : u[i] = t[i]
        /\ u[Len(t) + 1] = e
    BY AppendProperties
  <1>2. <<e>> \in Seq(E) /\ Len(<<e>>) = 1 /\ <<e>>[1] = e
    OBVIOUS
  <1> DEFINE w == <<e>>
  <1> HIDE DEF w
  <1>3. w \in Seq(E) /\ Len(w) = 1 /\ w[1] = e
    BY <1>2 DEF w
  <1>4. /\ t \o w \in Seq(E) /\ Len(t \o w) = Len(t) + Len(w)
        /\ \A i \in 1 .. Len(t) + Len(w) : (t \o w)[i] = IF i <= Len(t) THEN t[i] ELSE w[i - Len(t)]
    BY <1>3, ConcatProperties
  <1>5. Len(t) \in Nat
    BY LenProperties
  <1> HIDE DEF u
  <1>6. ASSUME NEW i \in 1 .. Len(u) PROVE u[i] = (t \o w)[i]
    <2>1. i \in 1 .. Len(t) + 1
      BY <1>1
    <2>2. CASE i <= Len(t)
      <3>1. i \in 1 .. Len(t) /\ i \in 1 .. Len(t) + Len(w)
        BY <1>3, <1>5, <2>1, <2>2
      <3> QED BY <1>1, <1>4, <2>2, <3>1
    <2>3. CASE ~(i <= Len(t))
      <3>1. i = Len(t) + 1 /\ i - Len(t) = 1 /\ i \in 1 .. Len(t) + Len(w)
        BY <1>3, <1>5, <2>1, <2>3
      <3> QED BY <1>1, <1>3, <1>4, <2>3, <3>1
    <2> QED BY <2>2, <2>3
  <1>7. u = t \o w
    BY <1>1, <1>3, <1>4, <1>6, SeqEqual
  <1>8. u # <<>>
    BY <1>1, <1>5
  <1> QED BY <1>1, <1>7, <1>8 DEF u, w

\* An event that is told is told once.
LEMMA TellKeeps ==
    ASSUME NEW s \in Seq(0..255), NEW n \in Nat, NEW k, NEW p, NEW t, NEW h,
           Abreast(s, n, k, p, t, h), Len(h) <= 1, h # <<>>,
           NEW u, u = IF t # <<>> /\ IsErr(h[1]) /\ t[Len(t)] = h[1] THEN t ELSE Append(t, h[1])
    PROVE  Abreast(s, n, k, p, u, <<>>)
  <1> DEFINE a == After(s)[n]
             r == NextOf(s, a)
             es == EventOf(r)
             E == Ev(s)
             e == h[1]
  <1>1. /\ a.more /\ a.off = k /\ a.peer = p /\ t \in Seq(E) /\ h \in Seq(E)
        /\ a.said \in Seq(E) /\ es \in Seq(E) /\ <<>> \in Seq(E)
    BY SaidGrows, EvOf DEF Abreast
  <1>2. \/ t \o h = a.said /\ ~IsErr(h[1])
        \/ Reported(r) /\ t = a.said /\ h = es
        \/ Reported(r) /\ t = a.said \o es /\ h = es
    BY DEF Abreast
  <1>3. h = <<e>> /\ e \in E
    BY <1>1, HeldIsOne
  <1>4. \A i \in 1 .. Len(a.said) : ~IsErr(a.said[i])
    BY <1>1, WhileDecoding
  <1>5. Reported(r) /\ h = es => IsErr(e)
    BY EventIsErr DEF Reported
  <1> HIDE DEF a, r, es, E, e
  <1>6. /\ Append(t, e) = t \o h /\ Append(t, e) \in Seq(E)
    BY <1>1, <1>3, AppendOne
  <1>7. u = IF t # <<>> /\ IsErr(e) /\ t[Len(t)] = e THEN t ELSE Append(t, e)
    BY DEF e
  <1>8. CASE t \o h = a.said /\ ~IsErr(h[1])
    <2>1. u = t \o h
      BY <1>6, <1>7, <1>8 DEF e
    <2>2. u \in Seq(E) /\ u = a.said
      BY <1>6, <1>8, <2>1
    <2>3. u \o <<>> = a.said
      BY <2>2, ConcatEmptySeq
    <2> QED BY <1>1, <2>2, <2>3, Zenon DEF Abreast, a, E
  <1>9. CASE Reported(r) /\ t = a.said /\ h = es
    <2>1. u = Append(t, e)
      <3> SUFFICES ASSUME t # <<>>, t[Len(t)] = e PROVE FALSE
        BY <1>7
      <3>1. Len(t) \in 1 .. Len(t)
        BY <1>1, LenProperties, EmptySeq
      <3>2. ~IsErr(t[Len(t)])
        BY <1>4, <1>9, <3>1
      <3> QED BY <1>5, <1>9, <3>2
    <2>2. u = a.said \o es /\ u \in Seq(E)
      BY <1>6, <1>9, <2>1
    <2> QED BY <1>1, <1>9, <2>2, Zenon DEF Abreast, a, r, es, E
  <1>10. CASE Reported(r) /\ t = a.said \o es /\ h = es
    <2>1. t = Append(a.said, e)
      <3>1. Append(a.said, e) = a.said \o <<e>>
        BY <1>1, <1>3, AppendOne
      <3> QED BY <1>3, <1>10, <3>1
    <2>2. t # <<>> /\ t[Len(t)] = e
      <3>1. Append(a.said, e) # <<>> /\ Append(a.said, e)[Len(Append(a.said, e))] = e
        BY <1>1, <1>3, AppendOne, Zenon
      <3> QED BY <2>1, <3>1, Zenon
    <2>3. u = t
      BY <1>5, <1>7, <1>10, <2>2
    <2> QED BY <1>1, <1>10, <2>3, Zenon DEF Abreast, a, r, es, E
  <1> QED BY <1>2, <1>8, <1>9, <1>10

\* Every step keeps the task abreast of its stream.
LEMMA ReportsStep ==
    ASSUME TypeOK, Kept, Reports, [Next]_vars
    PROVE  Reports'
  <1>1. stream \in Seq(0..255) /\ stream' = stream
    <2>1. stream \in Seq(0..255)
      BY StreamAssumption DEF TypeOK
    <2>2. ASSUME NEW n \in Piece, ReadBuf(n) PROVE stream' = stream
      BY <2>2 DEF ReadBuf
    <2>3. ASSUME NEW m \in OutMsg, RunSends(m) PROVE stream' = stream
      BY <2>3 DEF RunSends, link
    <2>4. CASE ReadBufFails \/ ProcessReads \/ ProcessReadsErr \/ ReadEnds \/ OneReads
               \/ ProcessTells \/ ProcessTellsNobody \/ ProcessWrites \/ ProcessOutClosed
      BY <2>1, <2>4 DEF ReadBufFails, ProcessReads, ProcessReadsErr, ReadEnds, OneReads,
                  ProcessTells, ProcessTellsNobody, ProcessWrites, ProcessOutClosed, link
    <2>5. CASE RunReceives \/ RunTakesOver \/ RunStartsSend \/ RunDropsOut \/ RunAborts
               \/ RunPanics \/ OthersTell \/ RunSendsElsewhere \/ RunReturns \/ UNCHANGED vars
      BY <2>1, <2>5 DEF RunReceives, RunTakesOver, RunStartsSend, RunDropsOut, RunAborts,
                  RunPanics, OthersTell, RunSendsElsewhere, RunReturns, link, vars
    <2> QED BY <2>1, <2>2, <2>3, <2>4, <2>5 DEF Next
  <1>2. ToldInOrder <=> Begins(told, Says(stream))
    BY DEF ToldInOrder, Begins
  <1>3. ToldInOrder' <=> Begins(told', Says(stream))
    BY <1>1 DEF ToldInOrder, Begins
  <1>4. task # "ended" => ToldInOrder
    BY <1>1, <1>2, AbreastIsTold DEF Reports
  <1>5. ASSUME UNCHANGED <<taken, peer, told, held>>,
               task' = "one" => task = "one", task' = "ended" => task = "ended",
               task = "ended" => task' = "ended"
        PROVE  Reports'
    <2>1. ToldInOrder' <=> ToldInOrder
      BY <1>2, <1>3, <1>5
    <2>2. task' # "ended" => \E n \in Nat : Abreast(stream', n, taken', peer', told', held')
      BY <1>1, <1>5 DEF Reports
    <2> QED BY <1>5, <2>1, <2>2 DEF Reports
  <1>6. ASSUME task # "ended", task' = "ended", told' = told PROVE Reports'
    BY <1>2, <1>3, <1>4, <1>6 DEF Reports
  <1>7. ASSUME NEW n \in Piece, ReadBuf(n) PROVE Reports'
    BY <1>5, <1>7 DEF ReadBuf
  <1>8. ASSUME NEW m \in OutMsg, RunSends(m) PROVE Reports'
    BY <1>5, <1>8 DEF RunSends, link
  <1>9. CASE ProcessWrites \/ RunReceives \/ RunTakesOver \/ RunStartsSend \/ RunDropsOut
             \/ RunPanics \/ OthersTell \/ RunSendsElsewhere \/ RunReturns \/ UNCHANGED vars
    BY <1>5, <1>9 DEF ProcessWrites, RunReceives, RunTakesOver, RunStartsSend, RunDropsOut,
                      RunPanics, OthersTell, RunSendsElsewhere, RunReturns, link, vars
  <1>10. CASE ReadBufFails \/ ReadEnds \/ ProcessTellsNobody \/ ProcessOutClosed \/ RunAborts
    BY <1>6, <1>10 DEF ReadBufFails, ReadEnds, ProcessTellsNobody, ProcessOutClosed,
                       RunAborts, Reading, End
  <1>11. CASE ProcessReads
    <2>1. /\ task = "process" /\ held = <<>> /\ Res.code = "Ok" /\ Advance(Res)
          /\ peer' = Peer(Res) /\ held' = EventOf(Res) /\ task' = task /\ told' = told
      BY <1>11 DEF ProcessReads
    <2>2. PICK n \in Nat : Abreast(stream, n, taken, peer, told, <<>>)
      BY <2>1 DEF Reports
    <2>3. Res = NextOf(stream, After(stream)[n])
      <3>1. Res # BufferTooShort
        BY <2>1 DEF BufferTooShort, Err
      <3> QED BY <2>2, <3>1, NextIsDecoded
    <2>4. /\ taken' = taken + Res.off
          /\ peer' = IF Res.val.type = "Open" THEN Res.val.msg ELSE peer
      BY <2>1 DEF Advance, Peer
    <2>5. Abreast(stream, n + 1, taken', peer', told, EventOf(Res))
      <3> DEFINE r == Res
                 l == taken'
                 q == peer'
      <3>1. /\ r = NextOf(stream, After(stream)[n]) /\ r.code = "Ok" /\ l = taken + r.off
            /\ q = IF r.val.type = "Open" THEN r.val.msg ELSE peer
        BY <2>1, <2>3, <2>4
      <3> HIDE DEF r, l, q
      <3>2. Abreast(stream, n + 1, l, q, told, EventOf(r))
        BY <2>2, <3>1, MessageFurther
      <3> QED BY <3>2 DEF r, l, q
    <2>6. n + 1 \in Nat
      OBVIOUS
    <2> QED BY <1>1, <2>1, <2>5, <2>6 DEF Reports
  <1>12. CASE ProcessReadsErr
    <2>1. /\ task = "process" /\ held = <<>> /\ Reported(Res) /\ UNCHANGED <<taken, peer>>
          /\ held' = EventOf(Res) /\ task' = task /\ told' = told
      BY <1>12 DEF ProcessReadsErr, Reported, link
    <2>2. PICK n \in Nat : Abreast(stream, n, taken, peer, told, <<>>)
      BY <2>1 DEF Reports
    <2>3. Res = NextOf(stream, After(stream)[n])
      BY <2>1, <2>2, ReportedIsThere, NextIsDecoded
    <2>4. Abreast(stream, n, taken, peer, told, EventOf(Res))
      <3> HIDE DEF Res
      <3> QED BY <2>1, <2>2, <2>3, ErrorHeld
    <2> QED BY <1>1, <2>1, <2>4 DEF Reports
  <1>13. CASE ProcessTells
    <2>1. /\ task = "process" /\ held # <<>> /\ held' = <<>> /\ task' = task
          /\ UNCHANGED <<taken, peer>> /\ Len(held) <= 1
          /\ told' = IF told # <<>> /\ IsErr(held[1]) /\ told[Len(told)] = held[1] THEN told
                     ELSE Append(told, held[1])
      BY <1>13 DEF ProcessTells, Tell, link, TypeOK
    <2>2. PICK n \in Nat : Abreast(stream, n, taken, peer, told, held)
      BY <2>1 DEF Reports
    <2>3. Abreast(stream, n, taken, peer, told', <<>>)
      BY <1>1, <2>1, <2>2, TellKeeps
    <2> QED BY <1>1, <2>1, <2>3 DEF Reports
  <1>14. CASE OneReads
    <2> DEFINE r == Res
               es == EventOf(r)
    <2>1. /\ task = "one" /\ r # BufferTooShort
          /\ told' = IF es # <<>> THEN Append(<<>>, es[1]) ELSE <<>>
      BY <1>14 DEF OneReads, Tell, Reports
    <2>2. told = <<>> /\ held = <<>>
      BY <2>1 DEF Reports
    <2>3. PICK n \in Nat : Abreast(stream, n, taken, peer, <<>>, <<>>)
      BY <2>1, <2>2 DEF Reports
    <2>4. r = NextOf(stream, After(stream)[n])
      BY <2>1, <2>3, NextIsDecoded
    <2>5. es = <<>> \/ es = <<es[1]>>
      BY EventIsErr
    <2>6. told' = es /\ <<>> \o es = es
      <3> HIDE DEF es
      <3>1. \A e : Append(<<>>, e) = <<e>>
        OBVIOUS
      <3>2. told' = es
        BY <2>1, <2>5, <3>1
      <3>3. \A e : <<>> \o <<e>> = <<e>>
        OBVIOUS
      <3>4. <<>> \o <<>> = <<>>
        OBVIOUS
      <3> QED BY <2>5, <3>2, <3>3, <3>4
    <2>7. CASE r.code = "Ok" /\ r.val.type = "Open"
      <3>1. /\ taken' = taken + r.off
            /\ peer' = IF r.val.type = "Open" THEN r.val.msg ELSE peer
            /\ task' = "handed" /\ held' = held
        BY <1>14, <2>7 DEF OneReads, Advance, Peer
      <3>2. Abreast(stream, n + 1, taken', peer', <<>> \o es, <<>>)
        <4> DEFINE l == taken'
                   q == peer'
        <4>1. l = taken + r.off /\ q = IF r.val.type = "Open" THEN r.val.msg ELSE peer
          BY <3>1
        <4> HIDE DEF r, l, q
        <4>2. Abreast(stream, n + 1, l, q, <<>> \o es, <<>>)
          BY <2>3, <2>4, <2>7, <4>1, MessageFurther
        <4> QED BY <4>2 DEF r, l, q
      <3>3. n + 1 \in Nat
        OBVIOUS
      <3> HIDE DEF es, r
      <3> QED BY <1>1, <2>2, <2>6, <3>1, <3>2, <3>3 DEF Reports
    <2>8. CASE ~(r.code = "Ok" /\ r.val.type = "Open")
      <3>1. task' = "ended"
        BY <1>14, <2>8 DEF OneReads, End
      <3> DEFINE a == After(stream)[n]
      <3>2. a.more /\ a.said = <<>>
        <4>1. a.more
          BY <2>3 DEF Abreast
        <4>2. \/ <<>> \o <<>> = a.said
              \/ Reported(r) /\ <<>> = a.said
              \/ Reported(r) /\ <<>> = a.said \o es
          <5> HIDE DEF r
          <5> QED BY <2>3, <2>4 DEF Abreast
        <4>3. Reported(r) => es = <<es[1]>>
          BY EventIsErr DEF Reported
        <4>4. a.said \in Seq(Ev(stream)) /\ es \in Seq(Ev(stream))
          <5> HIDE DEF r
          <5> QED BY <2>4, SaidGrows, EvOf
        <4>5. es = <<es[1]>> => a.said \o es # <<>>
          <5> SUFFICES ASSUME es = <<es[1]>> PROVE a.said \o es # <<>>
            OBVIOUS
          <5> HIDE DEF es, a
          <5>1. Len(es) = 1
            <6> DEFINE e == es[1]
            <6> HIDE DEF e
            <6>1. es = <<e>>
              BY DEF e
            <6> QED BY <6>1
          <5>2. Len(a.said \o es) = Len(a.said) + 1 /\ Len(a.said) \in Nat
            <6>1. Len(a.said \o es) = Len(a.said) + Len(es)
              BY <4>4, ConcatProperties, Zenon
            <6>2. Len(a.said) \in Nat
              BY <4>4, LenProperties, Zenon
            <6> QED BY <5>1, <6>1, <6>2
          <5> QED BY <5>2
        <4>6. <<>> \o <<>> = <<>>
          OBVIOUS
        <4> QED BY <4>1, <4>2, <4>3, <4>5, <4>6, Zenon
      <3>3. Begins(a.said \o es, Says(stream))
        <4> HIDE DEF r
        <4> QED BY <1>1, <2>1, <2>4, <3>2, SaidIsSaid
      <3>4. Begins(told', Says(stream))
        BY <2>6, <3>2, <3>3, Zenon
      <3> QED BY <1>3, <3>1, <3>4 DEF Reports
    <2> QED BY <2>7, <2>8
  <1> QED BY <1>7, <1>8, <1>9, <1>10, <1>11, <1>12, <1>13, <1>14 DEF Next

\* run is told what the stream says, in order, once, and nothing is left out.
THEOREM EventsInOrder == Spec => []ToldInOrder
  <1>1. Init => Reports
    <2> SUFFICES ASSUME Init PROVE Reports
      OBVIOUS
    <2> DEFINE a == After(stream)[0]
    <2>1. /\ task # "ended" /\ taken = 0 /\ peer = NoPeer /\ told = <<>> /\ held = <<>>
      BY DEF Init
    <2>2. a = Beginning
      BY AfterSteps
    <2>3. a.more /\ a.off = 0 /\ a.peer = NoPeer /\ a.said = <<>>
      BY <2>2 DEF Beginning
    <2>4. <<>> \o <<>> = <<>> /\ <<>> \in Seq(Ev(stream)) /\ 0 \in Nat
      OBVIOUS
    <2>5. Abreast(stream, 0, taken, peer, told, held)
      BY <2>1, <2>3, <2>4, Zenon DEF Abreast
    <2> QED BY <2>1, <2>4, <2>5 DEF Reports
  <1>2. IInv /\ Reports /\ [Next]_vars => Reports'
    BY ReportsStep DEF IInv
  <1>3. IInv /\ Reports => ToldInOrder
    <2> SUFFICES ASSUME IInv, Reports PROVE ToldInOrder
      OBVIOUS
    <2>1. stream \in Seq(0..255)
      BY StreamAssumption DEF IInv, TypeOK
    <2>2. task # "ended" => Begins(told, Says(stream))
      BY <2>1, AbreastIsTold DEF Reports
    <2> QED BY <2>2 DEF Reports, ToldInOrder, Begins
  <1> QED BY <1>1, <1>2, <1>3, Invariance, PTL DEF Spec

\* The buffer is never advanced beyond its end, where advance would panic, and
\* a message that is decoded takes its header at least: read_message makes
\* headway with each.
AdvanceIsSafe == Res.code = "Ok" => Res.off \in 19 .. Len(buffer)

THEOREM AdvanceNeverPanics == Spec => []AdvanceIsSafe
  <1>1. IInv => AdvanceIsSafe
    BY DecodeWithin DEF IInv, TypeOK, AdvanceIsSafe, Res
  <1> QED BY <1>1, Invariance, PTL
=============================================================================
