-------------------------- MODULE ConnectionStream --------------------------
(***************************************************************************)
(* What run is told of a whole stream, against a reference that decodes    *)
(* the stream in one piece.                                                *)
(***************************************************************************)
EXTENDS Connection

\* Where the reading of a stream is: the octets that have been advanced past,
\* the peer's OPEN, what has been said so far, and whether decoding goes on.
Beginning == [off |-> 0, peer |-> NoPeer, said |-> <<>>, more |-> TRUE]

\* What decode makes of all that is left of s at a.
NextOf(s, a) == Decode(SubSeq(s, a.off + 1, Len(s)), a.peer)

\* One message further; an error, or the lack of octets, is the end.
Further(s, a) ==
    LET r == NextOf(s, a)
        ok == r.code = "Ok"
    IN IF ~a.more THEN a
       ELSE [off |-> IF ok THEN a.off + r.off ELSE a.off,
             peer |-> IF ok /\ r.val.type = "Open" THEN r.val.msg ELSE a.peer,
             said |-> a.said \o EventOf(r),
             more |-> ok]

After(s) ==
    LET after[n \in Nat] == IF n = 0 THEN Beginning ELSE Further(s, after[n - 1])
    IN after

\* What a stream says from its first octet on, if it arrives in one piece and
\* nothing else happens: up to the first error, or the first message that
\* does not come to an end.  Each message has at least its header.
Says(s) == After(s)[Len(s) \div MIN_MSG_LEN].said

\* run is told what the stream says, in its order, nothing twice (but for an
\* error, which is told for ever) and nothing left out: whatever the pieces
\* it arrives in, wherever select! cancels a read, and although the buffer
\* changes hands with the connection.
ToldInOrder ==
    /\ Len(told) <= Len(Says(stream))
    /\ told = SubSeq(Says(stream), 1, Len(told))

\* All that the stream says is told in the end, unless the connection ends,
\* it is not taken over, or run and process wait for each other: no message,
\* and no error before it, keeps process from the ones it can decode.
AllIsTold ==
    <>[](\/ Len(told) = Len(Says(stream))
         \/ task \in {"ended", "handed"}
         \/ CircularWait)
=============================================================================
