----------------------------- MODULE Connection -----------------------------
(***************************************************************************)
(* One TCP connection: BgpConn of connection.rs, the task that owns it     *)
(* (process_one of session.rs or process_passive of main.rs for its first  *)
(* message, process from then on), and run at the other end of the task's  *)
(* two channels.  The channel for events is shared: the tasks of other     *)
(* connections of the session put events into it, and once this connection *)
(* is not the session's, run may wait in a send to another one.            *)
(*                                                                         *)
(* The stream arrives in pieces.  Each turn of read_message decodes what   *)
(* is in the buffer, and reads from the socket only if that is too short.  *)
(* process waits in select! for a message of run as well, which cancels    *)
(* the read; the buffer stays.  At the end of the stream read_buf returns  *)
(* Ok(0) and read_message tries again: a step that changes nothing.        *)
(*                                                                         *)
(* encode yields an empty buffer and write_message drops it; written says  *)
(* what process has taken from its channel for writing.                    *)
(***************************************************************************)
EXTENDS Message

CONSTANTS
    Streams,    \* what the peer may send, as sequences of octets
    Piece,      \* sizes of the pieces a stream arrives in
    OutMsg,     \* messages of run
    BgpCap,     \* capacity of run's channel for events (32 in the code)
    OutCap,     \* capacity of the outgoing channel (32 in the code)
    MaxOut      \* bound on the messages run gives out

ASSUME CapAssumption == BgpCap \in Nat \ {0} /\ OutCap \in Nat \ {0}
ASSUME StreamAssumption == Streams \subseteq Seq(0..255) /\ Piece \subseteq Nat \ {0}

VARIABLES
    stream,     \* the octets the peer sends
    arrived,    \* how many of them have been read from the socket
    buffer,     \* BgpConn.buffer
    peer,       \* BgpConn.peer
    task,       \* who owns the connection
    held,       \* the event that process is waiting to send
    bgp,        \* bgp_tx to bgp_rx, shared by all connections of run
    out,        \* bgp_out_tx to bgp_out_rx
    outOpen,    \* run has not dropped bgp_out_tx
    run,        \* what run does: at select!, sending on out or elsewhere, or gone
    told,       \* history: the events run was sent, an error only once
    given,      \* history: the messages run has put into out
    written,    \* history: the messages process has written
    taken,      \* history: how many octets decode has advanced past
    why         \* history: how the task has ended

vars == <<stream, arrived, buffer, peer, task, held, bgp, out, outOpen, run,
          told, given, written, taken, why>>

link == <<stream, arrived, buffer, taken, peer>>
runVars == <<bgp, outOpen, run, given>>

\* "one" reads the first message, "handed" is a connection in an event or in
\* collision_conn.
TaskState == {"one", "handed", "process", "ended"}

(***************************************************************************)
(* What a result of decode means to process                                *)
(***************************************************************************)
EventOf(r) ==
    CASE r.code = "Ok" /\ r.val.type = "Open" ->
           <<[type |-> "BGPOpen", id |-> r.val.msg.bgp_identifier]>>
      [] r.code = "Ok" /\ r.val.type = "Update" -> <<[type |-> "UpdateMsg"]>>
      [] r.code = "MessageHeaderError" -> <<[type |-> "BGPHeaderErr"]>>
      [] r.code = "OpenMessageError" -> <<[type |-> "BGPOpenMsgErr"]>>
      [] OTHER -> <<>>

\* An event of another connection.
Other == [type |-> "Other"]

IsErr(e) == e.type \in {"BGPHeaderErr", "BGPOpenMsgErr"}

\* Told, counting the repetitions of an error once.
Tell(e) ==
    told' = IF told # <<>> /\ IsErr(e) /\ told[Len(told)] = e THEN told
            ELSE Append(told, e)

\* break, return, or a panic.
End(reason) ==
    /\ task' = "ended" /\ why' = reason
    /\ held' = <<>> /\ out' = <<>>

Peer(r) == IF r.val.type = "Open" THEN r.val.msg ELSE peer

(***************************************************************************)
(* read_message                                                            *)
(***************************************************************************)
Reading == task = "one" \/ (task = "process" /\ held = <<>>)

Res == Decode(buffer, peer)

\* An error in an UPDATE, a failed unwrap, or the panic of advance when it is
\* to go beyond the buffer.
Breaks(r) ==
    \/ r.code \in {"UpdateMessageError", "Panic"}
    \/ r.code = "Ok" /\ r.off \notin 0..Len(buffer)

\* read_buf of at most n octets.
ReadBuf(n) ==
    /\ Reading /\ Res = BufferTooShort
    /\ arrived < Len(stream)
    /\ LET m == IF arrived + n <= Len(stream) THEN arrived + n ELSE Len(stream)
       IN /\ buffer' = buffer \o SubSeq(stream, arrived + 1, m)
          /\ arrived' = m
    /\ UNCHANGED <<stream, taken, peer, task, held, out, told, written, why>>
    /\ UNCHANGED runVars

\* Any error of read_buf ends the task without a word to run.
ReadBufFails ==
    /\ Reading /\ Res = BufferTooShort
    /\ End("io")
    /\ UNCHANGED <<told, written>>
    /\ UNCHANGED <<link, runVars>>

\* Mutant: everything in the buffer is taken to be the message.
AdvanceAll(r) == buffer' = <<>> /\ taken' = taken + r.off

Advance(r) ==
    /\ buffer' = SubSeq(buffer, r.off + 1, Len(buffer))
    /\ taken' = taken + r.off

\* process reads a message; only an OPEN or an UPDATE is reported.
ProcessReads ==
    /\ task = "process" /\ held = <<>>
    /\ Res.code = "Ok" /\ ~Breaks(Res)
    /\ Advance(Res)
    /\ peer' = Peer(Res)
    /\ held' = EventOf(Res)
    /\ UNCHANGED <<stream, arrived, task, out, told, written, why>>
    /\ UNCHANGED runVars

\* The buffer is not advanced past a message that cannot be decoded.
ProcessReadsErr ==
    /\ task = "process" /\ held = <<>>
    /\ Res.code \in {"MessageHeaderError", "OpenMessageError"}
    /\ held' = EventOf(Res)
    /\ UNCHANGED <<task, out, told, written, why>>
    /\ UNCHANGED <<link, runVars>>

\* The loop is left, or the task panics.
ReadEnds ==
    /\ Reading
    /\ Breaks(Res)
    /\ End("decode")
    /\ UNCHANGED <<told, written>>
    /\ UNCHANGED <<link, runVars>>

\* The task for the first message hands over an OPEN with its connection,
\* reports an error, and drops the connection on anything else.
OneReads ==
    /\ task = "one"
    /\ Res # BufferTooShort /\ ~Breaks(Res)
    /\ LET es == EventOf(Res) IN
       IF es # <<>> THEN Tell(es[1]) ELSE UNCHANGED told
    /\ IF Res.code = "Ok" /\ Res.val.type = "Open"
       THEN /\ Advance(Res) /\ peer' = Peer(Res)
            /\ task' = "handed"
            /\ UNCHANGED <<held, out, why>>
       ELSE End("one") /\ UNCHANGED <<buffer, taken, peer>>
    /\ UNCHANGED <<stream, arrived, written>>
    /\ UNCHANGED runVars

(***************************************************************************)
(* The other steps of process                                              *)
(***************************************************************************)
ProcessTells ==
    /\ task = "process" /\ held # <<>> /\ run # "gone"
    /\ Len(bgp) < BgpCap
    /\ bgp' = bgp \o held
    /\ Tell(held[1])
    /\ held' = <<>>
    /\ UNCHANGED <<task, out, outOpen, run, given, written, why>>
    /\ UNCHANGED link

\* bgp_tx.send(..).await.unwrap(), and run is gone.
ProcessTellsNobody ==
    /\ task = "process" /\ held # <<>> /\ run = "gone"
    /\ End("panic")
    /\ UNCHANGED <<told, written>>
    /\ UNCHANGED <<link, runVars>>

ProcessWrites ==
    /\ task = "process" /\ held = <<>> /\ out # <<>>
    /\ written' = Append(written, Head(out))
    /\ out' = Tail(out)
    /\ UNCHANGED <<task, held, told, why>>
    /\ UNCHANGED <<link, runVars>>

\* Mutant: a dropped sender ends process before the channel is empty.
ProcessOutClosedEarly ==
    /\ task = "process" /\ held = <<>> /\ ~outOpen
    /\ End("closed")
    /\ UNCHANGED <<told, written>>
    /\ UNCHANGED <<link, runVars>>

\* recv returns None only once the channel is empty.
ProcessOutClosed ==
    /\ task = "process" /\ held = <<>> /\ out = <<>> /\ ~outOpen
    /\ End("closed")
    /\ UNCHANGED <<told, written>>
    /\ UNCHANGED <<link, runVars>>

(***************************************************************************)
(* The other connections                                                   *)
(***************************************************************************)
\* The process task of another connection of run sends an event.
OthersTell ==
    /\ run # "gone" /\ Len(bgp) < BgpCap
    /\ bgp' = Append(bgp, Other)
    /\ UNCHANGED <<task, held, out, outOpen, run, told, given, written, why>>
    /\ UNCHANGED link

\* The session's connection is another one, and an arm sends to it: a send
\* that may wait for a while or for ever.
RunSendsElsewhere ==
    /\ run = "select" /\ ~outOpen
    /\ run' = "elsewhere"
    /\ UNCHANGED <<link, task, held, bgp, out, outOpen, told, given, written, why>>

RunReturns ==
    /\ run = "elsewhere"
    /\ run' = "select"
    /\ UNCHANGED <<link, task, held, bgp, out, outOpen, told, given, written, why>>

(***************************************************************************)
(* run                                                                     *)
(***************************************************************************)
RunReceives ==
    /\ run = "select" /\ bgp # <<>>
    /\ bgp' = Tail(bgp)
    /\ UNCHANGED <<task, held, out, outOpen, run, told, given, written, why>>
    /\ UNCHANGED link

\* Mutant: the connection is taken over without what it has buffered.
RunTakesOverAfresh ==
    /\ run = "select" /\ task = "handed"
    /\ task' = "process" /\ outOpen' = TRUE /\ buffer' = <<>>
    /\ UNCHANGED <<stream, arrived, taken, peer, held, bgp, out, run, told, given, written, why>>

\* The connection becomes the session's: a process task with a new channel.
RunTakesOver ==
    /\ run = "select" /\ task = "handed"
    /\ task' = "process" /\ outOpen' = TRUE
    /\ UNCHANGED <<link, held, bgp, out, run, told, given, written, why>>

\* An arm is about to send; until it has, run takes no other event.
RunStartsSend ==
    /\ run = "select" /\ outOpen /\ Len(given) < MaxOut
    /\ run' = "sending"
    /\ UNCHANGED <<link, task, held, bgp, out, outOpen, told, given, written, why>>

\* Mutant: the channel is unbounded.
RunSendsAtOnce(m) ==
    /\ run = "sending" /\ task = "process"
    /\ out' = Append(out, m)
    /\ given' = Append(given, m)
    /\ run' = "select"
    /\ UNCHANGED <<link, task, held, bgp, outOpen, told, written, why>>

\* bgp_out_tx.send(..).await waits while the channel is full.
RunSends(m) ==
    /\ run = "sending" /\ task = "process" /\ Len(out) < OutCap
    /\ out' = Append(out, m)
    /\ given' = Append(given, m)
    /\ run' = "select"
    /\ UNCHANGED <<link, task, held, bgp, outOpen, told, written, why>>

\* The session's connection is replaced; its handle is dropped, which only
\* detaches the task.
RunDropsOut ==
    /\ run = "select" /\ outOpen
    /\ outOpen' = FALSE
    /\ UNCHANGED <<link, task, held, bgp, out, run, told, given, written, why>>

\* A conversion into Idle aborts the task, a collision that is decided for
\* the other connection drops this one.
RunAborts ==
    /\ run = "select" /\ task \in {"process", "handed"}
    /\ task = "process" => outOpen
    /\ End("aborted") /\ outOpen' = FALSE
    /\ UNCHANGED <<link, bgp, run, told, given, written>>

\* A send to a task that is gone, or a panic for another reason.
RunPanics ==
    /\ \/ run \in {"select", "elsewhere"}
       \/ run = "sending" /\ task = "ended"
    /\ run' = "gone" /\ outOpen' = FALSE /\ bgp' = <<>>
    /\ UNCHANGED <<link, task, held, out, told, given, written, why>>

Init ==
    /\ stream \in Streams
    /\ arrived = 0 /\ buffer = <<>> /\ taken = 0 /\ peer = NoPeer
    /\ task \in {"one", "process"}
    /\ outOpen = (task = "process")
    /\ held = <<>> /\ bgp = <<>> /\ out = <<>>
    /\ run = "select"
    /\ told = <<>> /\ given = <<>> /\ written = <<>> /\ why = ""

Next ==
    \/ \E n \in Piece : ReadBuf(n)
    \/ ReadBufFails \/ ProcessReads \/ ProcessReadsErr \/ ReadEnds \/ OneReads
    \/ ProcessTells \/ ProcessTellsNobody \/ ProcessWrites \/ ProcessOutClosed
    \/ OthersTell \/ RunSendsElsewhere \/ RunReturns
    \/ RunReceives \/ RunTakesOver \/ RunStartsSend
    \/ \E m \in OutMsg : RunSends(m)
    \/ RunDropsOut \/ RunAborts \/ RunPanics

Spec == Init /\ [][Next]_vars

\* The octets of a stream arrive, and tasks that can go on do.  The select!
\* of process and that of run poll in random order, so neither of two
\* branches that are ready again and again is passed over for ever; senders
\* that wait for room in a channel are served in turn.  A send elsewhere need
\* not come to its end.
Fairness ==
    /\ SF_vars(\E n \in Piece : ReadBuf(n))
    /\ SF_vars(ProcessReads) /\ SF_vars(ProcessReadsErr)
    /\ WF_vars(ReadEnds) /\ WF_vars(OneReads)
    /\ SF_vars(ProcessTells) /\ WF_vars(ProcessTellsNobody)
    /\ SF_vars(ProcessWrites) /\ SF_vars(ProcessOutClosed)
    /\ SF_vars(RunReceives) /\ WF_vars(\E m \in OutMsg : RunSends(m))
    /\ WF_vars(run = "sending" /\ RunPanics)

FairSpec == Spec /\ Fairness

(***************************************************************************)
(* Properties                                                              *)
(***************************************************************************)
\* Every variable has its type, and the bounded channels keep to their bounds.
TypeOK ==
    /\ stream \in Streams /\ arrived \in 0..Len(stream)
    /\ buffer \in Seq(0..255) /\ taken \in Nat
    /\ task \in TaskState
    /\ Len(held) <= 1 /\ Len(bgp) <= BgpCap
    /\ out \in Seq(OutMsg) /\ Len(out) <= OutCap
    /\ given \in Seq(OutMsg) /\ written \in Seq(OutMsg)
    /\ outOpen \in BOOLEAN
    /\ run \in {"select", "sending", "elsewhere", "gone"}

\* No octet is lost, read twice or out of its order, whatever the pieces the
\* stream arrives in, wherever select! cancels a read, and although the buffer
\* changes hands with the connection; and decode makes of the buffer what it
\* would make of all that is left of the stream.
PiecesDoNotMatter ==
    /\ taken <= arrived
    /\ buffer = SubSeq(stream, taken + 1, arrived)
    /\ Res # BufferTooShort =>
          Res = Decode(SubSeq(stream, taken + 1, Len(stream)), peer)

\* The circle run closes if it sends to a process that waits to send to it, or
\* to that of another connection while this one waits as well.
CircularWait ==
    /\ held # <<>> /\ Len(bgp) = BgpCap
    /\ (run = "sending" /\ Len(out) = OutCap) \/ run = "elsewhere"

\* Once run has dropped the channel of a process task, the task ends by
\* itself; and unless reading fails before, it has written what was in the
\* channel: a Cease put there before the handle is dropped is not lost.  The
\* one thing that keeps the task is a run that never comes back from a send
\* to another connection while the shared channel is full.
DroppedChannelDrains ==
    (task = "process" /\ ~outOpen)
        ~> (\/ task = "ended" /\ (why = "closed" => written = given)
            \/ []CircularWait)
=============================================================================
