------------------------------ MODULE Session ------------------------------
(***************************************************************************)
(* One BGP session: the loop of session::run, the tasks it spawns          *)
(* (try_tcp_conn, process, process_one, the timer tasks) and the channels  *)
(* on which those tasks send it events.                                    *)
(*                                                                         *)
(* One step of the loop takes the first event of one channel and runs the  *)
(* match arm for (state, event, source) to its end.  A failed unwrap or an *)
(* explicit panic ends the session's task, and the model with it.  A send  *)
(* on a full channel may never return: then run is stalled, and takes no   *)
(* event any more, while the other tasks go on.                            *)
(*                                                                         *)
(* Time is abstracted: a timer task whose duration is not FAR_FUTURE may   *)
(* expire at any moment, again and again, as the loop of timer_loop does.  *)
(* Operation::Restart leaves the duration alone, so here it has no effect. *)
(* An order takes effect some time after run has given it: until then the  *)
(* task may still send expiries of its former duration.  TimerService is   *)
(* this contract; TimerLoop, the channels of timer_loop, implements it.    *)
(***************************************************************************)
EXTENDS Fsm

CONSTANTS
    DelayOpen,                        \* attr.delay_open
    DelayOpenTime,                    \* attr.delay_open_time
    SendNotificationWithoutOpen,      \* attr.send_notification_without_open
    CollisionDetectEstablishedState,  \* attr.collision_detect_established_state
    AdminEvent,     \* plain events that arrive on the admin channel
    SlowTimer,      \* timers whose task may lag behind (all of them)
    ChanCap         \* capacity of each channel (32 in the code)

Source == {"Admin", "Tcp", "Bgp", "Coll", "Timer"}

ASSUME OptionAssumption ==
    /\ DelayOpen \in BOOLEAN
    /\ DelayOpenTime \in Nat /\ DelayOpenTime # FarFuture
    /\ SendNotificationWithoutOpen \in BOOLEAN
    /\ CollisionDetectEstablishedState \in BOOLEAN
ASSUME AdminAssumption == AdminEvent \subseteq PlainEvent
ASSUME SlowTimerAssumption == SlowTimer \subseteq TimerKind
ASSUME ChanAssumption == ChanCap \in [Source -> Nat]

VARIABLES
    fsm,    \* the State value owned by run
    attr,   \* its SessionAttributes: retry counter, negotiated times
    cur,    \* its SessionAttributes: cur_*_time, what run believes of timers
    dur,    \* the duration last ordered of each timer task
    late,   \* the timers whose task may still wait on an earlier duration
    conn,   \* per connection: the task that owns it and what was sent on it
    chan,   \* the events waiting in each channel
    owed    \* the OPEN a process_one task has read and not yet sent

vars == <<fsm, attr, cur, dur, late, conn, chan, owed>>

(***************************************************************************)
(* Connections.  A socket is owned by a connecting task, by an event in a  *)
(* channel or collision_conn ("socket"), or by a process or process_one    *)
(* task.  peer tells whether BgpConn.peer is set: an OPEN was read from    *)
(* it.  opens counts the OPEN messages handed to the process task.         *)
(***************************************************************************)
ConnRecord ==
    [task : {"none", "try_tcp_conn", "socket", "process", "process_one"},
     peer : BOOLEAN, remote_syn : BOOLEAN, opens : Nat]

Gone == [task |-> "none", peer |-> FALSE, remote_syn |-> FALSE, opens |-> 0]
Attempt == [Gone EXCEPT !.task = "try_tcp_conn"]
Socket(p) == [Gone EXCEPT !.task = "socket", !.peer = p]
ProcessOne == [Gone EXCEPT !.task = "process_one"]
Process(c, y, n) ==
    [task |-> "process", peer |-> conn[c].peer, remote_syn |-> y, opens |-> n]

Mentioned(c) ==
    \E src \in Source : \E i \in DOMAIN chan[src] : chan[src][i].conn = c

\* An identity that nothing refers to; Conn bounds how many live at a time.
Fresh(c) ==
    /\ conn[c] = Gone
    /\ owed[c] = None
    /\ c \notin {fsm.tcp_conn, fsm.bgp_conn, fsm.collision_conn}
    /\ ~Mentioned(c)

\* The connections of S are dropped, which closes their sockets.
Without(S) == [c \in Conn |-> IF c \in S THEN Gone ELSE conn[c]]

\* The socket an event carries, dropped with it when a handler ignores it.
Carried(e) ==
    IF e.type \in SocketEvent THEN {e.conn} ELSE {}

\* Aborting a finished task has no effect.
Aborted(a) ==
    {c \in Conn : \/ c = a.attempt /\ conn[c].task = "try_tcp_conn"
                  \/ c = a.process /\ conn[c].task = "process"}

\* bgp_out_tx.as_ref().unwrap() and send(..).await.unwrap() both succeed.
CanSend(c) == c \in Conn /\ conn[c].task = "process"

(***************************************************************************)
(* Effects shared by the match arms                                        *)
(***************************************************************************)
\* Mutant: the timers are stopped, cur_*_time is not set.
StopUnrecorded(K) ==
    /\ dur' = [k \in TimerKind |-> IF k \in K THEN FarFuture ELSE dur[k]]
    /\ UNCHANGED cur

Stop(K) ==
    /\ cur' = [k \in TimerKind |-> IF k \in K THEN FarFuture ELSE cur[k]]
    /\ dur' = [k \in TimerKind |-> IF k \in K THEN FarFuture ELSE dur[k]]

Start(k, d) ==
    /\ cur' = [cur EXCEPT ![k] = d]
    /\ dur' = [dur EXCEPT ![k] = d]

\* Mutant: off by one.
CounterOffByOne(n) == attr' = [attr EXCEPT !.connect_retry_counter = n - 1]

Counter(n) == attr' = [attr EXCEPT !.connect_retry_counter = n]

Retries == attr.connect_retry_counter

\* session = State::X(s): the event is consumed, and its socket dropped.
Ignore(e) ==
    /\ conn' = Without(Carried(e))
    /\ UNCHANGED <<fsm, attr, cur, dur>>

Panic(e) ==
    /\ fsm' = [NewFsm EXCEPT !.state = "Panicked"]
    /\ conn' = Without(Carried(e) \cup {fsm.collision_conn})
    /\ UNCHANGED <<attr, cur, dur>>

\* Into Idle with retry counter n, the timers of K stopped.
GoIdle(e, n, K) ==
    /\ fsm' = IntoIdle
    /\ Counter(n)
    /\ Stop(K)
    /\ conn' = Without(Aborted(AbortedIntoIdle(fsm)) \cup Carried(e)
                       \cup {fsm.collision_conn})

Confirmed == fsm.state \in {"OpenConfirm", "Established"}

\* bgp_out_tx.send(..).await never returns: process, which would make room,
\* waits itself, for run (Connection!CircularWait) or for the peer.  Before
\* OpenConfirm a channel is sent two messages at most, and is never full;
\* from then on KEEPALIVEs fill it, and the model lets any send find it so.
Stall ==
    /\ Confirmed
    /\ fsm' = [fsm EXCEPT !.state = "Stalled"]
    /\ UNCHANGED <<attr, cur, dur, conn>>

\* A NOTIFICATION on the session's connection, then Idle.
NotifyAndGoIdle(e, n) ==
    IF CanSend(fsm.bgp_conn)
    THEN GoIdle(e, n, {"ConnectRetry"}) \/ Stall
    ELSE Panic(e)

\* A KEEPALIVE on the session's connection; Restart leaves the timer as it is.
SendKeepalive(e) ==
    IF CanSend(fsm.bgp_conn) THEN Ignore(e) \/ Stall ELSE Panic(e)

\* A NOTIFICATION only if it may precede the OPEN, then Idle.
MaybeNotifyAndGoIdle(e, n, K) ==
    IF SendNotificationWithoutOpen /\ ~CanSend(fsm.bgp_conn)
    THEN Panic(e) ELSE GoIdle(e, n, K)

\* Mutant: the OPEN is sent at once even when it is to be delayed.
TakeConnectionEager(e, y, opened, recorded) ==
    LET c == e.conn IN
    /\ Counter(0)
    /\ conn' = [conn EXCEPT ![c] = Process(c, y, 1)]
    /\ fsm' = IF DelayOpen THEN [fsm EXCEPT !.bgp_conn = c]
              ELSE [opened EXCEPT !.remote_syn = y]
    /\ dur' = [dur EXCEPT !["ConnectRetry"] = FarFuture,
                          !["DelayOpen"] = IF DelayOpen THEN DelayOpenTime ELSE @]
    /\ cur' = [cur EXCEPT !["ConnectRetry"] = FarFuture,
                          !["DelayOpen"] = IF DelayOpen /\ recorded
                                           THEN DelayOpenTime ELSE @]

\* Mutant: the OPEN is delayed even when delay_open is not set.
TakeConnectionDelayed(e, y, opened, recorded) ==
    /\ Counter(0)
    /\ conn' = [conn EXCEPT ![e.conn] = Process(e.conn, y, 0)]
    /\ fsm' = [fsm EXCEPT !.bgp_conn = e.conn]
    /\ dur' = [dur EXCEPT !["ConnectRetry"] = FarFuture, !["DelayOpen"] = DelayOpenTime]
    /\ cur' = [cur EXCEPT !["ConnectRetry"] = FarFuture,
                          !["DelayOpen"] = IF recorded THEN DelayOpenTime ELSE @]

\* The socket of e becomes the session's connection: a process task takes
\* it, and the OPEN is sent at once unless delay_open is set.  opened is the
\* state after the OPEN; recorded tells whether cur_delay_open_time is set.
TakeConnection(e, y, opened, recorded) ==
    LET c == e.conn IN
    /\ Counter(0)
    /\ conn' = [conn EXCEPT ![c] = Process(c, y, IF DelayOpen THEN 0 ELSE 1)]
    /\ fsm' = IF DelayOpen THEN [fsm EXCEPT !.bgp_conn = c]
              ELSE [opened EXCEPT !.remote_syn = y]
    /\ dur' = [dur EXCEPT !["ConnectRetry"] = FarFuture,
                          !["DelayOpen"] = IF DelayOpen THEN DelayOpenTime ELSE @]
    /\ cur' = [cur EXCEPT !["ConnectRetry"] = FarFuture,
                          !["DelayOpen"] = IF DelayOpen /\ recorded
                                           THEN DelayOpenTime ELSE @]

\* The lesser of the two proposed hold times.  The code's test for
\* FAR_FUTURE never succeeds: the times are u16 numbers of seconds.
HoldTime(m) ==
    Secs(IF LocalOpen.hold < m.hold THEN LocalOpen.hold ELSE m.hold)

\* Mutant: the Hold timer is armed with the hold time before negotiation.
ConfirmStale(s, m, keepalive) ==
    LET Armed(t) == [t EXCEPT !["ConnectRetry"] = FarFuture,
                              !["DelayOpen"] = FarFuture,
                              !["Keepalive"] = keepalive,
                              !["Hold"] = attr.hold_time]
    IN /\ fsm' = [s EXCEPT !.peer_open = m]
       /\ attr' = [attr EXCEPT !.hold_time = HoldTime(m),
                               !.keepalive_time = keepalive]
       /\ cur' = Armed(cur)
       /\ dur' = Armed(dur)

\* Mutant: the Hold timer is not armed.
ConfirmUnheld(s, m, keepalive) ==
    LET Armed(t) == [t EXCEPT !["ConnectRetry"] = FarFuture,
                              !["DelayOpen"] = FarFuture,
                              !["Keepalive"] = keepalive]
    IN /\ fsm' = [s EXCEPT !.peer_open = m]
       /\ attr' = [attr EXCEPT !.hold_time = HoldTime(m),
                               !.keepalive_time = keepalive]
       /\ cur' = Armed(cur)
       /\ dur' = Armed(dur)

\* Into OpenConfirm as s, with the peer's OPEN m: stop ConnectRetry and
\* DelayOpen, adopt the negotiated hold time, start Keepalive and Hold.
Confirm(s, m, keepalive) ==
    LET Armed(t) == [t EXCEPT !["ConnectRetry"] = FarFuture,
                              !["DelayOpen"] = FarFuture,
                              !["Keepalive"] = keepalive,
                              !["Hold"] = HoldTime(m)]
    IN /\ fsm' = [s EXCEPT !.peer_open = m]
       /\ attr' = [attr EXCEPT !.hold_time = HoldTime(m),
                               !.keepalive_time = keepalive]
       /\ cur' = Armed(cur)
       /\ dur' = Armed(dur)

\* Mutant: only the KEEPALIVE is sent.
ConfirmDelayedWithoutOpen(e, s) ==
    IF CanSend(s.bgp_conn)
    THEN /\ Confirm([s EXCEPT !.local_open = LocalOpen], e.msg,
                    HoldTime(e.msg) \div DFLT_KEEPALIVE_FACTOR)
         /\ UNCHANGED conn
    ELSE Panic(e)

\* OPEN while the DelayOpen timer runs: answer with OPEN and KEEPALIVE.
ConfirmDelayed(e, s) ==
    IF CanSend(s.bgp_conn)
    THEN /\ Confirm([s EXCEPT !.local_open = LocalOpen], e.msg,
                    HoldTime(e.msg) \div DFLT_KEEPALIVE_FACTOR)
         /\ conn' = [conn EXCEPT ![s.bgp_conn].opens = @ + 1]
    ELSE Panic(e)

\* DelayOpen timer expired: send the OPEN and enter OpenSent as s.
OpenDelayed(e, s, K) ==
    IF CanSend(s.bgp_conn)
    THEN /\ fsm' = [s EXCEPT !.local_open = LocalOpen]
         /\ conn' = [conn EXCEPT ![s.bgp_conn].opens = @ + 1]
         /\ Stop(K)
         /\ UNCHANGED attr
    ELSE Panic(e)

\* tokio::spawn(try_tcp_conn(..)) for the state s.
SpawnAttempt(s, dropped) ==
    \E c \in Conn :
        /\ Fresh(c)
        /\ fsm' = [s EXCEPT !.tcp_conn = c]
        /\ conn' = [Without(dropped) EXCEPT ![c] = Attempt]

In(state, e, types) == fsm.state = state /\ e.type \in types

(***************************************************************************)
(* Idle                                                                    *)
(***************************************************************************)
\* Mutant: the retry counter is not reset.
IdleStartCounting(e) ==
    /\ In("Idle", e, {"ManualStart", "AutomaticStart"})
    /\ UNCHANGED attr
    /\ Start("ConnectRetry", DFLT_BGP_TIMERS_CONNECT)
    /\ SpawnAttempt(IdleIntoConnect, {})

IdleStart(e) ==
    /\ In("Idle", e, {"ManualStart", "AutomaticStart"})
    /\ Counter(0)
    /\ Start("ConnectRetry", DFLT_BGP_TIMERS_CONNECT)
    /\ SpawnAttempt(IdleIntoConnect, {})

IdleStartPassive(e) ==
    /\ In("Idle", e, {"ManualStartWithPassiveTcpEstablishment",
                      "AutomaticStartWithPassiveTcpEstablishment"})
    /\ Counter(0)
    /\ Start("ConnectRetry", DFLT_BGP_TIMERS_CONNECT)
    /\ fsm' = IdleIntoActive
    /\ UNCHANGED conn

IdleOther(e) ==
    /\ fsm.state = "Idle"
    /\ e.type \notin {"ManualStart", "AutomaticStart",
                      "ManualStartWithPassiveTcpEstablishment",
                      "AutomaticStartWithPassiveTcpEstablishment"}
    /\ Ignore(e)

(***************************************************************************)
(* Connect                                                                 *)
(***************************************************************************)
ConnectManualStop(e) ==
    /\ In("Connect", e, {"ManualStop"})
    /\ GoIdle(e, 0, {"ConnectRetry"})

ConnectRetryExpires(e) ==
    /\ In("Connect", e, {"ConnectRetryTimerExpires"})
    /\ Stop({"DelayOpen"})
    /\ SpawnAttempt(fsm, Aborted([attempt |-> fsm.tcp_conn, process |-> None]))
    /\ UNCHANGED attr

ConnectDelayOpenExpires(e) ==
    /\ In("Connect", e, {"DelayOpenTimerExpires"})
    /\ OpenDelayed(e, ConnectIntoOpenSent(fsm), {})

ConnectTcpIgnored(e) ==
    /\ In("Connect", e, {"TcpConnectionValid", "TcpCRInvalid"})
    /\ Ignore(e)

ConnectTcpCRAcked(e) ==
    /\ In("Connect", e, {"TcpCRAcked"})
    /\ TakeConnection(e, FALSE, ConnectIntoOpenSent(fsm), TRUE)

ConnectTcpConfirmed(e) ==
    /\ In("Connect", e, {"TcpConnectionConfirmed"})
    /\ TakeConnection(e, TRUE, ConnectIntoOpenSent(fsm), FALSE)

\* Mutant: a failed attempt is waited out in Connect, its timer stopped.
ConnectTcpFailsStays(e) ==
    /\ In("Connect", e, {"TcpConnectionFails"})
    /\ Stop({"ConnectRetry", "DelayOpen"})
    /\ UNCHANGED <<fsm, attr, conn>>

ConnectTcpFails(e) ==
    /\ In("Connect", e, {"TcpConnectionFails"})
    /\ \/ /\ cur["DelayOpen"] = FarFuture
          /\ GoIdle(e, Retries, {"ConnectRetry"})
       \/ /\ cur["DelayOpen"] # FarFuture
          /\ fsm' = ConnectIntoActive(fsm)
          /\ Stop({"DelayOpen"})
          /\ conn' = Without(Aborted([attempt |-> fsm.tcp_conn, process |-> None]))
          /\ UNCHANGED attr

ConnectOpenDelayed(e) ==
    /\ In("Connect", e, {"BGPOpenWithDelayOpenTimerRunning"})
    /\ ConfirmDelayed(e, ConnectIntoOpenConfirm(fsm))

ConnectMsgErr(e) ==
    /\ In("Connect", e, MsgErr)
    /\ MaybeNotifyAndGoIdle(e, Retries + 1, {"ConnectRetry"})

ConnectNotifyVerErr(e) ==
    /\ In("Connect", e, {"NotifyMsgVerErr"})
    /\ IF cur["Hold"] # FarFuture
       THEN GoIdle(e, Retries, {"ConnectRetry", "DelayOpen"})
       ELSE GoIdle(e, Retries + 1, {"ConnectRetry"})

ConnectOther(e) ==
    /\ fsm.state = "Connect"
    /\ e.type \notin {"ManualStop", "ConnectRetryTimerExpires",
                      "DelayOpenTimerExpires", "TcpConnectionValid",
                      "TcpCRInvalid", "TcpCRAcked", "TcpConnectionConfirmed",
                      "TcpConnectionFails", "BGPOpenWithDelayOpenTimerRunning",
                      "BGPHeaderErr", "BGPOpenMsgErr", "NotifyMsgVerErr"}
    /\ GoIdle(e, Retries + 1, {"ConnectRetry", "DelayOpen"})

(***************************************************************************)
(* Active                                                                  *)
(***************************************************************************)
ActiveStart(e) ==
    /\ In("Active", e, StartEvent)
    /\ Ignore(e)

ActiveManualStop(e) ==
    /\ In("Active", e, {"ManualStop"})
    /\ IF cur["Hold"] # FarFuture
       THEN MaybeNotifyAndGoIdle(e, 0, {"ConnectRetry", "DelayOpen"})
       ELSE GoIdle(e, 0, {"ConnectRetry"})

ActiveRetryExpires(e) ==
    /\ In("Active", e, {"ConnectRetryTimerExpires"})
    /\ SpawnAttempt(ActiveIntoConnect(fsm), {})
    /\ UNCHANGED <<attr, cur, dur>>

\* Mutant: the DelayOpen timer, which is periodic, is not stopped.
ActiveDelayOpenExpiresAgain(e) ==
    /\ In("Active", e, {"DelayOpenTimerExpires"})
    /\ OpenDelayed(e, ActiveIntoOpenSent(fsm), {"ConnectRetry"})

ActiveDelayOpenExpires(e) ==
    /\ In("Active", e, {"DelayOpenTimerExpires"})
    /\ OpenDelayed(e, ActiveIntoOpenSent(fsm), {"ConnectRetry", "DelayOpen"})

ActiveTcpIgnored(e) ==
    /\ In("Active", e, {"TcpConnectionValid", "TcpCRInvalid"})
    /\ Ignore(e)

ActiveTcpCRAcked(e) ==
    /\ In("Active", e, {"TcpCRAcked"})
    /\ TakeConnection(e, FALSE,
                      ActiveIntoOpenSent([fsm EXCEPT !.bgp_conn = e.conn]), TRUE)

ActiveTcpConfirmed(e) ==
    /\ In("Active", e, {"TcpConnectionConfirmed"})
    /\ TakeConnection(e, TRUE,
                      ActiveIntoOpenSent([fsm EXCEPT !.bgp_conn = e.conn]), TRUE)

\* ConnectRetry is restarted, not stopped, on the way to Idle.
ActiveTcpFails(e) ==
    /\ In("Active", e, {"TcpConnectionFails"})
    /\ GoIdle(e, Retries + 1, {"DelayOpen"})

ActiveOpenDelayed(e) ==
    /\ In("Active", e, {"BGPOpenWithDelayOpenTimerRunning"})
    /\ ConfirmDelayed(e, ActiveIntoOpenConfirm(fsm))

ActiveMsgErr(e) ==
    /\ In("Active", e, MsgErr)
    /\ MaybeNotifyAndGoIdle(e, Retries + 1, {"ConnectRetry"})

ActiveNotifyVerErr(e) ==
    /\ In("Active", e, {"NotifyMsgVerErr"})
    /\ IF cur["Hold"] # FarFuture
       THEN GoIdle(e, Retries, {"ConnectRetry", "DelayOpen"})
       ELSE GoIdle(e, Retries + 1, {"ConnectRetry"})

ActiveOther(e) ==
    /\ fsm.state = "Active"
    /\ e.type \notin StartEvent \cup
                     {"ManualStop", "ConnectRetryTimerExpires",
                      "DelayOpenTimerExpires", "TcpConnectionValid",
                      "TcpCRInvalid", "TcpCRAcked", "TcpConnectionConfirmed",
                      "TcpConnectionFails", "BGPOpenWithDelayOpenTimerRunning",
                      "BGPHeaderErr", "BGPOpenMsgErr", "NotifyMsgVerErr"}
    /\ GoIdle(e, Retries + 1, {"ConnectRetry"})

(***************************************************************************)
(* Collisions, in OpenSent and later                                       *)
(***************************************************************************)
\* A second outgoing connection: process_one reads its first message.
ProbeCollision(e) ==
    /\ conn' = [conn EXCEPT ![e.conn] = ProcessOne]
    /\ UNCHANGED <<fsm, attr, cur, dur>>

\* collision_conn = Some(conn); the previous one, if any, is dropped.
HoldCollision(e) ==
    /\ fsm' = [fsm EXCEPT !.collision_conn = e.conn]
    /\ conn' = Without({fsm.collision_conn})
    /\ UNCHANGED <<attr, cur, dur>>

\* Mutant: the comparison of identifiers is reversed.
PeerWinsReversed(e) == LocalOpen.id > e.msg.id

\* The peer's identifier is the higher one: its connection should win.
PeerWins(e) == LocalOpen.id < e.msg.id

\* collision_conn.take().unwrap() becomes the session's connection.  The
\* process task of the old one is only detached.
Replaced == [fsm EXCEPT !.bgp_conn = fsm.collision_conn, !.collision_conn = None]
ReplacedConn(y, n) ==
    [conn EXCEPT ![fsm.collision_conn] = Process(fsm.collision_conn, y, n)]
\* collision_conn is dropped.
Dropped == [fsm EXCEPT !.collision_conn = None]

(***************************************************************************)
(* OpenSent                                                                *)
(***************************************************************************)
OpenSentStart(e) ==
    /\ In("OpenSent", e, StartEvent)
    /\ Ignore(e)

OpenSentManualStop(e) ==
    /\ In("OpenSent", e, {"ManualStop"})
    /\ NotifyAndGoIdle(e, 0)

OpenSentAutomaticStop(e) ==
    /\ In("OpenSent", e, {"AutomaticStop"})
    /\ NotifyAndGoIdle(e, Retries + 1)

OpenSentHoldExpires(e) ==
    /\ In("OpenSent", e, {"HoldTimerExpires"})
    /\ NotifyAndGoIdle(e, Retries + 1)

OpenSentTcpIgnored(e) ==
    /\ In("OpenSent", e, {"TcpConnectionValid", "TcpCRInvalid"})
    /\ Ignore(e)

OpenSentTcpCRAcked(e) ==
    /\ In("OpenSent", e, {"TcpCRAcked"})
    /\ ProbeCollision(e)

OpenSentCollision(e) ==
    /\ In("OpenSent", e, {"TcpConnectionConfirmed", "ProcessOneDone"})
    /\ HoldCollision(e)

OpenSentTcpFails(e) ==
    /\ In("OpenSent", e, {"TcpConnectionFails"})
    /\ fsm' = OpenSentIntoActive
    /\ conn' = Without(Aborted([attempt |-> None, process |-> fsm.bgp_conn])
                       \cup {fsm.collision_conn})
    /\ UNCHANGED <<attr, cur, dur>>

\* The collision is resolved, then the hold time is negotiated; the
\* keepalive time keeps its previous value.
OpenSentBGPOpen(e) ==
    LET collides == fsm.remote_syn # e.remote_syn
        replace == collides /\ PeerWins(e)
        fails == \/ fsm.local_open = None
                 \/ replace /\ fsm.collision_conn = None
                 \/ replace /\ ~CanSend(fsm.bgp_conn)
        resolved == IF replace THEN Replaced ELSE IF collides THEN Dropped ELSE fsm
    IN /\ In("OpenSent", e, {"BGPOpen"})
       /\ \/ fails /\ Panic(e)
          \/ /\ ~fails
             /\ Confirm(OpenSentIntoOpenConfirm(resolved), e.msg,
                        attr.keepalive_time)
             /\ conn' = IF replace
                        THEN ReplacedConn(e.remote_syn,
                                          IF e.remote_syn THEN 1 ELSE 0)
                        ELSE Without(IF collides THEN {fsm.collision_conn} ELSE {})

OpenSentMsgErr(e, src) ==
    /\ In("OpenSent", e, MsgErr)
    /\ src = "Bgp"
    /\ NotifyAndGoIdle(e, Retries + 1)

OpenSentCollMsgErr(e, src) ==
    /\ In("OpenSent", e, MsgErr)
    /\ src # "Bgp"
    /\ Ignore(e)

OpenSentNotifyVerErr(e) ==
    /\ In("OpenSent", e, {"NotifyMsgVerErr"})
    /\ GoIdle(e, Retries, {"ConnectRetry"})

OpenSentOther(e) ==
    /\ fsm.state = "OpenSent"
    /\ e.type \notin StartEvent \cup
                     {"ManualStop", "AutomaticStop", "HoldTimerExpires",
                      "TcpConnectionValid", "TcpCRAcked",
                      "TcpConnectionConfirmed", "ProcessOneDone",
                      "TcpCRInvalid", "TcpConnectionFails", "BGPOpen",
                      "BGPHeaderErr", "BGPOpenMsgErr", "NotifyMsgVerErr"}
    /\ NotifyAndGoIdle(e, Retries)

(***************************************************************************)
(* OpenConfirm                                                             *)
(***************************************************************************)
OpenConfirmStart(e) ==
    /\ In("OpenConfirm", e, StartEvent)
    /\ Ignore(e)

OpenConfirmManualStop(e) ==
    /\ In("OpenConfirm", e, {"ManualStop"})
    /\ NotifyAndGoIdle(e, 0)

OpenConfirmAutomaticStop(e) ==
    /\ In("OpenConfirm", e, {"AutomaticStop"})
    /\ NotifyAndGoIdle(e, Retries + 1)

OpenConfirmHoldExpires(e) ==
    /\ In("OpenConfirm", e, {"HoldTimerExpires"})
    /\ NotifyAndGoIdle(e, Retries + 1)

OpenConfirmKeepaliveExpires(e) ==
    /\ In("OpenConfirm", e, {"KeepaliveTimerExpires"})
    /\ SendKeepalive(e)

OpenConfirmTcpIgnored(e) ==
    /\ In("OpenConfirm", e, {"TcpConnectionValid", "TcpCRInvalid"})
    /\ Ignore(e)

OpenConfirmTcpCRAcked(e) ==
    /\ In("OpenConfirm", e, {"TcpCRAcked"})
    /\ ProbeCollision(e)

OpenConfirmCollision(e) ==
    /\ In("OpenConfirm", e, {"TcpConnectionConfirmed", "ProcessOneDone"})
    /\ HoldCollision(e)

OpenConfirmTcpFails(e) ==
    /\ In("OpenConfirm", e, {"TcpConnectionFails"})
    /\ GoIdle(e, Retries + 1, {"ConnectRetry"})

OpenConfirmNotifyVerErr(e) ==
    /\ In("OpenConfirm", e, {"NotifyMsgVerErr"})
    /\ GoIdle(e, Retries, {"ConnectRetry"})

\* An OPEN of the connection's own direction is an explicit panic.
OpenConfirmBGPOpen(e) ==
    LET fails == \/ fsm.remote_syn = e.remote_syn
                 \/ fsm.local_open = None
                 \/ PeerWins(e) /\ fsm.collision_conn = None
    IN /\ In("OpenConfirm", e, {"BGPOpen"})
       /\ \/ fails /\ Panic(e)
          \/ /\ ~fails /\ PeerWins(e)
             /\ fsm' = Replaced
             /\ conn' = ReplacedConn(e.remote_syn, 0)
             /\ UNCHANGED <<attr, cur, dur>>
          \/ /\ ~fails /\ ~PeerWins(e)
             /\ fsm' = Dropped
             /\ conn' = Without({fsm.collision_conn})
             /\ UNCHANGED <<attr, cur, dur>>

OpenConfirmMsgErr(e, src) ==
    /\ In("OpenConfirm", e, MsgErr)
    /\ src = "Bgp"
    /\ NotifyAndGoIdle(e, Retries + 1)

OpenConfirmCollMsgErr(e, src) ==
    /\ In("OpenConfirm", e, MsgErr)
    /\ src # "Bgp"
    /\ Ignore(e)

OpenConfirmCollisionDump(e) ==
    /\ In("OpenConfirm", e, {"OpenCollisionDump"})
    /\ Ignore(e)

OpenConfirmKeepaliveMsg(e) ==
    /\ In("OpenConfirm", e, {"KeepaliveMsg"})
    /\ fsm' = OpenConfirmIntoEstablished(fsm)
    /\ UNCHANGED <<attr, cur, dur, conn>>

OpenConfirmOther(e) ==
    /\ fsm.state = "OpenConfirm"
    /\ e.type \notin StartEvent \cup
                     {"ManualStop", "AutomaticStop", "HoldTimerExpires",
                      "KeepaliveTimerExpires", "TcpConnectionValid",
                      "TcpCRAcked", "TcpConnectionConfirmed",
                      "ProcessOneDone", "TcpCRInvalid", "TcpConnectionFails",
                      "NotifyMsgVerErr", "BGPOpen", "BGPHeaderErr",
                      "BGPOpenMsgErr", "OpenCollisionDump", "KeepaliveMsg"}
    /\ NotifyAndGoIdle(e, Retries + 1)

(***************************************************************************)
(* Established                                                             *)
(***************************************************************************)
EstablishedStart(e) ==
    /\ In("Established", e, StartEvent)
    /\ Ignore(e)

EstablishedManualStop(e) ==
    /\ In("Established", e, {"ManualStop"})
    /\ NotifyAndGoIdle(e, 0)

EstablishedAutomaticStop(e) ==
    /\ In("Established", e, {"AutomaticStop"})
    /\ NotifyAndGoIdle(e, Retries + 1)

EstablishedHoldExpires(e) ==
    /\ In("Established", e, {"HoldTimerExpires"})
    /\ NotifyAndGoIdle(e, Retries + 1)

EstablishedKeepaliveExpires(e) ==
    /\ In("Established", e, {"KeepaliveTimerExpires"})
    /\ SendKeepalive(e)

EstablishedTcpIgnored(e) ==
    /\ In("Established", e, {"TcpConnectionValid", "TcpCRInvalid"})
    /\ Ignore(e)

EstablishedTcpCRAcked(e) ==
    /\ In("Established", e, {"TcpCRAcked"})
    /\ ProbeCollision(e)

EstablishedCollision(e) ==
    /\ In("Established", e, {"TcpConnectionConfirmed", "ProcessOneDone"})
    /\ HoldCollision(e)

EstablishedBGPOpen(e) ==
    LET detect == CollisionDetectEstablishedState
        replace == /\ detect /\ PeerWins(e)
        fails == \/ fsm.remote_syn = e.remote_syn
                 \/ detect /\ fsm.local_open = None
                 \/ replace /\ ~CanSend(fsm.bgp_conn)
                 \/ replace /\ fsm.collision_conn = None
    IN /\ In("Established", e, {"BGPOpen"})
       /\ \/ fails /\ Panic(e)
          \/ ~fails /\ replace /\ Stall
          \/ /\ ~fails /\ replace
             /\ fsm' = Replaced
             /\ conn' = ReplacedConn(e.remote_syn, 0)
             /\ UNCHANGED <<attr, cur, dur>>
          \/ /\ ~fails /\ ~replace
             /\ fsm' = Dropped
             /\ conn' = Without({fsm.collision_conn})
             /\ UNCHANGED <<attr, cur, dur>>

EstablishedDown(e) ==
    /\ In("Established", e, {"NotifyMsgVerErr", "NotifyMsg", "TcpConnectionFails"})
    /\ GoIdle(e, Retries + 1, {"ConnectRetry"})

EstablishedReceives(e) ==
    /\ In("Established", e, {"KeepaliveMsg", "UpdateMsg"})
    /\ Ignore(e)

EstablishedUpdateErr(e) ==
    /\ In("Established", e, {"UpdateMsgErr"})
    /\ NotifyAndGoIdle(e, Retries + 1)

EstablishedOther(e) ==
    /\ fsm.state = "Established"
    /\ e.type \notin StartEvent \cup
                     {"ManualStop", "AutomaticStop", "HoldTimerExpires",
                      "KeepaliveTimerExpires", "TcpConnectionValid",
                      "TcpCRInvalid", "TcpCRAcked", "TcpConnectionConfirmed",
                      "ProcessOneDone", "BGPOpen", "NotifyMsgVerErr",
                      "NotifyMsg", "TcpConnectionFails", "KeepaliveMsg",
                      "UpdateMsg", "UpdateMsgErr"}
    /\ NotifyAndGoIdle(e, Retries + 1)

(***************************************************************************)
(* The loop of run: one event, one match arm                               *)
(***************************************************************************)
HandleConnect(e) ==
    \/ ConnectManualStop(e) \/ ConnectRetryExpires(e)
    \/ ConnectDelayOpenExpires(e) \/ ConnectTcpIgnored(e)
    \/ ConnectTcpCRAcked(e) \/ ConnectTcpConfirmed(e) \/ ConnectTcpFails(e)
    \/ ConnectOpenDelayed(e) \/ ConnectMsgErr(e) \/ ConnectNotifyVerErr(e)
    \/ ConnectOther(e)

HandleActive(e) ==
    \/ ActiveStart(e) \/ ActiveManualStop(e) \/ ActiveRetryExpires(e)
    \/ ActiveDelayOpenExpires(e) \/ ActiveTcpIgnored(e)
    \/ ActiveTcpCRAcked(e) \/ ActiveTcpConfirmed(e) \/ ActiveTcpFails(e)
    \/ ActiveOpenDelayed(e) \/ ActiveMsgErr(e) \/ ActiveNotifyVerErr(e)
    \/ ActiveOther(e)

HandleOpenSent(e, src) ==
    \/ OpenSentStart(e) \/ OpenSentManualStop(e) \/ OpenSentAutomaticStop(e)
    \/ OpenSentHoldExpires(e) \/ OpenSentTcpIgnored(e)
    \/ OpenSentTcpCRAcked(e) \/ OpenSentCollision(e) \/ OpenSentTcpFails(e)
    \/ OpenSentBGPOpen(e) \/ OpenSentMsgErr(e, src)
    \/ OpenSentCollMsgErr(e, src) \/ OpenSentNotifyVerErr(e)
    \/ OpenSentOther(e)

HandleOpenConfirm(e, src) ==
    \/ OpenConfirmStart(e) \/ OpenConfirmManualStop(e)
    \/ OpenConfirmAutomaticStop(e) \/ OpenConfirmHoldExpires(e)
    \/ OpenConfirmKeepaliveExpires(e) \/ OpenConfirmTcpIgnored(e)
    \/ OpenConfirmTcpCRAcked(e) \/ OpenConfirmCollision(e)
    \/ OpenConfirmTcpFails(e) \/ OpenConfirmNotifyVerErr(e)
    \/ OpenConfirmBGPOpen(e) \/ OpenConfirmMsgErr(e, src)
    \/ OpenConfirmCollMsgErr(e, src) \/ OpenConfirmCollisionDump(e)
    \/ OpenConfirmKeepaliveMsg(e) \/ OpenConfirmOther(e)

HandleEstablished(e) ==
    \/ EstablishedStart(e) \/ EstablishedManualStop(e)
    \/ EstablishedAutomaticStop(e) \/ EstablishedHoldExpires(e)
    \/ EstablishedKeepaliveExpires(e) \/ EstablishedTcpIgnored(e)
    \/ EstablishedTcpCRAcked(e) \/ EstablishedCollision(e)
    \/ EstablishedBGPOpen(e) \/ EstablishedDown(e)
    \/ EstablishedReceives(e) \/ EstablishedUpdateErr(e)
    \/ EstablishedOther(e)

Handle(e, src) ==
    \/ IdleStart(e) \/ IdleStartPassive(e) \/ IdleOther(e)
    \/ HandleConnect(e)
    \/ HandleActive(e)
    \/ HandleOpenSent(e, src)
    \/ HandleOpenConfirm(e, src)
    \/ HandleEstablished(e)

\* An OPEN handed over by the listener becomes the other OPEN event if run
\* believes the DelayOpen timer to be running.
Adapt(e, src) ==
    IF src = "Admin" /\ e.type = "BGPOpen" /\ cur["DelayOpen"] # FarFuture
    THEN [e EXCEPT !.type = "BGPOpenWithDelayOpenTimerRunning"]
    ELSE e

\* Orders to running timers reach the slow tasks later.
Lag ==
    late' = late \cup {k \in SlowTimer : dur[k] # FarFuture /\ dur'[k] # dur[k]}

\* select! takes the head of any channel that is not empty.
Run(src) ==
    /\ chan[src] # <<>>
    /\ chan' = [chan EXCEPT ![src] = Tail(@)]
    /\ UNCHANGED owed
    /\ Handle(Adapt(Head(chan[src]), src), src)
    /\ Lag

\* A command on the admin channel.  Its sender decides when it arrives, so
\* it is handled as it is sent: any interleaving with the channel's other
\* events is one with the commands sent at other moments.
RunAdmin(t) ==
    /\ UNCHANGED <<chan, owed>>
    /\ Handle(Ev(t), "Admin")
    /\ Lag

(***************************************************************************)
(* The other tasks                                                         *)
(***************************************************************************)
\* The session has not panicked, and src can take the events es.
Send(src, es) ==
    /\ fsm.state # "Panicked"
    /\ Len(chan[src]) + Len(es) <= ChanCap[src]
    /\ chan' = [chan EXCEPT ![src] = @ \o es]
    /\ UNCHANGED <<fsm, attr, cur, dur, late>>

TryTcpConn(c) ==
    /\ conn[c].task = "try_tcp_conn"
    /\ \/ /\ conn' = [conn EXCEPT ![c] = Socket(FALSE)]
          /\ Send("Tcp", <<EvConn("TcpCRAcked", c)>>)
       \/ /\ conn' = [conn EXCEPT ![c] = Gone]
          /\ Send("Tcp", <<EvConn("TcpConnectionFails", c)>>)
    /\ UNCHANGED owed

\* The listener accepts a connection of this peer, reads its OPEN and hands
\* both to the session (process_passive and the dispatcher of main).
ProcessPassive(c, m) ==
    /\ Fresh(c)
    /\ conn' = [conn EXCEPT ![c] = Socket(TRUE)]
    /\ Send("Admin", <<EvConn("TcpConnectionConfirmed", c), EvOpen(c, m, TRUE)>>)
    /\ UNCHANGED owed

\* Mutant: process reports KEEPALIVE messages.
ProcessReadsKeepalive(c) ==
    /\ conn[c].task = "process"
    /\ Send("Bgp", <<Ev("KeepaliveMsg")>>)
    /\ UNCHANGED <<conn, owed>>

\* process reads a message: KEEPALIVE and NOTIFICATION are discarded, and an
\* UPDATE before any OPEN on the connection is a header error.
ProcessReads(c) ==
    /\ conn[c].task = "process"
    /\ \/ /\ \E m \in PeerOpen : Send("Bgp", <<EvOpen(c, m, conn[c].remote_syn)>>)
          /\ conn' = [conn EXCEPT ![c].peer = TRUE]
       \/ /\ conn[c].peer
          /\ Send("Bgp", <<Ev("UpdateMsg")>>)
          /\ UNCHANGED conn
       \/ /\ \E t \in MsgErr : Send("Bgp", <<EvConn(t, c)>>)
          /\ UNCHANGED conn
    /\ UNCHANGED owed

\* Any other read error ends process without a word to the session.
ProcessReadFails(c) ==
    /\ conn[c].task = "process"
    /\ fsm.state # "Panicked"
    /\ conn' = [conn EXCEPT ![c] = Gone]
    /\ UNCHANGED <<fsm, attr, cur, dur, late, chan, owed>>

\* run has dropped bgp_out_tx: recv returns None.
ProcessOutClosed(c) ==
    /\ conn[c].task = "process"
    /\ fsm.bgp_conn # c
    /\ fsm.state # "Panicked"
    /\ conn' = [conn EXCEPT ![c] = Gone]
    /\ UNCHANGED <<fsm, attr, cur, dur, late, chan, owed>>

\* process_one reads one message.  An OPEN is reported in two sends, and the
\* socket leaves with the first; any other message closes the connection.
ProcessOneReads(c) ==
    /\ conn[c].task = "process_one"
    /\ \/ \E m \in PeerOpen :
             /\ owed' = [owed EXCEPT ![c] = m]
             /\ conn' = [conn EXCEPT ![c] = Socket(TRUE)]
             /\ Send("Coll", <<EvConn("ProcessOneDone", c)>>)
       \/ /\ conn' = [conn EXCEPT ![c] = Gone]
          /\ \E t \in MsgErr : Send("Coll", <<Ev(t)>>)
          /\ UNCHANGED owed
       \/ /\ conn' = [conn EXCEPT ![c] = Gone]
          /\ Send("Coll", <<>>)
          /\ UNCHANGED owed

ProcessOneSendsOpen(c) ==
    /\ owed[c] # None
    /\ Send("Coll", <<EvOpen(c, owed[c], FALSE)>>)
    /\ owed' = [owed EXCEPT ![c] = None]
    /\ UNCHANGED conn

TimerExpires(k) ==
    /\ dur[k] # FarFuture \/ k \in late
    /\ Send("Timer", <<Ev(Expiry[k])>>)
    /\ UNCHANGED <<conn, owed>>

\* The timer task has applied every order.
TimerCatchesUp(k) ==
    /\ k \in late
    /\ fsm.state # "Panicked"
    /\ late' = late \ {k}
    /\ UNCHANGED <<fsm, attr, cur, dur, conn, chan, owed>>

Init ==
    /\ fsm = NewFsm
    /\ attr = NewAttributes
    /\ cur = [k \in TimerKind |-> FarFuture]
    /\ dur = [k \in TimerKind |-> FarFuture]
    /\ late = {}
    /\ conn = [c \in Conn |-> Gone]
    /\ chan = [src \in Source |-> <<>>]
    /\ owed = [c \in Conn |-> None]

Next ==
    \/ \E src \in Source : Run(src)
    \/ \E t \in AdminEvent : RunAdmin(t)
    \/ \E c \in Conn :
          \/ TryTcpConn(c)
          \/ \E m \in PeerOpen : ProcessPassive(c, m)
          \/ ProcessReads(c)
          \/ ProcessReadFails(c)
          \/ ProcessOutClosed(c)
          \/ ProcessOneReads(c)
          \/ ProcessOneSendsOpen(c)
    \/ \E k \in TimerKind : TimerExpires(k) \/ TimerCatchesUp(k)

Spec == Init /\ [][Next]_vars

\* select! polls its branches in random order, so every channel of run is
\* served, by an arm that ends or by one that stalls.  No arm of OpenConfirm
\* touches the Hold timer, and mpsc senders are served in order, so its expiry
\* is sent even if other expiries keep the channel full.
Fairness ==
    /\ \A src \in Source : WF_vars(Run(src))
    /\ SF_vars(fsm.state = "OpenConfirm" /\ TimerExpires("Hold"))

FairSpec == Spec /\ Fairness

(***************************************************************************)
(* Properties                                                              *)
(***************************************************************************)
\* Every variable has its type: the states of Fsm<S>, the u64 retry counter
\* and Durations that are never negative, channels of Events.
TypeOK ==
    /\ fsm \in FsmRecord
    /\ attr \in [connect_retry_counter : Nat, hold_time : Nat,
                 keepalive_time : Nat]
    /\ cur \in [TimerKind -> Nat]
    /\ dur \in [TimerKind -> Nat]
    /\ late \subseteq SlowTimer
    /\ conn \in [Conn -> ConnRecord]
    /\ chan \in [Source -> Seq(Event)]
    /\ owed \in [Conn -> PeerOpen \cup {None}]

\* From OpenConfirm on, the session has an outgoing channel and both OPENs,
\* by whichever path it got there and after any replacement by a colliding
\* connection: none of the as_ref().unwrap() on these fields can fail.
ConfirmedIsWired ==
    Confirmed => /\ fsm.bgp_conn # None
                 /\ fsm.local_open # None
                 /\ fsm.peer_open # None

\* From OpenConfirm on, the hold time in force is the lesser of the two
\* OPENs', a hold time of zero included, and the Hold timer is ordered to it:
\* by neither way in does the hold time of an earlier session survive, and no
\* later event, a replaced connection among them, disarms or changes it.  The
\* Keepalive timer is outside: the way in from OpenSent orders it to whatever
\* keepalive_time an earlier negotiation has left.
HoldTimerArmed ==
    Confirmed => /\ attr.hold_time = HoldTime(fsm.peer_open)
                 /\ dur["Hold"] = attr.hold_time

\* What run believes of its timers (cur_*_time) is what it has ordered them,
\* but for one case: a DelayOpen timer that run does not know to be running.
TimerBelief ==
    \A k \in TimerKind :
        dur[k] # cur[k] => k = "DelayOpen" /\ cur[k] = FarFuture

\* Once an OPEN is sent the timers of the connection phase are off, by every
\* path into OpenSent and OpenConfirm, so only expiries already sent, or yet
\* to be sent by a task that lags, can reach the catch-all arms that tear the
\* session down.
HandshakeTimersOff ==
    fsm.state \in {"OpenSent", "OpenConfirm", "Established"} =>
        dur["ConnectRetry"] = FarFuture /\ dur["DelayOpen"] = FarFuture

\* connect_retry_counter never exceeds 1, however often the session fails:
\* only the step into Idle increments it and every start resets it, so a
\* damping of peer oscillations that reads it cannot see them.
RetryCounterBounded ==
    /\ Retries <= 1
    /\ fsm.state # "Idle" => Retries = 0

\* Active never holds the handle of a connection attempt, so its conversion
\* into Idle, which aborts none, leaves none of its own running.
NoAttemptInActive == fsm.state = "Active" => fsm.tcp_conn = None

\* Without DelayOpen, as SessionAttributes::new sets it, no session is ever
\* confirmed: OpenSent is entered without a local OPEN, and the peer's OPEN
\* is only answered while a DelayOpen timer is believed to run.
NeverConfirmedWithoutDelayOpen == ~DelayOpen => ~Confirmed

\* Nothing a peer sends, in whatever order and on however many connections,
\* brings the session up: process drops the KEEPALIVE that OpenConfirm waits
\* for, so Established is reached by a command only.
PeerCannotEstablish ==
    "KeepaliveMsg" \notin AdminEvent => fsm.state # "Established"

\* A session in Connect always has something that will move it: an armed
\* timer, a running attempt, or the outcome of one still in the channel.
\* Stale expiries may stop or restart all of these, in any order.
ConnectNeverStranded ==
    fsm.state = "Connect" =>
        \/ dur["ConnectRetry"] # FarFuture
        \/ dur["DelayOpen"] # FarFuture
        \/ fsm.tcp_conn # None /\ conn[fsm.tcp_conn].task = "try_tcp_conn"
        \/ chan["Tcp"] # <<>>

\* No connection is sent two OPENs, although three different arms send one
\* and stale DelayOpen expiries may trigger them again.
OneOpenPerConnection == \A c \in Conn : conn[c].opens <= 1

\* If the local identifier wins every collision, the connection on which
\* KEEPALIVEs are sent has been sent an OPEN first.
OpenPrecedesKeepalive ==
    (\A m \in PeerOpen : m.id <= LocalOpen.id) =>
        (Confirmed /\ CanSend(fsm.bgp_conn) => conn[fsm.bgp_conn].opens = 1)

\* If the local identifier wins every collision, a confirmed session keeps
\* its connection until it leaves for Idle: neither a colliding connection
\* nor one of process_one takes its place.
LocalWinnerKeepsConnection ==
    [][(\A m \in PeerOpen : m.id <= LocalOpen.id) /\ Confirmed /\ Confirmed'
         => fsm'.bgp_conn = fsm.bgp_conn]_vars

\* OpenConfirm does not last: the Hold timer ends it if nothing else does.
\* The one exception is a run that waits for ever to send on the session's
\* connection, its last NOTIFICATION or an earlier KEEPALIVE: it hears no
\* timer any more.
OpenConfirmEnds ==
    fsm.state = "OpenConfirm"
        ~> fsm.state \in {"Idle", "Established", "Panicked", "Stalled"}
=============================================================================
