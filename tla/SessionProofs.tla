--------------------------- MODULE SessionProofs ---------------------------
(***************************************************************************)
(* Theorems about one session, for any number of connections, any set of   *)
(* peer OPENs, any attributes and any channel capacities.                  *)
(*                                                                         *)
(* The inductive invariant has two independent parts.  Control relates the *)
(* state of the machine to its attributes and timers; only the match arms  *)
(* can disturb it.  Queues types the events in flight; it supplies what    *)
(* the arms need to know of their event.                                   *)
(***************************************************************************)
EXTENDS Session, TLAPS

\* A DelayOpen timer is armed only if the option is set, and run records no
\* other duration for it than the configured one.
DelayOpenRecorded ==
    /\ dur["DelayOpen"] # FarFuture => DelayOpen
    /\ cur["DelayOpen"] \in {FarFuture, DelayOpenTime}

\* An OpenSent session that knows its local OPEN has its outgoing channel.
OpenSentWithOpenIsWired ==
    fsm.state = "OpenSent" /\ fsm.local_open # None => fsm.bgp_conn # None

AttrType == [connect_retry_counter : Nat, hold_time : Nat, keepalive_time : Nat]

ControlType ==
    /\ fsm \in FsmRecord
    /\ attr \in AttrType
    /\ cur \in [TimerKind -> Nat]
    /\ dur \in [TimerKind -> Nat]
    /\ conn \in [Conn -> ConnRecord]

TimerInv ==
    /\ DelayOpenRecorded
    /\ TimerBelief
    /\ HandshakeTimersOff

Control ==
    /\ ControlType
    /\ TimerInv
    /\ OpenSentWithOpenIsWired
    /\ ConfirmedIsWired
    /\ HoldTimerArmed
    /\ RetryCounterBounded
    /\ NoAttemptInActive

Queues ==
    /\ late \subseteq SlowTimer
    /\ chan \in [Source -> Seq(Event)]
    /\ owed \in [Conn -> PeerOpen \cup {None}]

IInv == Control /\ Queues

(***************************************************************************)
(* Constants and pure operators                                            *)
(***************************************************************************)
\* The negotiated hold time and a third of it are Durations.
LEMMA HoldTimeType ==
    ASSUME NEW m \in PeerOpen
    PROVE  HoldTime(m) \in Nat /\ HoldTime(m) \div DFLT_KEEPALIVE_FACTOR \in Nat
  <1>1. LocalOpen.hold \in Nat /\ m.hold \in Nat
    BY OpenAssumption DEF OpenMsg
  <1>2. HoldTime(m) \in Nat
    BY <1>1 DEF HoldTime, Secs
  <1>3. DFLT_KEEPALIVE_FACTOR = 3
    BY DEF DFLT_KEEPALIVE_FACTOR
  <1> QED BY <1>2, <1>3

\* A connection that can be sent to is not None.
LEMMA CanSendType ==
    ASSUME NEW c, CanSend(c)
    PROVE  c \in Conn /\ c # None
  BY ConnAssumption DEF CanSend

\* The value of a new machine has its type.
LEMMA NewFsmType == NewFsm \in FsmRecord
  BY DEF NewFsm, FsmRecord, StateName

\* Dropping connections leaves a table of connections.
LEMMA WithoutType ==
    ASSUME conn \in [Conn -> ConnRecord], NEW S
    PROVE  Without(S) \in [Conn -> ConnRecord]
  BY DEF Without, Gone, ConnRecord

(***************************************************************************)
(* Effects.  Each preserves Control where the arms use it.                 *)
(***************************************************************************)
\* Steps that leave the machine, its attributes and its timers alone.
LEMMA StutterControl ==
    ASSUME Control, UNCHANGED <<fsm, attr, cur, dur>>,
           conn' \in [Conn -> ConnRecord]
    PROVE  Control'
  BY DEF Control, ControlType, TimerInv, DelayOpenRecorded, TimerBelief,
         HandshakeTimersOff, OpenSentWithOpenIsWired, ConfirmedIsWired,
         HoldTimerArmed, RetryCounterBounded, NoAttemptInActive, Confirmed,
         Retries

\* An arm that only consumes its event.
LEMMA IgnoreControl ==
    ASSUME Control, NEW e, Ignore(e)
    PROVE  Control'
  BY StutterControl, WithoutType DEF Ignore, Control, ControlType

\* A failed unwrap in any state but Idle, where no arm has one.
LEMMA PanicControl ==
    ASSUME Control, NEW e, fsm.state # "Idle", Panic(e)
    PROVE  Control'
  <1>1. fsm' \in FsmRecord /\ fsm'.state = "Panicked"
    BY NewFsmType DEF Panic, FsmRecord, StateName, NewFsm
  <1>2. conn' \in [Conn -> ConnRecord]
    BY WithoutType DEF Panic, Control, ControlType
  <1>3. UNCHANGED <<attr, cur, dur>>
    BY DEF Panic
  <1> QED
    BY <1>1, <1>2, <1>3
    DEF Control, ControlType, TimerInv, DelayOpenRecorded, TimerBelief,
        HandshakeTimersOff, OpenSentWithOpenIsWired, ConfirmedIsWired,
        HoldTimerArmed, RetryCounterBounded, NoAttemptInActive, Confirmed,
        Retries

\* A send that never returns, in a confirmed session.
LEMMA StallControl ==
    ASSUME Control, Stall
    PROVE  Control'
  <1>1. fsm' \in FsmRecord /\ fsm'.state = "Stalled"
    BY DEF Stall, Control, ControlType, FsmRecord, StateName
  <1>2. UNCHANGED <<attr, cur, dur, conn>> /\ fsm.state # "Idle"
    BY DEF Stall, Confirmed
  <1> QED
    BY <1>1, <1>2
    DEF Control, ControlType, TimerInv, DelayOpenRecorded, TimerBelief,
        HandshakeTimersOff, OpenSentWithOpenIsWired, ConfirmedIsWired,
        HoldTimerArmed, RetryCounterBounded, NoAttemptInActive, Confirmed,
        Retries

\* Stopping timers preserves what relates the timers to each other.
LEMMA StopTimers ==
    ASSUME Control, NEW K, Stop(K)
    PROVE  /\ cur' \in [TimerKind -> Nat]
           /\ dur' \in [TimerKind -> Nat]
           /\ DelayOpenRecorded'
           /\ TimerBelief'
  BY FarFutureAssumption
  DEF Control, ControlType, TimerInv, Stop, DelayOpenRecorded, TimerBelief,
      TimerKind

\* Moving to Idle: the retry counter was 0, so it is at most 1 afterwards.
LEMMA GoIdleControl ==
    ASSUME Control, NEW e, NEW n \in {0, Retries, Retries + 1}, NEW K,
           fsm.state # "Idle", GoIdle(e, n, K)
    PROVE  Control'
  <1>1. fsm' = NewFsm /\ fsm' \in FsmRecord /\ fsm'.state = "Idle"
    BY NewFsmType DEF GoIdle, IntoIdle, NewFsm
  <1>2. conn' \in [Conn -> ConnRecord]
    BY WithoutType DEF GoIdle, Control, ControlType
  <1>3. Retries = 0 /\ n \in Nat /\ n <= 1
    BY DEF Control, RetryCounterBounded
  <1>4. attr' \in AttrType /\ Retries' <= 1
    BY <1>3 DEF GoIdle, Counter, Retries, Control, ControlType, AttrType
  <1>5. Stop(K)
    BY DEF GoIdle
  <1> QED
    BY <1>1, <1>2, <1>4, <1>5, StopTimers
    DEF Control, ControlType, TimerInv, HandshakeTimersOff,
        OpenSentWithOpenIsWired, ConfirmedIsWired, HoldTimerArmed,
        RetryCounterBounded, NoAttemptInActive, Confirmed

\* A NOTIFICATION and the move to Idle, a stall or a panic.
LEMMA NotifyAndGoIdleControl ==
    ASSUME Control, NEW e, NEW n \in {0, Retries, Retries + 1},
           fsm.state # "Idle", NotifyAndGoIdle(e, n)
    PROVE  Control'
  BY GoIdleControl, PanicControl, StallControl DEF NotifyAndGoIdle

\* A KEEPALIVE, a stall or a panic.
LEMMA SendKeepaliveControl ==
    ASSUME Control, NEW e, fsm.state # "Idle", SendKeepalive(e)
    PROVE  Control'
  BY IgnoreControl, PanicControl, StallControl DEF SendKeepalive

\* The same where the NOTIFICATION is optional.
LEMMA MaybeNotifyAndGoIdleControl ==
    ASSUME Control, NEW e, NEW n \in {0, Retries, Retries + 1}, NEW K,
           fsm.state # "Idle", MaybeNotifyAndGoIdle(e, n, K)
    PROVE  Control'
  BY GoIdleControl, PanicControl DEF MaybeNotifyAndGoIdle

\* Taking a connection into use in Connect or Active.
LEMMA TakeConnectionControl ==
    ASSUME Control, NEW e, e.conn \in Conn, NEW y \in BOOLEAN,
           NEW opened \in FsmRecord, opened.state = "OpenSent",
           opened.local_open = None, NEW recorded \in BOOLEAN,
           fsm.state \in {"Connect", "Active"},
           TakeConnection(e, y, opened, recorded)
    PROVE  Control'
  <1>1. fsm' \in FsmRecord
    BY DEF TakeConnection, Control, ControlType, FsmRecord
  <1>2. conn' \in [Conn -> ConnRecord]
    BY DEF TakeConnection, Control, ControlType, Process, ConnRecord
  <1>3. /\ attr' \in AttrType
        /\ Retries' = 0
    BY DEF TakeConnection, Counter, Retries, Control, ControlType, AttrType
  <1>4. cur' \in [TimerKind -> Nat] /\ dur' \in [TimerKind -> Nat]
    BY FarFutureAssumption, OptionAssumption
    DEF TakeConnection, Control, ControlType, TimerKind
  <1>5. DelayOpenRecorded' /\ TimerBelief'
    BY DEF TakeConnection, Control, ControlType, TimerInv, TimerKind,
           DelayOpenRecorded, TimerBelief
  <1>6. CASE DelayOpen
    <2>1. fsm'.state = fsm.state /\ fsm'.tcp_conn = fsm.tcp_conn
      BY <1>6 DEF TakeConnection, Control, ControlType, FsmRecord
    <2> QED
      BY <1>1, <1>2, <1>3, <1>4, <1>5, <2>1
      DEF Control, ControlType, TimerInv, HandshakeTimersOff,
          OpenSentWithOpenIsWired, ConfirmedIsWired, HoldTimerArmed,
          RetryCounterBounded, NoAttemptInActive, Confirmed
  <1>7. CASE ~DelayOpen
    <2>1. fsm'.state = "OpenSent" /\ fsm'.local_open = None
      BY <1>7 DEF TakeConnection, FsmRecord
    <2>2. dur'["ConnectRetry"] = FarFuture /\ dur'["DelayOpen"] = FarFuture
      BY <1>7 DEF TakeConnection, Control, ControlType, TimerInv, TimerKind,
                  DelayOpenRecorded
    <2> QED
      BY <1>1, <1>2, <1>3, <1>4, <1>5, <2>1, <2>2
      DEF Control, ControlType, TimerInv, HandshakeTimersOff,
          OpenSentWithOpenIsWired, ConfirmedIsWired, HoldTimerArmed,
          RetryCounterBounded, NoAttemptInActive, Confirmed
  <1> QED BY <1>6, <1>7

\* Entering OpenConfirm with a connection and both OPENs.
LEMMA ConfirmControl ==
    ASSUME Control, NEW s \in FsmRecord, s.state = "OpenConfirm",
           s.bgp_conn # None, s.local_open # None, NEW m \in PeerOpen,
           NEW keepalive \in Nat, conn' \in [Conn -> ConnRecord],
           fsm.state # "Idle", Confirm(s, m, keepalive)
    PROVE  Control'
  <1>1. /\ fsm' \in FsmRecord
        /\ fsm'.state = "OpenConfirm"
        /\ fsm'.peer_open = m
        /\ fsm'.bgp_conn # None
        /\ fsm'.local_open # None
    BY DEF Confirm, FsmRecord
  <1>2. fsm'.peer_open # None
    BY <1>1, OpenAssumption
  <1>3. /\ attr' \in AttrType
        /\ attr'.hold_time = HoldTime(m)
        /\ attr'.keepalive_time = keepalive
        /\ Retries' = Retries
    BY HoldTimeType DEF Confirm, Control, ControlType, AttrType, Retries
  <1>4. /\ cur' \in [TimerKind -> Nat]
        /\ dur' \in [TimerKind -> Nat]
        /\ dur'["ConnectRetry"] = FarFuture
        /\ dur'["DelayOpen"] = FarFuture
        /\ dur'["Hold"] = HoldTime(m)
        /\ cur'["DelayOpen"] = FarFuture
    BY HoldTimeType, FarFutureAssumption
    DEF Confirm, Control, ControlType, TimerKind
  <1>5. TimerBelief'
    BY DEF Confirm, Control, ControlType, TimerInv, TimerKind, TimerBelief
  <1> QED
    BY <1>1, <1>2, <1>3, <1>4, <1>5
    DEF Control, ControlType, TimerInv, HandshakeTimersOff, DelayOpenRecorded,
        OpenSentWithOpenIsWired, ConfirmedIsWired, HoldTimerArmed, HoldTime,
        RetryCounterBounded, NoAttemptInActive, Confirmed

\* The machine's data may change between two states of the same name, or on
\* to Established, as long as it stays wired and its timers stay alone.
LEMMA RewireControl ==
    ASSUME Control, fsm.state \in {"OpenSent", "OpenConfirm", "Established"},
           fsm' \in FsmRecord, conn' \in [Conn -> ConnRecord],
           UNCHANGED <<attr, cur, dur>>,
           \/ fsm'.state = fsm.state
           \/ fsm.state = "OpenConfirm" /\ fsm'.state = "Established",
           fsm'.local_open = fsm.local_open, fsm'.peer_open = fsm.peer_open,
           fsm.bgp_conn # None => fsm'.bgp_conn # None
    PROVE  Control'
  BY DEF Control, ControlType, TimerInv, DelayOpenRecorded, TimerBelief,
         HandshakeTimersOff, OpenSentWithOpenIsWired, ConfirmedIsWired,
         HoldTimerArmed, HoldTime, RetryCounterBounded, NoAttemptInActive,
         Confirmed, Retries

\* An OPEN while the DelayOpen timer runs, in Connect or Active.
LEMMA ConfirmDelayedControl ==
    ASSUME Control, NEW e \in Event, e.type \in OpenEvent,
           NEW s \in FsmRecord, s.state = "OpenConfirm",
           fsm.state # "Idle", ConfirmDelayed(e, s)
    PROVE  Control'
  <1>1. CASE ~CanSend(s.bgp_conn)
    BY <1>1, PanicControl DEF ConfirmDelayed
  <1>2. CASE CanSend(s.bgp_conn)
    <2> DEFINE t == [s EXCEPT !.local_open = LocalOpen]
    <2>1. /\ t \in FsmRecord
          /\ t.state = "OpenConfirm"
          /\ t.bgp_conn # None
          /\ t.local_open # None
      BY <1>2, CanSendType, OpenAssumption DEF FsmRecord
    <2>2. e.msg \in PeerOpen
      BY DEF Event, OpenEvent, BareEvent, SocketEvent, MsgErr, PlainEvent, StartEvent
    <2>3. conn' \in [Conn -> ConnRecord]
      BY <1>2 DEF ConfirmDelayed, Control, ControlType, ConnRecord
    <2>4. HoldTime(e.msg) \div DFLT_KEEPALIVE_FACTOR \in Nat
      BY <2>2, HoldTimeType
    <2>5. Confirm(t, e.msg, HoldTime(e.msg) \div DFLT_KEEPALIVE_FACTOR)
      BY <1>2 DEF ConfirmDelayed
    <2> HIDE DEF t
    <2> QED BY <2>1, <2>2, <2>3, <2>4, <2>5, ConfirmControl
  <1> QED BY <1>1, <1>2

(***************************************************************************)
(* The match arms, state by state                                          *)
(***************************************************************************)
\* An event that carries a socket carries a connection.
LEMMA SocketEventConn ==
    ASSUME NEW e \in Event, e.type \in SocketEvent
    PROVE  e.conn \in Conn
  BY DEF Event, OpenEvent, BareEvent, SocketEvent, MsgErr, PlainEvent, StartEvent

\* An event that carries an OPEN has it, and the connection it is from.
LEMMA OpenEventMsg ==
    ASSUME NEW e \in Event, e.type \in OpenEvent
    PROVE  e.msg \in PeerOpen /\ e.conn \in Conn
  BY DEF Event, OpenEvent, BareEvent, SocketEvent, MsgErr, PlainEvent, StartEvent

\* Arming the ConnectRetry timer on leaving Idle.
LEMMA StartControl ==
    ASSUME Control, fsm.state = "Idle", fsm' \in FsmRecord,
           conn' \in [Conn -> ConnRecord], Counter(0),
           Start("ConnectRetry", DFLT_BGP_TIMERS_CONNECT),
           \/ fsm'.state = "Connect"
           \/ fsm'.state = "Active" /\ fsm'.tcp_conn = None
    PROVE  Control'
  <1>1. attr' \in AttrType /\ Retries' = 0
    BY DEF Counter, Retries, Control, ControlType, AttrType
  <1>2. cur' \in [TimerKind -> Nat] /\ dur' \in [TimerKind -> Nat]
    BY DEF Start, DFLT_BGP_TIMERS_CONNECT, Secs, Control, ControlType, TimerKind
  <1>3. DelayOpenRecorded' /\ TimerBelief'
    BY DEF Start, Control, ControlType, TimerInv, TimerKind,
           DelayOpenRecorded, TimerBelief
  <1> QED
    BY <1>1, <1>2, <1>3
    DEF Control, ControlType, TimerInv, HandshakeTimersOff,
        OpenSentWithOpenIsWired, ConfirmedIsWired, HoldTimerArmed,
        RetryCounterBounded, NoAttemptInActive, Confirmed

\* Spawning an attempt yields a machine and a table of connections.
LEMMA SpawnAttemptType ==
    ASSUME Control, NEW s \in FsmRecord, NEW dropped, SpawnAttempt(s, dropped)
    PROVE  /\ fsm' \in FsmRecord
           /\ fsm'.state = s.state
           /\ conn' \in [Conn -> ConnRecord]
  <1>1. PICK c \in Conn : /\ fsm' = [s EXCEPT !.tcp_conn = c]
                          /\ conn' = [Without(dropped) EXCEPT ![c] = Attempt]
    BY DEF SpawnAttempt
  <1>2. Without(dropped) \in [Conn -> ConnRecord]
    BY WithoutType DEF Control, ControlType
  <1>3. Attempt \in ConnRecord
    BY DEF Attempt, Gone, ConnRecord
  <1> QED BY <1>1, <1>2, <1>3 DEF FsmRecord

\* The arms of Idle.
LEMMA IdleControl ==
    ASSUME Control, NEW e \in Event,
           IdleStart(e) \/ IdleStartPassive(e) \/ IdleOther(e)
    PROVE  Control'
  <1>1. CASE IdleStart(e)
    <2>1. IdleIntoConnect \in FsmRecord /\ IdleIntoConnect.state = "Connect"
      BY NewFsmType DEF IdleIntoConnect, NewFsm, FsmRecord, StateName
    <2>2. /\ fsm' \in FsmRecord
          /\ fsm'.state = "Connect"
          /\ conn' \in [Conn -> ConnRecord]
      BY <1>1, <2>1, SpawnAttemptType DEF IdleStart
    <2> QED BY <1>1, <2>2, StartControl DEF IdleStart, In
  <1>2. CASE IdleStartPassive(e)
    <2>1. /\ fsm' \in FsmRecord
          /\ fsm'.state = "Active"
          /\ fsm'.tcp_conn = None
      BY <1>2 DEF IdleStartPassive, IdleIntoActive, NewFsm, FsmRecord, StateName
    <2>2. conn' \in [Conn -> ConnRecord]
      BY <1>2 DEF IdleStartPassive, Control, ControlType
    <2> QED BY <1>2, <2>1, <2>2, StartControl DEF IdleStartPassive, In
  <1>3. CASE IdleOther(e)
    BY <1>3, IgnoreControl DEF IdleOther
  <1> QED BY <1>1, <1>2, <1>3

\* The arms of Connect.
LEMMA ConnectControl ==
    ASSUME Control, NEW e \in Event, HandleConnect(e)
    PROVE  Control'
  <1>1. CASE ConnectManualStop(e)
    BY <1>1, GoIdleControl DEF ConnectManualStop, In
  <1>2. CASE ConnectRetryExpires(e)
    <2>1. /\ fsm' \in FsmRecord
          /\ fsm'.state = "Connect"
          /\ conn' \in [Conn -> ConnRecord]
      BY <1>2, SpawnAttemptType
      DEF ConnectRetryExpires, In, Control, ControlType
    <2>2. fsm.state = "Connect" /\ Stop({"DelayOpen"}) /\ attr' = attr
      BY <1>2 DEF ConnectRetryExpires, In
    <2> QED
      BY <2>1, <2>2, StopTimers
      DEF Control, ControlType, TimerInv, HandshakeTimersOff,
          OpenSentWithOpenIsWired, ConfirmedIsWired, HoldTimerArmed,
          RetryCounterBounded, NoAttemptInActive, Confirmed, Retries
  <1>3. CASE ConnectDelayOpenExpires(e)
    \* The conversion loses the connection, so the send always panics.
    <2>1. ~CanSend(ConnectIntoOpenSent(fsm).bgp_conn)
      BY ConnAssumption DEF CanSend, ConnectIntoOpenSent, NewFsm
    <2> QED
      BY <1>3, <2>1, PanicControl DEF ConnectDelayOpenExpires, OpenDelayed, In
  <1>4. CASE ConnectTcpIgnored(e)
    BY <1>4, IgnoreControl DEF ConnectTcpIgnored
  <1>5. CASE ConnectTcpCRAcked(e) \/ ConnectTcpConfirmed(e)
    <2>1. /\ ConnectIntoOpenSent(fsm) \in FsmRecord
          /\ ConnectIntoOpenSent(fsm).state = "OpenSent"
          /\ ConnectIntoOpenSent(fsm).local_open = None
      BY DEF ConnectIntoOpenSent, NewFsm, FsmRecord, StateName
    <2>2. e.conn \in Conn
      BY <1>5, SocketEventConn
      DEF ConnectTcpCRAcked, ConnectTcpConfirmed, In, SocketEvent
    <2> QED
      BY <1>5, <2>1, <2>2, TakeConnectionControl
      DEF ConnectTcpCRAcked, ConnectTcpConfirmed, In
  <1>6. CASE ConnectTcpFails(e)
    <2>1. CASE cur["DelayOpen"] = FarFuture
      BY <1>6, <2>1, GoIdleControl DEF ConnectTcpFails, In
    <2>2. CASE cur["DelayOpen"] # FarFuture
      <3>1. /\ fsm' \in FsmRecord
            /\ fsm'.state = "Active"
            /\ fsm'.tcp_conn = None
        BY <1>6, <2>2
        DEF ConnectTcpFails, ConnectIntoActive, NewFsm, Control, ControlType,
            FsmRecord, StateName
      <3>2. conn' \in [Conn -> ConnRecord]
        BY <1>6, <2>2, WithoutType DEF ConnectTcpFails, Control, ControlType
      <3>3. fsm.state = "Connect" /\ Stop({"DelayOpen"}) /\ attr' = attr
        BY <1>6, <2>2 DEF ConnectTcpFails, In
      <3> QED
        BY <3>1, <3>2, <3>3, StopTimers
        DEF Control, ControlType, TimerInv, HandshakeTimersOff,
            OpenSentWithOpenIsWired, ConfirmedIsWired, HoldTimerArmed,
            RetryCounterBounded, NoAttemptInActive, Confirmed, Retries
    <2> QED BY <2>1, <2>2
  <1>7. CASE ConnectOpenDelayed(e)
    <2>1. /\ ConnectIntoOpenConfirm(fsm) \in FsmRecord
          /\ ConnectIntoOpenConfirm(fsm).state = "OpenConfirm"
      BY DEF ConnectIntoOpenConfirm, NewFsm, Control, ControlType, FsmRecord,
             StateName
    <2> QED
      BY <1>7, <2>1, ConfirmDelayedControl
      DEF ConnectOpenDelayed, In, OpenEvent
  <1>8. CASE ConnectMsgErr(e)
    BY <1>8, MaybeNotifyAndGoIdleControl DEF ConnectMsgErr, In
  <1>9. CASE ConnectNotifyVerErr(e)
    BY <1>9, GoIdleControl DEF ConnectNotifyVerErr, In
  <1>10. CASE ConnectOther(e)
    BY <1>10, GoIdleControl DEF ConnectOther
  <1> QED
    BY <1>1, <1>2, <1>3, <1>4, <1>5, <1>6, <1>7, <1>8, <1>9, <1>10
    DEF HandleConnect

\* The arms of Active.
LEMMA ActiveControl ==
    ASSUME Control, NEW e \in Event, HandleActive(e)
    PROVE  Control'
  <1>1. CASE ActiveStart(e) \/ ActiveTcpIgnored(e)
    BY <1>1, IgnoreControl DEF ActiveStart, ActiveTcpIgnored
  <1>2. CASE ActiveManualStop(e)
    BY <1>2, GoIdleControl, MaybeNotifyAndGoIdleControl
    DEF ActiveManualStop, In
  <1>3. CASE ActiveRetryExpires(e)
    <2>1. /\ ActiveIntoConnect(fsm) \in FsmRecord
          /\ ActiveIntoConnect(fsm).state = "Connect"
      BY DEF ActiveIntoConnect, NewFsm, Control, ControlType, FsmRecord,
             StateName
    <2>2. /\ fsm' \in FsmRecord
          /\ fsm'.state = "Connect"
          /\ conn' \in [Conn -> ConnRecord]
      BY <1>3, <2>1, SpawnAttemptType DEF ActiveRetryExpires
    <2>3. fsm.state = "Active" /\ UNCHANGED <<attr, cur, dur>>
      BY <1>3 DEF ActiveRetryExpires, In
    <2> QED
      BY <2>2, <2>3
      DEF Control, ControlType, TimerInv, DelayOpenRecorded, TimerBelief,
          HandshakeTimersOff, OpenSentWithOpenIsWired, ConfirmedIsWired,
          HoldTimerArmed, RetryCounterBounded, NoAttemptInActive, Confirmed,
          Retries
  <1>4. CASE ActiveDelayOpenExpires(e)
    <2> DEFINE s == ActiveIntoOpenSent(fsm)
    <2>1. s \in FsmRecord /\ s.state = "OpenSent"
      BY DEF ActiveIntoOpenSent, NewFsm, Control, ControlType, FsmRecord,
             StateName
    <2>2. CASE ~CanSend(s.bgp_conn)
      BY <1>4, <2>2, PanicControl DEF ActiveDelayOpenExpires, OpenDelayed, In
    <2>3. CASE CanSend(s.bgp_conn)
      <3>1. /\ fsm' = [s EXCEPT !.local_open = LocalOpen]
            /\ conn' = [conn EXCEPT ![s.bgp_conn].opens = @ + 1]
            /\ Stop({"ConnectRetry", "DelayOpen"})
            /\ attr' = attr
            /\ fsm.state = "Active"
        BY <1>4, <2>3 DEF ActiveDelayOpenExpires, OpenDelayed, In
      <3>2. s.bgp_conn # None
        BY <2>3, CanSendType
      <3> HIDE DEF s
      <3>3. /\ fsm' \in FsmRecord
            /\ fsm'.state = "OpenSent"
            /\ fsm'.bgp_conn # None
        BY <2>1, <3>1, <3>2 DEF FsmRecord
      <3>4. conn' \in [Conn -> ConnRecord]
        BY <2>3, <3>1 DEF Control, ControlType, ConnRecord, CanSend
      <3>5. dur'["ConnectRetry"] = FarFuture /\ dur'["DelayOpen"] = FarFuture
        BY <3>1 DEF Stop, TimerKind
      <3> QED
        BY <3>1, <3>3, <3>4, <3>5, StopTimers
        DEF Control, ControlType, TimerInv, HandshakeTimersOff,
            OpenSentWithOpenIsWired, ConfirmedIsWired, HoldTimerArmed,
            RetryCounterBounded, NoAttemptInActive, Confirmed, Retries
    <2> QED BY <2>2, <2>3
  <1>5. CASE ActiveTcpCRAcked(e) \/ ActiveTcpConfirmed(e)
    <2> DEFINE s == ActiveIntoOpenSent([fsm EXCEPT !.bgp_conn = e.conn])
    <2>1. e.conn \in Conn
      BY <1>5, SocketEventConn
      DEF ActiveTcpCRAcked, ActiveTcpConfirmed, In, SocketEvent
    <2>2. s \in FsmRecord /\ s.state = "OpenSent" /\ s.local_open = None
      BY <2>1 DEF ActiveIntoOpenSent, NewFsm, Control, ControlType, FsmRecord,
                  StateName
    <2> QED
      BY <1>5, <2>1, <2>2, TakeConnectionControl
      DEF ActiveTcpCRAcked, ActiveTcpConfirmed, In
  <1>6. CASE ActiveTcpFails(e)
    BY <1>6, GoIdleControl DEF ActiveTcpFails, In
  <1>7. CASE ActiveOpenDelayed(e)
    <2>1. /\ ActiveIntoOpenConfirm(fsm) \in FsmRecord
          /\ ActiveIntoOpenConfirm(fsm).state = "OpenConfirm"
      BY DEF ActiveIntoOpenConfirm, NewFsm, Control, ControlType, FsmRecord,
             StateName
    <2> QED
      BY <1>7, <2>1, ConfirmDelayedControl DEF ActiveOpenDelayed, In, OpenEvent
  <1>8. CASE ActiveMsgErr(e)
    BY <1>8, MaybeNotifyAndGoIdleControl DEF ActiveMsgErr, In
  <1>9. CASE ActiveNotifyVerErr(e)
    BY <1>9, GoIdleControl DEF ActiveNotifyVerErr, In
  <1>10. CASE ActiveOther(e)
    BY <1>10, GoIdleControl DEF ActiveOther
  <1> QED
    BY <1>1, <1>2, <1>3, <1>4, <1>5, <1>6, <1>7, <1>8, <1>9, <1>10
    DEF HandleActive

\* Probing a second outgoing connection.
LEMMA ProbeCollisionControl ==
    ASSUME Control, NEW e, ProbeCollision(e)
    PROVE  Control'
  <1>1. ProcessOne \in ConnRecord
    BY DEF ProcessOne, Gone, ConnRecord
  <1> QED
    BY <1>1, StutterControl DEF ProbeCollision, Control, ControlType

\* Putting a colliding connection aside.
LEMMA HoldCollisionControl ==
    ASSUME Control, NEW e, e.conn \in Conn, HoldCollision(e),
           fsm.state \in {"OpenSent", "OpenConfirm", "Established"}
    PROVE  Control'
  <1>1. /\ fsm' \in FsmRecord
        /\ fsm'.state = fsm.state
        /\ fsm'.local_open = fsm.local_open
        /\ fsm'.peer_open = fsm.peer_open
        /\ fsm'.bgp_conn = fsm.bgp_conn
    BY DEF HoldCollision, Control, ControlType, FsmRecord
  <1>2. conn' \in [Conn -> ConnRecord]
    BY WithoutType DEF HoldCollision, Control, ControlType
  <1> QED BY <1>1, <1>2, RewireControl DEF HoldCollision

\* Replacing the connection, or dropping the one put aside, changes no other
\* part of the machine.
LEMMA ResolvedType ==
    ASSUME Control
    PROVE  /\ Replaced \in FsmRecord /\ Dropped \in FsmRecord
           /\ Replaced.state = fsm.state /\ Dropped.state = fsm.state
           /\ Replaced.local_open = fsm.local_open
           /\ Dropped.local_open = fsm.local_open
           /\ Replaced.peer_open = fsm.peer_open
           /\ Dropped.peer_open = fsm.peer_open
           /\ Replaced.bgp_conn = fsm.collision_conn
           /\ Dropped.bgp_conn = fsm.bgp_conn
  BY DEF Replaced, Dropped, Control, ControlType, FsmRecord

\* Starting a process task on the connection put aside.
LEMMA ReplacedConnType ==
    ASSUME Control, NEW y \in BOOLEAN, NEW n \in Nat
    PROVE  ReplacedConn(y, n) \in [Conn -> ConnRecord]
  BY DEF ReplacedConn, Process, Control, ControlType, ConnRecord

\* An OPEN in OpenSent: a session that knows its local OPEN has a
\* connection, and still has one after the collision is resolved.
LEMMA OpenSentBGPOpenControl ==
    ASSUME Control, NEW e \in Event, OpenSentBGPOpen(e)
    PROVE  Control'
  <1> DEFINE collides == fsm.remote_syn # e.remote_syn
             replace == collides /\ PeerWins(e)
             fails == \/ fsm.local_open = None
                      \/ replace /\ fsm.collision_conn = None
                      \/ replace /\ ~CanSend(fsm.bgp_conn)
             resolved == IF replace THEN Replaced
                         ELSE IF collides THEN Dropped ELSE fsm
             s == OpenSentIntoOpenConfirm(resolved)
  <1>1. fsm.state = "OpenSent" /\ e.msg \in PeerOpen /\ e.remote_syn \in BOOLEAN
    <2>1. fsm.state = "OpenSent" /\ e.type = "BGPOpen"
      BY DEF OpenSentBGPOpen, In
    <2> QED BY <2>1, OpenEventMsg DEF OpenEvent, Event
  <1>2. CASE fails
    BY <1>1, <1>2, PanicControl DEF OpenSentBGPOpen
  <1>3. CASE ~fails
    <2>1. /\ resolved \in FsmRecord
          /\ resolved.local_open # None
          /\ resolved.bgp_conn # None
      BY <1>1, <1>3, ResolvedType
      DEF Control, ControlType, OpenSentWithOpenIsWired
    <2>2. /\ s \in FsmRecord
          /\ s.state = "OpenConfirm"
          /\ s.local_open # None
          /\ s.bgp_conn # None
      <3> HIDE DEF resolved
      <3> QED BY <2>1 DEF OpenSentIntoOpenConfirm, FsmRecord, StateName
    <2>3. Confirm(s, e.msg, attr.keepalive_time)
      BY <1>3 DEF OpenSentBGPOpen
    <2>4. conn' \in [Conn -> ConnRecord]
      BY <1>1, <1>3, ReplacedConnType, WithoutType
      DEF OpenSentBGPOpen, Control, ControlType
    <2>5. attr.keepalive_time \in Nat
      BY DEF Control, ControlType, AttrType
    <2> HIDE DEF s
    <2> QED BY <1>1, <2>2, <2>3, <2>4, <2>5, ConfirmControl
  <1> QED BY <1>2, <1>3

\* The arms of OpenSent.
LEMMA OpenSentControl ==
    ASSUME Control, NEW e \in Event, NEW src, HandleOpenSent(e, src)
    PROVE  Control'
  <1>1. CASE OpenSentStart(e) \/ OpenSentTcpIgnored(e) \/ OpenSentCollMsgErr(e, src)
    BY <1>1, IgnoreControl
    DEF OpenSentStart, OpenSentTcpIgnored, OpenSentCollMsgErr
  <1>2. CASE \/ OpenSentManualStop(e) \/ OpenSentAutomaticStop(e)
             \/ OpenSentHoldExpires(e) \/ OpenSentMsgErr(e, src)
             \/ OpenSentOther(e)
    BY <1>2, NotifyAndGoIdleControl
    DEF OpenSentManualStop, OpenSentAutomaticStop, OpenSentHoldExpires,
        OpenSentMsgErr, OpenSentOther, In
  <1>3. CASE OpenSentTcpCRAcked(e)
    BY <1>3, ProbeCollisionControl DEF OpenSentTcpCRAcked
  <1>4. CASE OpenSentCollision(e)
    BY <1>4, SocketEventConn, HoldCollisionControl
    DEF OpenSentCollision, In, SocketEvent
  <1>5. CASE OpenSentTcpFails(e)
    <2>1. /\ fsm' \in FsmRecord
          /\ fsm'.state = "Active"
          /\ fsm'.tcp_conn = None
      BY <1>5 DEF OpenSentTcpFails, OpenSentIntoActive, NewFsm, FsmRecord,
                  StateName
    <2>2. conn' \in [Conn -> ConnRecord]
      BY <1>5, WithoutType DEF OpenSentTcpFails, Control, ControlType
    <2>3. fsm.state = "OpenSent" /\ UNCHANGED <<attr, cur, dur>>
      BY <1>5 DEF OpenSentTcpFails, In
    <2> QED
      BY <2>1, <2>2, <2>3
      DEF Control, ControlType, TimerInv, DelayOpenRecorded, TimerBelief,
          HandshakeTimersOff, OpenSentWithOpenIsWired, ConfirmedIsWired,
          HoldTimerArmed, RetryCounterBounded, NoAttemptInActive, Confirmed,
          Retries
  <1>6. CASE OpenSentBGPOpen(e)
    BY <1>6, OpenSentBGPOpenControl
  <1>7. CASE OpenSentNotifyVerErr(e)
    BY <1>7, GoIdleControl DEF OpenSentNotifyVerErr, In
  <1> QED
    BY <1>1, <1>2, <1>3, <1>4, <1>5, <1>6, <1>7 DEF HandleOpenSent

\* A collision resolved once the session is confirmed.
LEMMA ConfirmedBGPOpenControl ==
    ASSUME Control, NEW e \in Event, OpenConfirmBGPOpen(e) \/ EstablishedBGPOpen(e)
    PROVE  Control'
  <1>1. /\ fsm.state \in {"OpenConfirm", "Established"}
        /\ e.type = "BGPOpen"
    BY DEF OpenConfirmBGPOpen, EstablishedBGPOpen, In
  <1>2. e.remote_syn \in BOOLEAN
    BY <1>1 DEF Event
  <1>3. CASE Panic(e)
    BY <1>1, <1>3, PanicControl
  <1>4. CASE /\ fsm.collision_conn # None
             /\ fsm' = Replaced
             /\ conn' = ReplacedConn(e.remote_syn, 0)
             /\ UNCHANGED <<attr, cur, dur>>
    BY <1>1, <1>2, <1>4, ResolvedType, ReplacedConnType, RewireControl
  <1>5. CASE /\ fsm' = Dropped
             /\ conn' = Without({fsm.collision_conn})
             /\ UNCHANGED <<attr, cur, dur>>
    BY <1>1, <1>5, ResolvedType, WithoutType, RewireControl
    DEF Control, ControlType
  <1> QED
    BY <1>3, <1>4, <1>5, StallControl DEF OpenConfirmBGPOpen, EstablishedBGPOpen

\* The arms of OpenConfirm.
LEMMA OpenConfirmControl ==
    ASSUME Control, NEW e \in Event, NEW src, HandleOpenConfirm(e, src)
    PROVE  Control'
  <1>1. CASE \/ OpenConfirmStart(e) \/ OpenConfirmTcpIgnored(e)
             \/ OpenConfirmCollMsgErr(e, src) \/ OpenConfirmCollisionDump(e)
    BY <1>1, IgnoreControl
    DEF OpenConfirmStart, OpenConfirmTcpIgnored, OpenConfirmCollMsgErr,
        OpenConfirmCollisionDump
  <1>2. CASE \/ OpenConfirmManualStop(e) \/ OpenConfirmAutomaticStop(e)
             \/ OpenConfirmHoldExpires(e) \/ OpenConfirmMsgErr(e, src)
             \/ OpenConfirmOther(e)
    BY <1>2, NotifyAndGoIdleControl
    DEF OpenConfirmManualStop, OpenConfirmAutomaticStop,
        OpenConfirmHoldExpires, OpenConfirmMsgErr, OpenConfirmOther, In
  <1>3. CASE OpenConfirmKeepaliveExpires(e)
    BY <1>3, SendKeepaliveControl DEF OpenConfirmKeepaliveExpires, In
  <1>4. CASE OpenConfirmTcpCRAcked(e)
    BY <1>4, ProbeCollisionControl DEF OpenConfirmTcpCRAcked
  <1>5. CASE OpenConfirmCollision(e)
    BY <1>5, SocketEventConn, HoldCollisionControl
    DEF OpenConfirmCollision, In, SocketEvent
  <1>6. CASE OpenConfirmTcpFails(e) \/ OpenConfirmNotifyVerErr(e)
    BY <1>6, GoIdleControl DEF OpenConfirmTcpFails, OpenConfirmNotifyVerErr, In
  <1>7. CASE OpenConfirmBGPOpen(e)
    BY <1>7, ConfirmedBGPOpenControl
  <1>8. CASE OpenConfirmKeepaliveMsg(e)
    <2>1. /\ fsm' \in FsmRecord
          /\ fsm'.state = "Established"
          /\ fsm'.local_open = fsm.local_open
          /\ fsm'.peer_open = fsm.peer_open
          /\ fsm'.bgp_conn = fsm.bgp_conn
      BY <1>8 DEF OpenConfirmKeepaliveMsg, OpenConfirmIntoEstablished, Control,
                  ControlType, FsmRecord, StateName
    <2> QED
      BY <1>8, <2>1, RewireControl
      DEF OpenConfirmKeepaliveMsg, In, Control, ControlType
  <1> QED
    BY <1>1, <1>2, <1>3, <1>4, <1>5, <1>6, <1>7, <1>8 DEF HandleOpenConfirm

\* The arms of Established.
LEMMA EstablishedControl ==
    ASSUME Control, NEW e \in Event, HandleEstablished(e)
    PROVE  Control'
  <1>1. CASE EstablishedStart(e) \/ EstablishedTcpIgnored(e) \/ EstablishedReceives(e)
    BY <1>1, IgnoreControl
    DEF EstablishedStart, EstablishedTcpIgnored, EstablishedReceives
  <1>2. CASE \/ EstablishedManualStop(e) \/ EstablishedAutomaticStop(e)
             \/ EstablishedHoldExpires(e) \/ EstablishedUpdateErr(e)
             \/ EstablishedOther(e)
    BY <1>2, NotifyAndGoIdleControl
    DEF EstablishedManualStop, EstablishedAutomaticStop,
        EstablishedHoldExpires, EstablishedUpdateErr, EstablishedOther, In
  <1>3. CASE EstablishedKeepaliveExpires(e)
    BY <1>3, SendKeepaliveControl DEF EstablishedKeepaliveExpires, In
  <1>4. CASE EstablishedTcpCRAcked(e)
    BY <1>4, ProbeCollisionControl DEF EstablishedTcpCRAcked
  <1>5. CASE EstablishedCollision(e)
    BY <1>5, SocketEventConn, HoldCollisionControl
    DEF EstablishedCollision, In, SocketEvent
  <1>6. CASE EstablishedBGPOpen(e)
    BY <1>6, ConfirmedBGPOpenControl
  <1>7. CASE EstablishedDown(e)
    BY <1>7, GoIdleControl DEF EstablishedDown, In
  <1> QED
    BY <1>1, <1>2, <1>3, <1>4, <1>5, <1>6, <1>7 DEF HandleEstablished

\* Every match arm of run preserves Control.
LEMMA HandleControl ==
    ASSUME Control, NEW e \in Event, NEW src, Handle(e, src)
    PROVE  Control'
  BY IdleControl, ConnectControl, ActiveControl, OpenSentControl,
     OpenConfirmControl, EstablishedControl
  DEF Handle

(***************************************************************************)
(* The other tasks, and the queues                                         *)
(***************************************************************************)
\* The events the tasks build are events.
LEMMA EventTypes ==
    /\ \A t \in BareEvent : Ev(t) \in Event
    /\ \A t \in SocketEvent \cup MsgErr \cup {"TcpConnectionFails"}, c \in Conn :
          EvConn(t, c) \in Event
    /\ \A c \in Conn, m \in PeerOpen :
          /\ EvOpen(c, m, TRUE) \in Event
          /\ EvOpen(c, m, FALSE) \in Event
          /\ \A y \in BOOLEAN : EvOpen(c, m, y) \in Event
  BY DEF Ev, EvConn, EvOpen, Event, OpenEvent

\* An expiry is an event without payload.
LEMMA ExpiryType == ASSUME NEW k \in TimerKind PROVE Expiry[k] \in BareEvent
  BY DEF Expiry, TimerKind, BareEvent

\* The adaptation of an OPEN from the listener yields an event.
LEMMA AdaptType ==
    ASSUME NEW e \in Event, NEW src
    PROVE  Adapt(e, src) \in Event
  BY DEF Adapt, Event, OpenEvent, BareEvent, SocketEvent, MsgErr, PlainEvent, StartEvent

\* Sending events keeps the channels typed and the machine as it is.
LEMMA SendQueues ==
    ASSUME Queues, NEW src \in Source, NEW es \in Seq(Event), Send(src, es),
           owed' \in [Conn -> PeerOpen \cup {None}]
    PROVE  Queues' /\ UNCHANGED <<fsm, attr, cur, dur>>
  <1>1. chan[src] \o es \in Seq(Event)
    BY DEF Queues
  <1> QED BY <1>1 DEF Send, Queues

\* The steps of try_tcp_conn, the listener, process and process_one.
LEMMA TaskInv ==
    ASSUME IInv, NEW c \in Conn,
           \/ TryTcpConn(c)
           \/ \E m \in PeerOpen : ProcessPassive(c, m)
           \/ ProcessReads(c)
           \/ ProcessReadFails(c)
           \/ ProcessOutClosed(c)
           \/ ProcessOneReads(c)
           \/ ProcessOneSendsOpen(c)
    PROVE  IInv'
  <1> USE DEF IInv
  <1>1. Gone \in ConnRecord /\ Socket(TRUE) \in ConnRecord /\ Socket(FALSE) \in ConnRecord
    BY DEF Gone, Socket, ConnRecord
  <1>2. /\ conn \in [Conn -> ConnRecord]
        /\ owed \in [Conn -> PeerOpen \cup {None}]
        /\ conn[c].remote_syn \in BOOLEAN
    BY DEF Control, ControlType, Queues, ConnRecord
  <1>3. CASE TryTcpConn(c)
    <2>1. <<EvConn("TcpCRAcked", c)>> \in Seq(Event)
          /\ <<EvConn("TcpConnectionFails", c)>> \in Seq(Event)
      BY EventTypes DEF SocketEvent
    <2>2. conn' \in [Conn -> ConnRecord] /\ owed' = owed
      BY <1>1, <1>2, <1>3 DEF TryTcpConn
    <2>3. Queues' /\ UNCHANGED <<fsm, attr, cur, dur>>
      BY <1>2, <1>3, <2>1, <2>2, SendQueues DEF TryTcpConn, Source
    <2> QED BY <2>2, <2>3, StutterControl
  <1>4. ASSUME NEW m \in PeerOpen, ProcessPassive(c, m) PROVE IInv'
    <2> DEFINE a == EvConn("TcpConnectionConfirmed", c)
               o == EvOpen(c, m, TRUE)
    <2>a. a \in Event /\ o \in Event
      BY EventTypes DEF SocketEvent
    <2>1. <<a, o>> \in Seq(Event)
      <3> HIDE DEF a, o
      <3> QED BY <2>a
    <2>2. conn' \in [Conn -> ConnRecord] /\ owed' = owed
      BY <1>1, <1>2, <1>4 DEF ProcessPassive
    <2>3. Queues' /\ UNCHANGED <<fsm, attr, cur, dur>>
      BY <1>2, <1>4, <2>1, <2>2, SendQueues DEF ProcessPassive, Source
    <2> QED BY <2>2, <2>3, StutterControl
  <1>5. CASE ProcessReads(c)
    <2>a. \A x \in Event : <<x>> \in Seq(Event)
      OBVIOUS
    <2>b. \A m \in PeerOpen : EvOpen(c, m, conn[c].remote_syn) \in Event
      BY <1>2, EventTypes
    <2>1. /\ \A m \in PeerOpen : <<EvOpen(c, m, conn[c].remote_syn)>> \in Seq(Event)
          /\ <<Ev("UpdateMsg")>> \in Seq(Event)
          /\ \A t \in MsgErr : <<EvConn(t, c)>> \in Seq(Event)
      BY <2>a, <2>b, EventTypes DEF BareEvent
    <2>2. conn' \in [Conn -> ConnRecord] /\ owed' = owed
      BY <1>2, <1>5 DEF ProcessReads, ConnRecord
    <2>3. Queues' /\ UNCHANGED <<fsm, attr, cur, dur>>
      BY <1>2, <1>5, <2>1, <2>2, SendQueues DEF ProcessReads, Source
    <2> QED BY <1>2, <2>2, <2>3, StutterControl
  <1>6. CASE ProcessReadFails(c) \/ ProcessOutClosed(c)
    <2>1. conn' \in [Conn -> ConnRecord] /\ UNCHANGED <<fsm, attr, cur, dur, late, chan, owed>>
      BY <1>1, <1>2, <1>6 DEF ProcessReadFails, ProcessOutClosed
    <2> QED BY <2>1, StutterControl DEF Queues
  <1>7. CASE ProcessOneReads(c)
    <2>1. /\ <<EvConn("ProcessOneDone", c)>> \in Seq(Event)
          /\ \A t \in MsgErr : <<Ev(t)>> \in Seq(Event)
          /\ <<>> \in Seq(Event)
      BY EventTypes DEF SocketEvent, BareEvent
    <2>2. /\ conn' \in [Conn -> ConnRecord]
          /\ owed' \in [Conn -> PeerOpen \cup {None}]
      BY <1>1, <1>2, <1>7 DEF ProcessOneReads
    <2>3. Queues' /\ UNCHANGED <<fsm, attr, cur, dur>>
      BY <1>7, <2>1, <2>2, SendQueues DEF ProcessOneReads, Source
    <2> QED BY <2>2, <2>3, StutterControl
  <1>8. CASE ProcessOneSendsOpen(c)
    <2>1. owed[c] \in PeerOpen
      BY <1>2, <1>8 DEF ProcessOneSendsOpen
    <2> DEFINE o == EvOpen(c, owed[c], FALSE)
    <2>a. o \in Event
      BY <2>1, EventTypes
    <2>2. <<o>> \in Seq(Event)
      <3> HIDE DEF o
      <3> QED BY <2>a
    <2>3. conn' = conn /\ owed' \in [Conn -> PeerOpen \cup {None}]
      BY <1>2, <1>8 DEF ProcessOneSendsOpen
    <2>4. Queues' /\ UNCHANGED <<fsm, attr, cur, dur>>
      BY <1>8, <2>2, <2>3, SendQueues DEF ProcessOneSendsOpen, Source
    <2> QED BY <1>2, <2>3, <2>4, StutterControl
  <1> QED BY <1>3, <1>4, <1>5, <1>6, <1>7, <1>8

\* A step of the loop of run.
LEMMA RunInv ==
    ASSUME IInv, NEW src \in Source, Run(src)
    PROVE  IInv'
  <1>1. chan[src] \in Seq(Event) /\ chan[src] # <<>>
    BY DEF IInv, Queues, Run
  <1>2. Head(chan[src]) \in Event /\ Tail(chan[src]) \in Seq(Event)
    BY <1>1
  <1>3. Adapt(Head(chan[src]), src) \in Event
    BY <1>2, AdaptType
  <1>4. Control'
    BY <1>3, HandleControl DEF IInv, Run
  <1>5. Queues'
    BY <1>2 DEF IInv, Queues, Run, Lag
  <1> QED BY <1>4, <1>5 DEF IInv

\* A command on the admin channel.
LEMMA RunAdminInv ==
    ASSUME IInv, NEW t \in AdminEvent, RunAdmin(t)
    PROVE  IInv'
  <1>1. Ev(t) \in Event
    BY AdminAssumption, EventTypes DEF BareEvent
  <1>2. Control'
    BY <1>1, HandleControl DEF IInv, RunAdmin
  <1> QED BY <1>2 DEF IInv, Queues, RunAdmin, Lag

\* An expiry of a timer task.
LEMMA TimerExpiresInv ==
    ASSUME IInv, NEW k \in TimerKind, TimerExpires(k)
    PROVE  IInv'
  <1>1. <<Ev(Expiry[k])>> \in Seq(Event)
    BY ExpiryType, EventTypes
  <1>2. /\ conn' = conn /\ owed' = owed
        /\ conn \in [Conn -> ConnRecord]
        /\ owed \in [Conn -> PeerOpen \cup {None}]
    BY DEF TimerExpires, IInv, Control, ControlType, Queues
  <1>3. Queues' /\ UNCHANGED <<fsm, attr, cur, dur>>
    BY <1>1, <1>2, SendQueues DEF TimerExpires, IInv, Source
  <1> QED BY <1>2, <1>3, StutterControl DEF IInv

\* A timer task catches up.
LEMMA TimerCatchesUpInv ==
    ASSUME IInv, NEW k \in TimerKind, TimerCatchesUp(k)
    PROVE  IInv'
  <1>1. UNCHANGED <<fsm, attr, cur, dur, conn>> /\ Queues'
    BY DEF TimerCatchesUp, IInv, Queues
  <1>2. conn \in [Conn -> ConnRecord]
    BY DEF IInv, Control, ControlType
  <1> QED BY <1>1, <1>2, StutterControl DEF IInv

(***************************************************************************)
(* The theorems                                                            *)
(***************************************************************************)
\* A new session satisfies the inductive invariant.
LEMMA InitInv == Init => IInv
  <1> SUFFICES ASSUME Init PROVE IInv
    OBVIOUS
  <1>1. ControlType
    BY NewFsmType, FarFutureAssumption
    DEF Init, ControlType, NewAttributes, AttrType, DFLT_BGP_HOLDTIME,
        DFLT_BGP_KEEPALIVE, Secs, Gone, ConnRecord
  <1>2. /\ fsm.state = "Idle"
        /\ Retries = 0
        /\ \A k \in TimerKind : cur[k] = FarFuture /\ dur[k] = FarFuture
    BY DEF Init, NewFsm, NewAttributes, Retries
  <1>3. Queues
    BY DEF Init, Queues
  <1> QED
    BY <1>1, <1>2, <1>3
    DEF IInv, Control, TimerInv, DelayOpenRecorded, TimerBelief, TimerKind,
        HandshakeTimersOff, OpenSentWithOpenIsWired, ConfirmedIsWired,
        HoldTimerArmed, RetryCounterBounded, NoAttemptInActive, Confirmed

\* Every step preserves the inductive invariant.
LEMMA NextInv == IInv /\ [Next]_vars => IInv'
  <1> SUFFICES ASSUME IInv, [Next]_vars PROVE IInv'
    OBVIOUS
  <1>1. CASE Next
    BY <1>1, RunInv, RunAdminInv, TaskInv, TimerExpiresInv, TimerCatchesUpInv DEF Next
  <1>2. CASE UNCHANGED vars
    BY <1>2, StutterControl DEF vars, IInv, Control, ControlType, Queues
  <1> QED BY <1>1, <1>2

\* The inductive invariant holds in every reachable state.
THEOREM Invariance == Spec => []IInv
  BY InitInv, NextInv, PTL DEF Spec

\* Every variable of the session has its type in every reachable state.
THEOREM TypeCorrect == Spec => []TypeOK
  <1>1. IInv => TypeOK
    BY DEF IInv, Control, ControlType, Queues, TypeOK, AttrType
  <1> QED BY <1>1, Invariance, PTL

\* From OpenConfirm on no unwrap of bgp_out_tx, local_open or peer_open fails.
THEOREM ConfirmedWired == Spec => []ConfirmedIsWired
  <1>1. IInv => ConfirmedIsWired
    BY DEF IInv, Control
  <1> QED BY <1>1, Invariance, PTL

\* From OpenConfirm on the hold time is the lesser of the two OPENs', zero
\* included, and the Hold timer is ordered to it.
THEOREM HoldArmed == Spec => []HoldTimerArmed
  <1>1. IInv => HoldTimerArmed
    BY DEF IInv, Control
  <1> QED BY <1>1, Invariance, PTL

\* cur_*_time mirrors the timer tasks but for a forgotten DelayOpen timer.
THEOREM TimersBelieved == Spec => []TimerBelief
  <1>1. IInv => TimerBelief
    BY DEF IInv, Control, TimerInv
  <1> QED BY <1>1, Invariance, PTL

\* The timers of the connection phase are off once an OPEN is sent.
THEOREM HandshakeTimersStopped == Spec => []HandshakeTimersOff
  <1>1. IInv => HandshakeTimersOff
    BY DEF IInv, Control, TimerInv
  <1> QED BY <1>1, Invariance, PTL

\* The retry counter never exceeds one.
THEOREM RetryCounterStaysBounded == Spec => []RetryCounterBounded
  <1>1. IInv => RetryCounterBounded
    BY DEF IInv, Control
  <1> QED BY <1>1, Invariance, PTL

\* Active holds no connection attempt.
THEOREM ActiveHasNoAttempt == Spec => []NoAttemptInActive
  <1>1. IInv => NoAttemptInActive
    BY DEF IInv, Control
  <1> QED BY <1>1, Invariance, PTL
=============================================================================
