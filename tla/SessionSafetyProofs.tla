------------------------ MODULE SessionSafetyProofs ------------------------
(***************************************************************************)
(* What a session does with its connections, proved for every value of the *)
(* constants: which OPENs it sends, when it is confirmed and by whom it is *)
(* established, and that Connect is never stranded.                        *)
(*                                                                         *)
(* The argument has two halves.  Effect summarises the match arms of run   *)
(* by what they do to the connection in use; HandleEffect shows that every *)
(* arm has one of its effects.  Safety is the invariant that these effects *)
(* and the other tasks preserve.                                           *)
(***************************************************************************)
EXTENDS SessionProofs

(***************************************************************************)
(* The invariant                                                           *)
(***************************************************************************)
\* The types of the events that each channel can hold.  An expiry of the
\* DelayOpen timer exists only if the option is set, and the OPEN event of a
\* running DelayOpen timer and a KEEPALIVE are in no channel.
SentTypes ==
    [Admin |-> {"TcpConnectionConfirmed", "BGPOpen"},
     Tcp   |-> {"TcpCRAcked", "TcpConnectionFails"},
     Bgp   |-> {"BGPOpen", "UpdateMsg"} \cup MsgErr,
     Coll  |-> {"ProcessOneDone", "BGPOpen"} \cup MsgErr,
     Timer |-> {Expiry[k] : k \in {x \in TimerKind : x = "DelayOpen" => DelayOpen}}]

Sent(src) == {e \in Event : e.type \in SentTypes[src]}

Traffic ==
    /\ \A src \in Source : chan[src] \in Seq(Sent(src))
    /\ "DelayOpen" \in late => DelayOpen

\* Before the handshake the connection in use has been sent no OPEN.
Unsent ==
    fsm.state \in {"Connect", "Active"} /\ fsm.bgp_conn # None
        => conn[fsm.bgp_conn].opens = 0

LocalWins == \A m \in PeerOpen : m.id <= LocalOpen.id

\* If no collision is lost, a machine that knows its local OPEN has sent it
\* on the connection in use.
SentOnce ==
    LocalWins /\ CanSend(fsm.bgp_conn) =>
        \/ conn[fsm.bgp_conn].opens = 1
        \/ ~Confirmed /\ (fsm.state = "OpenSent" => fsm.local_open = None)

\* Without DelayOpen no machine ever knows its local OPEN.
Undelayed ==
    ~DelayOpen => /\ ~Confirmed
                  /\ fsm.state = "OpenSent" => fsm.local_open = None

Handshake ==
    /\ OneOpenPerConnection
    /\ Unsent
    /\ SentOnce
    /\ Undelayed
    /\ PeerCannotEstablish

Safety == Handshake /\ Traffic /\ ConnectNeverStranded

(***************************************************************************)
(* The effects of the match arms                                           *)
(***************************************************************************)
\* Connections keep their task and what was sent on them, or lose both.
Closes ==
    \A c \in Conn :
        \/ conn'[c].task = conn[c].task /\ conn'[c].opens = conn[c].opens
        \/ conn'[c].task # "process" /\ conn'[c].opens = 0

OthersKept(x) == \A c \in Conn \ {x} : conn'[c] = conn[c]

\* A timer or a running attempt will move the machine on.
Driven ==
    \/ dur["ConnectRetry"] # FarFuture
    \/ dur["DelayOpen"] # FarFuture
    \/ fsm.tcp_conn # None /\ conn[fsm.tcp_conn].task = "try_tcp_conn"

Opening == fsm.state \in {"Connect", "Active"}
Opened == fsm.state \in {"OpenSent", "OpenConfirm", "Established"}

\* Negotiation sets the hold time.
Negotiates == attr'.hold_time \in {HoldTime(m) : m \in PeerOpen}

\* Idle takes no notice.
Rests ==
    /\ fsm.state = "Idle" /\ fsm' = fsm
    /\ Closes

\* Idle is left without a connection.
Begins ==
    /\ fsm.state = "Idle" /\ Opening'
    /\ fsm'.bgp_conn = None
    /\ fsm'.state = "Connect" => Driven'
    /\ Closes

\* Any state is left for Idle, or the session's task ends or stalls.
Falls ==
    /\ Opening \/ Opened
    /\ fsm'.state \in {"Idle", "Panicked", "Stalled"}
    /\ Closes

\* Connect and Active alternate; the connection in use, if any, is kept.
Waits(e) ==
    /\ Opening /\ Opening'
    /\ fsm'.bgp_conn = fsm.bgp_conn
    /\ fsm'.state = "Connect" =>
          \/ Driven'
          \/ UNCHANGED <<fsm, dur, conn>> /\ e.type \notin SentTypes["Tcp"]
    /\ Closes

\* A connection is taken into use, its OPEN delayed ...
Adopts(e) ==
    /\ DelayOpen
    /\ Opening /\ fsm'.state = fsm.state
    /\ e.conn \in Conn /\ fsm'.bgp_conn = e.conn
    /\ conn'[e.conn].opens = 0 /\ OthersKept(e.conn)
    /\ dur'["DelayOpen"] # FarFuture

\* ... or sent at once.
Opens(e) ==
    /\ ~DelayOpen
    /\ Opening /\ fsm'.state = "OpenSent" /\ fsm'.local_open = None
    /\ e.conn \in Conn
    /\ conn'[e.conn].opens = 1 /\ OthersKept(e.conn)

\* The delayed OPEN is sent, because its timer expired or the peer's came.
SendsOpen(e) ==
    /\ Opening /\ CanSend(fsm.bgp_conn)
    /\ fsm'.bgp_conn = fsm.bgp_conn
    /\ conn'[fsm.bgp_conn].opens = conn[fsm.bgp_conn].opens + 1
    /\ OthersKept(fsm.bgp_conn)
    /\ \/ e.type = "DelayOpenTimerExpires" /\ fsm'.state = "OpenSent"
       \/ /\ e.type = "BGPOpenWithDelayOpenTimerRunning"
          /\ fsm'.state = "OpenConfirm" /\ Negotiates

\* OpenSent gives its connection up.
Retreats ==
    /\ fsm.state = "OpenSent" /\ fsm'.state = "Active"
    /\ fsm'.bgp_conn = None
    /\ Closes

\* The connection put aside wins a collision.
Swaps(e, N) ==
    /\ e.msg \in PeerOpen /\ PeerWins(e)
    /\ fsm.collision_conn \in Conn /\ fsm'.bgp_conn = fsm.collision_conn
    /\ conn'[fsm.collision_conn].opens \in N /\ OthersKept(fsm.collision_conn)

\* The peer's OPEN answers the one that was sent.
Confirms(e) ==
    /\ fsm.state = "OpenSent" /\ fsm.local_open # None
    /\ fsm'.state = "OpenConfirm" /\ Negotiates
    /\ \/ fsm'.bgp_conn = fsm.bgp_conn /\ Closes
       \/ Swaps(e, {0, 1})

\* An open session keeps its connection.
Keeps(e) ==
    /\ Opened
    /\ \/ fsm'.state = fsm.state
       \/ /\ e.type = "KeepaliveMsg"
          /\ fsm.state = "OpenConfirm" /\ fsm'.state = "Established"
    /\ fsm'.bgp_conn = fsm.bgp_conn /\ fsm'.local_open = fsm.local_open
    /\ attr' = attr
    /\ Closes

\* A confirmed session changes its connection.
Replaces(e) ==
    /\ Confirmed /\ fsm'.state = fsm.state
    /\ attr' = attr
    /\ Swaps(e, {0})

Effect(e) ==
    \/ Rests \/ Begins \/ Falls
    \/ Waits(e) \/ Adopts(e) \/ Opens(e) \/ SendsOpen(e)
    \/ Retreats \/ Confirms(e) \/ Keeps(e) \/ Replaces(e)

(***************************************************************************)
(* Every match arm has one of the effects                                  *)
(***************************************************************************)
\* Dropping connections closes them.
LEMMA WithoutCloses ==
    ASSUME NEW S, conn' = Without(S)
    PROVE  Closes
  BY DEF Closes, Without, Gone

\* Ignoring an event leaves the machine alone.
LEMMA IgnoreCloses ==
    ASSUME NEW e, Ignore(e)
    PROVE  Closes /\ UNCHANGED <<fsm, attr, cur, dur>>
  BY WithoutCloses DEF Ignore

\* A panic is a fall ...
LEMMA PanicFalls ==
    ASSUME NEW e, Opening \/ Opened, Panic(e)
    PROVE  Falls
  BY WithoutCloses DEF Panic, Falls, NewFsm

\* ... and so are a stall ...
LEMMA StallFalls ==
    ASSUME Control, Stall
    PROVE  Falls
  BY DEF Stall, Falls, Confirmed, Opened, Closes, Control, ControlType, FsmRecord

\* ... and a move to Idle, with or without a NOTIFICATION.
LEMMA GoIdleFalls ==
    ASSUME Control, NEW e, NEW n, NEW K, Opening \/ Opened,
           GoIdle(e, n, K) \/ NotifyAndGoIdle(e, n) \/ MaybeNotifyAndGoIdle(e, n, K)
    PROVE  Falls
  <1>1. ASSUME NEW L, GoIdle(e, n, L) PROVE Falls
    BY <1>1, WithoutCloses DEF GoIdle, Falls, IntoIdle, NewFsm
  <1> QED
    BY <1>1, PanicFalls, StallFalls DEF NotifyAndGoIdle, MaybeNotifyAndGoIdle

\* A machine that spawns an attempt is driven by it.
LEMMA SpawnAttemptDrives ==
    ASSUME Control, NEW s \in FsmRecord, NEW dropped, SpawnAttempt(s, dropped)
    PROVE  /\ fsm'.state = s.state
           /\ fsm'.bgp_conn = s.bgp_conn
           /\ Driven'
           /\ Closes
  <1>1. PICK c \in Conn : /\ fsm' = [s EXCEPT !.tcp_conn = c]
                          /\ conn' = [Without(dropped) EXCEPT ![c] = Attempt]
    BY DEF SpawnAttempt
  <1>2. /\ fsm'.state = s.state
        /\ fsm'.bgp_conn = s.bgp_conn
        /\ fsm'.tcp_conn = c
    BY <1>1 DEF FsmRecord
  <1>3. conn'[c].task = "try_tcp_conn" /\ conn'[c].opens = 0
    BY <1>1 DEF Without, Attempt, Gone
  <1>4. \A d \in Conn \ {c} : conn'[d] = conn[d] \/ conn'[d] = Gone
    BY <1>1 DEF Without
  <1>5. Closes
    BY <1>3, <1>4 DEF Closes, Gone
  <1>6. Driven'
    BY <1>2, <1>3, ConnAssumption DEF Driven
  <1> QED BY <1>2, <1>5, <1>6

\* The arms of Idle.
LEMMA IdleEffect ==
    ASSUME Control, NEW e \in Event,
           IdleStart(e) \/ IdleStartPassive(e) \/ IdleOther(e)
    PROVE  Effect(e)
  <1>1. CASE IdleStart(e)
    <2>1. /\ IdleIntoConnect \in FsmRecord
          /\ IdleIntoConnect.state = "Connect"
          /\ IdleIntoConnect.bgp_conn = None
      BY DEF IdleIntoConnect, NewFsm, FsmRecord, StateName
    <2>2. fsm.state = "Idle" /\ SpawnAttempt(IdleIntoConnect, {})
      BY <1>1 DEF IdleStart, In
    <2>3. Begins
      BY <2>1, <2>2, SpawnAttemptDrives DEF Begins, Opening
    <2> QED BY <2>3 DEF Effect
  <1>2. CASE IdleStartPassive(e)
    <2>1. Begins
      BY <1>2 DEF IdleStartPassive, In, Begins, Opening, IdleIntoActive, NewFsm, Closes
    <2> QED BY <2>1 DEF Effect
  <1>3. CASE IdleOther(e)
    BY <1>3, IgnoreCloses DEF IdleOther, Rests, Effect
  <1> QED BY <1>1, <1>2, <1>3

\* Taking a connection into use.
LEMMA TakeConnectionEffect ==
    ASSUME Control, NEW e, e.conn \in Conn, NEW y \in BOOLEAN,
           NEW opened \in FsmRecord, opened.state = "OpenSent",
           opened.local_open = None, NEW recorded \in BOOLEAN,
           Opening, TakeConnection(e, y, opened, recorded)
    PROVE  Adopts(e) \/ Opens(e)
  <1>1. /\ conn'[e.conn].opens = IF DelayOpen THEN 0 ELSE 1
        /\ OthersKept(e.conn)
    BY DEF TakeConnection, Process, OthersKept, Control, ControlType
  <1>2. CASE DelayOpen
    <2>1. fsm'.state = fsm.state /\ fsm'.bgp_conn = e.conn
      BY <1>2 DEF TakeConnection, Control, ControlType, FsmRecord
    <2>2. dur'["DelayOpen"] = DelayOpenTime
      BY <1>2 DEF TakeConnection, Control, ControlType, TimerKind
    <2> QED BY <1>1, <1>2, <2>1, <2>2, OptionAssumption DEF Adopts
  <1>3. CASE ~DelayOpen
    <2>1. fsm'.state = "OpenSent" /\ fsm'.local_open = None
      BY <1>3 DEF TakeConnection, FsmRecord
    <2> QED BY <1>1, <1>3, <2>1 DEF Opens
  <1> QED BY <1>2, <1>3

\* Sending the delayed OPEN on a connection that the new state has kept.
LEMMA SendsOpenConn ==
    ASSUME Control, NEW x, CanSend(x), conn' = [conn EXCEPT ![x].opens = @ + 1]
    PROVE  conn'[x].opens = conn[x].opens + 1 /\ OthersKept(x)
  BY DEF CanSend, OthersKept, Control, ControlType, ConnRecord

\* The peer's OPEN while the DelayOpen timer runs.
LEMMA ConfirmDelayedEffect ==
    ASSUME Control, NEW e \in Event, Opening,
           e.type = "BGPOpenWithDelayOpenTimerRunning",
           NEW s \in FsmRecord, s.state = "OpenConfirm", s.bgp_conn = fsm.bgp_conn,
           ConfirmDelayed(e, s)
    PROVE  SendsOpen(e) \/ Falls
  <1>1. CASE ~CanSend(s.bgp_conn)
    BY <1>1, PanicFalls DEF ConfirmDelayed
  <1>2. CASE CanSend(s.bgp_conn)
    <2>1. e.msg \in PeerOpen
      BY OpenEventMsg DEF OpenEvent
    <2>2. /\ fsm'.state = "OpenConfirm"
          /\ fsm'.bgp_conn = fsm.bgp_conn
          /\ attr'.hold_time = HoldTime(e.msg)
      BY <1>2 DEF ConfirmDelayed, Confirm, FsmRecord, Control, ControlType, AttrType
    <2>3. conn' = [conn EXCEPT ![s.bgp_conn].opens = @ + 1]
      BY <1>2 DEF ConfirmDelayed
    <2>4. /\ conn'[s.bgp_conn].opens = conn[s.bgp_conn].opens + 1
          /\ OthersKept(s.bgp_conn)
      BY <1>2, <2>3, SendsOpenConn
    <2> QED BY <1>2, <2>1, <2>2, <2>4 DEF SendsOpen, Negotiates
  <1> QED BY <1>1, <1>2

\* The arms of Connect.
LEMMA ConnectEffect ==
    ASSUME Control, NEW e \in Event, HandleConnect(e)
    PROVE  Effect(e)
  <1> fsm.state = "Connect" /\ Opening
    BY DEF HandleConnect, Opening, In, ConnectManualStop, ConnectRetryExpires,
           ConnectDelayOpenExpires, ConnectTcpIgnored, ConnectTcpCRAcked,
           ConnectTcpConfirmed, ConnectTcpFails, ConnectOpenDelayed,
           ConnectMsgErr, ConnectNotifyVerErr, ConnectOther
  <1>1. CASE \/ ConnectManualStop(e) \/ ConnectMsgErr(e)
             \/ ConnectNotifyVerErr(e) \/ ConnectOther(e)
    BY <1>1, GoIdleFalls
    DEF ConnectManualStop, ConnectMsgErr, ConnectNotifyVerErr, ConnectOther, Effect
  <1>2. CASE ConnectRetryExpires(e)
    <2>1. /\ fsm'.state = "Connect"
          /\ fsm'.bgp_conn = fsm.bgp_conn
          /\ Driven'
          /\ Closes
      BY <1>2, SpawnAttemptDrives DEF ConnectRetryExpires, Control, ControlType
    <2> QED BY <2>1 DEF Waits, Opening, Effect
  <1>3. CASE ConnectDelayOpenExpires(e)
    <2>1. ~CanSend(ConnectIntoOpenSent(fsm).bgp_conn)
      BY ConnAssumption DEF CanSend, ConnectIntoOpenSent, NewFsm
    <2>2. Panic(e)
      BY <1>3, <2>1 DEF ConnectDelayOpenExpires, OpenDelayed
    <2> QED BY <2>2, PanicFalls DEF Effect
  <1>4. CASE ConnectTcpIgnored(e)
    <2>1. e.type \notin SentTypes["Tcp"] /\ Carried(e) = {}
      BY <1>4 DEF ConnectTcpIgnored, In, SentTypes, Carried, SocketEvent
    <2>2. UNCHANGED <<fsm, dur, conn>>
      BY <1>4, <2>1 DEF ConnectTcpIgnored, Ignore, Without, Control, ControlType
    <2> QED BY <2>1, <2>2 DEF Waits, Opening, Closes, Effect
  <1>5. CASE ConnectTcpCRAcked(e) \/ ConnectTcpConfirmed(e)
    <2>1. /\ ConnectIntoOpenSent(fsm) \in FsmRecord
          /\ ConnectIntoOpenSent(fsm).state = "OpenSent"
          /\ ConnectIntoOpenSent(fsm).local_open = None
      BY DEF ConnectIntoOpenSent, NewFsm, FsmRecord, StateName
    <2>2. e.conn \in Conn
      BY <1>5, SocketEventConn
      DEF ConnectTcpCRAcked, ConnectTcpConfirmed, In, SocketEvent
    <2> QED
      BY <1>5, <2>1, <2>2, TakeConnectionEffect
      DEF ConnectTcpCRAcked, ConnectTcpConfirmed, Effect
  <1>6. CASE ConnectTcpFails(e)
    <2>1. CASE cur["DelayOpen"] = FarFuture
      BY <1>6, <2>1, GoIdleFalls DEF ConnectTcpFails, Effect
    <2>2. CASE cur["DelayOpen"] # FarFuture
      <3>1. fsm'.state = "Active" /\ fsm'.bgp_conn = fsm.bgp_conn
        BY <1>6, <2>2 DEF ConnectTcpFails, ConnectIntoActive, NewFsm
      <3>2. Closes
        BY <1>6, <2>2, WithoutCloses DEF ConnectTcpFails
      <3> QED BY <3>1, <3>2 DEF Waits, Opening, Effect
    <2> QED BY <2>1, <2>2
  <1>7. CASE ConnectOpenDelayed(e)
    <2>1. /\ ConnectIntoOpenConfirm(fsm) \in FsmRecord
          /\ ConnectIntoOpenConfirm(fsm).state = "OpenConfirm"
          /\ ConnectIntoOpenConfirm(fsm).bgp_conn = fsm.bgp_conn
      BY DEF ConnectIntoOpenConfirm, NewFsm, Control, ControlType, FsmRecord,
             StateName
    <2>2. SendsOpen(e) \/ Falls
      BY <1>7, <2>1, ConfirmDelayedEffect DEF ConnectOpenDelayed, In
    <2> QED BY <2>2 DEF Effect
  <1> QED
    BY <1>1, <1>2, <1>3, <1>4, <1>5, <1>6, <1>7 DEF HandleConnect

\* The arms of Active.
LEMMA ActiveEffect ==
    ASSUME Control, NEW e \in Event, HandleActive(e)
    PROVE  Effect(e)
  <1> fsm.state = "Active" /\ Opening
    BY DEF HandleActive, Opening, In, ActiveStart, ActiveManualStop,
           ActiveRetryExpires, ActiveDelayOpenExpires, ActiveTcpIgnored,
           ActiveTcpCRAcked, ActiveTcpConfirmed, ActiveTcpFails,
           ActiveOpenDelayed, ActiveMsgErr, ActiveNotifyVerErr, ActiveOther
  <1>1. CASE ActiveStart(e) \/ ActiveTcpIgnored(e)
    BY <1>1, IgnoreCloses
    DEF ActiveStart, ActiveTcpIgnored, Waits, Opening, Effect
  <1>2. CASE \/ ActiveManualStop(e) \/ ActiveTcpFails(e) \/ ActiveMsgErr(e)
             \/ ActiveNotifyVerErr(e) \/ ActiveOther(e)
    BY <1>2, GoIdleFalls
    DEF ActiveManualStop, ActiveTcpFails, ActiveMsgErr, ActiveNotifyVerErr,
        ActiveOther, Effect
  <1>3. CASE ActiveRetryExpires(e)
    <2>1. /\ ActiveIntoConnect(fsm) \in FsmRecord
          /\ ActiveIntoConnect(fsm).state = "Connect"
          /\ ActiveIntoConnect(fsm).bgp_conn = fsm.bgp_conn
      BY DEF ActiveIntoConnect, NewFsm, Control, ControlType, FsmRecord,
             StateName
    <2>2. /\ fsm'.state = "Connect"
          /\ fsm'.bgp_conn = fsm.bgp_conn
          /\ Driven'
          /\ Closes
      BY <1>3, <2>1, SpawnAttemptDrives DEF ActiveRetryExpires
    <2> QED BY <2>2 DEF Waits, Opening, Effect
  <1>4. CASE ActiveDelayOpenExpires(e)
    <2> DEFINE s == ActiveIntoOpenSent(fsm)
    <2>1. s \in FsmRecord /\ s.state = "OpenSent" /\ s.bgp_conn = fsm.bgp_conn
      BY DEF ActiveIntoOpenSent, NewFsm, Control, ControlType, FsmRecord,
             StateName
    <2>2. CASE ~CanSend(s.bgp_conn)
      BY <1>4, <2>2, PanicFalls DEF ActiveDelayOpenExpires, OpenDelayed, Effect
    <2>3. CASE CanSend(s.bgp_conn)
      <3>1. /\ fsm' = [s EXCEPT !.local_open = LocalOpen]
            /\ conn' = [conn EXCEPT ![s.bgp_conn].opens = @ + 1]
            /\ e.type = "DelayOpenTimerExpires"
        BY <1>4, <2>3 DEF ActiveDelayOpenExpires, OpenDelayed, In
      <3> HIDE DEF s
      <3>2. fsm'.state = "OpenSent" /\ fsm'.bgp_conn = fsm.bgp_conn
        BY <2>1, <3>1 DEF FsmRecord
      <3>3. /\ conn'[s.bgp_conn].opens = conn[s.bgp_conn].opens + 1
            /\ OthersKept(s.bgp_conn)
        BY <2>3, <3>1, SendsOpenConn
      <3> QED BY <2>1, <2>3, <3>1, <3>2, <3>3 DEF SendsOpen, Effect
    <2> QED BY <2>2, <2>3
  <1>5. CASE ActiveTcpCRAcked(e) \/ ActiveTcpConfirmed(e)
    <2> DEFINE s == ActiveIntoOpenSent([fsm EXCEPT !.bgp_conn = e.conn])
    <2>1. e.conn \in Conn
      BY <1>5, SocketEventConn
      DEF ActiveTcpCRAcked, ActiveTcpConfirmed, In, SocketEvent
    <2>2. s \in FsmRecord /\ s.state = "OpenSent" /\ s.local_open = None
      BY <2>1 DEF ActiveIntoOpenSent, NewFsm, Control, ControlType, FsmRecord,
                  StateName
    <2> QED
      BY <1>5, <2>1, <2>2, TakeConnectionEffect
      DEF ActiveTcpCRAcked, ActiveTcpConfirmed, Effect
  <1>6. CASE ActiveOpenDelayed(e)
    <2>1. /\ ActiveIntoOpenConfirm(fsm) \in FsmRecord
          /\ ActiveIntoOpenConfirm(fsm).state = "OpenConfirm"
          /\ ActiveIntoOpenConfirm(fsm).bgp_conn = fsm.bgp_conn
      BY DEF ActiveIntoOpenConfirm, NewFsm, Control, ControlType, FsmRecord,
             StateName
    <2>2. SendsOpen(e) \/ Falls
      BY <1>6, <2>1, ConfirmDelayedEffect DEF ActiveOpenDelayed, In
    <2> QED BY <2>2 DEF Effect
  <1> QED
    BY <1>1, <1>2, <1>3, <1>4, <1>5, <1>6 DEF HandleActive

\* Ignoring, probing a second connection and putting one aside all keep the
\* connection in use.
LEMMA KeepsConnection ==
    ASSUME Control, NEW e, Opened,
           Ignore(e) \/ ProbeCollision(e) \/ HoldCollision(e)
    PROVE  Keeps(e)
  <1>1. CASE Ignore(e)
    BY <1>1, IgnoreCloses DEF Keeps
  <1>2. CASE ProbeCollision(e)
    <2>1. Closes
      BY <1>2 DEF ProbeCollision, ProcessOne, Gone, Closes, Control, ControlType
    <2> QED BY <1>2, <2>1 DEF ProbeCollision, Keeps
  <1>3. CASE HoldCollision(e)
    <2>1. Closes
      BY <1>3, WithoutCloses DEF HoldCollision
    <2> QED
      BY <1>3, <2>1 DEF HoldCollision, Keeps, Control, ControlType, FsmRecord
  <1> QED BY <1>1, <1>2, <1>3

\* A connection put aside that wins becomes the connection in use.
LEMMA ReplacedSwaps ==
    ASSUME Control, NEW e, e.msg \in PeerOpen, PeerWins(e),
           fsm.collision_conn # None, NEW y, NEW n, NEW N, n \in N,
           fsm'.bgp_conn = fsm.collision_conn, conn' = ReplacedConn(y, n)
    PROVE  Swaps(e, N)
  <1>1. fsm.collision_conn \in Conn
    BY DEF Control, ControlType, FsmRecord
  <1> QED
    BY <1>1 DEF Swaps, ReplacedConn, Process, OthersKept, Control, ControlType

\* An OPEN in OpenSent.
LEMMA OpenSentBGPOpenEffect ==
    ASSUME Control, NEW e \in Event, OpenSentBGPOpen(e)
    PROVE  Confirms(e) \/ Falls
  <1> DEFINE collides == fsm.remote_syn # e.remote_syn
             replace == collides /\ PeerWins(e)
             fails == \/ fsm.local_open = None
                      \/ replace /\ fsm.collision_conn = None
                      \/ replace /\ ~CanSend(fsm.bgp_conn)
             resolved == IF replace THEN Replaced
                         ELSE IF collides THEN Dropped ELSE fsm
             s == OpenSentIntoOpenConfirm(resolved)
  <1>1. fsm.state = "OpenSent" /\ e.msg \in PeerOpen
    <2>1. fsm.state = "OpenSent" /\ e.type = "BGPOpen"
      BY DEF OpenSentBGPOpen, In
    <2> QED BY <2>1, OpenEventMsg DEF OpenEvent
  <1>2. CASE fails
    BY <1>1, <1>2, PanicFalls DEF OpenSentBGPOpen, Opened
  <1>3. CASE ~fails
    <2>1. /\ resolved \in FsmRecord
          /\ resolved.bgp_conn = IF replace THEN fsm.collision_conn ELSE fsm.bgp_conn
      BY ResolvedType DEF Control, ControlType
    <2>2. s \in FsmRecord /\ s.state = "OpenConfirm" /\ s.bgp_conn = resolved.bgp_conn
      <3> HIDE DEF resolved
      <3> QED BY <2>1 DEF OpenSentIntoOpenConfirm, FsmRecord, StateName
    <2>3. Confirm(s, e.msg, attr.keepalive_time)
      BY <1>3 DEF OpenSentBGPOpen
    <2>4. /\ fsm'.state = "OpenConfirm"
          /\ fsm'.bgp_conn = resolved.bgp_conn
          /\ Negotiates
      <3> HIDE DEF s, resolved
      <3> QED
        BY <1>1, <2>2, <2>3
        DEF Confirm, Negotiates, FsmRecord, Control, ControlType, AttrType
    <2>5. CASE replace
      <3>1. conn' = ReplacedConn(e.remote_syn, IF e.remote_syn THEN 1 ELSE 0)
        BY <1>3, <2>5 DEF OpenSentBGPOpen
      <3>2. /\ fsm'.bgp_conn = fsm.collision_conn
            /\ fsm.collision_conn # None
            /\ PeerWins(e)
            /\ (IF e.remote_syn THEN 1 ELSE 0) \in {0, 1}
        BY <1>3, <2>1, <2>4, <2>5
      <3>3. Swaps(e, {0, 1})
        BY <1>1, <3>1, <3>2, ReplacedSwaps
      <3> QED BY <1>1, <1>3, <2>4, <3>3 DEF Confirms
    <2>6. CASE ~replace
      <3>1. Closes
        BY <1>3, <2>6, WithoutCloses DEF OpenSentBGPOpen
      <3>2. fsm'.bgp_conn = fsm.bgp_conn
        BY <2>1, <2>4, <2>6
      <3> QED BY <1>1, <1>3, <2>4, <3>1, <3>2 DEF Confirms
    <2> QED BY <2>5, <2>6
  <1> QED BY <1>2, <1>3

\* The arms of OpenSent.
LEMMA OpenSentEffect ==
    ASSUME Control, NEW e \in Event, NEW src, HandleOpenSent(e, src)
    PROVE  Effect(e)
  <1> fsm.state = "OpenSent" /\ Opened
    BY DEF HandleOpenSent, Opened, In, OpenSentStart, OpenSentManualStop,
           OpenSentAutomaticStop, OpenSentHoldExpires, OpenSentTcpIgnored,
           OpenSentTcpCRAcked, OpenSentCollision, OpenSentTcpFails,
           OpenSentBGPOpen, OpenSentMsgErr, OpenSentCollMsgErr,
           OpenSentNotifyVerErr, OpenSentOther
  <1>1. CASE \/ OpenSentStart(e) \/ OpenSentTcpIgnored(e) \/ OpenSentTcpCRAcked(e)
             \/ OpenSentCollision(e) \/ OpenSentCollMsgErr(e, src)
    BY <1>1, KeepsConnection
    DEF OpenSentStart, OpenSentTcpIgnored, OpenSentTcpCRAcked,
        OpenSentCollision, OpenSentCollMsgErr, Effect
  <1>2. CASE \/ OpenSentManualStop(e) \/ OpenSentAutomaticStop(e)
             \/ OpenSentHoldExpires(e) \/ OpenSentMsgErr(e, src)
             \/ OpenSentNotifyVerErr(e) \/ OpenSentOther(e)
    BY <1>2, GoIdleFalls
    DEF OpenSentManualStop, OpenSentAutomaticStop, OpenSentHoldExpires,
        OpenSentMsgErr, OpenSentNotifyVerErr, OpenSentOther, Effect
  <1>3. CASE OpenSentTcpFails(e)
    BY <1>3, WithoutCloses
    DEF OpenSentTcpFails, OpenSentIntoActive, NewFsm, Retreats, Effect
  <1>4. CASE OpenSentBGPOpen(e)
    BY <1>4, OpenSentBGPOpenEffect DEF Effect
  <1> QED BY <1>1, <1>2, <1>3, <1>4 DEF HandleOpenSent

\* An OPEN in OpenConfirm or Established.
LEMMA ConfirmedBGPOpenEffect ==
    ASSUME Control, NEW e \in Event, OpenConfirmBGPOpen(e) \/ EstablishedBGPOpen(e)
    PROVE  Effect(e)
  <1>1. Opened /\ Confirmed /\ e.type = "BGPOpen"
    BY DEF OpenConfirmBGPOpen, EstablishedBGPOpen, In, Opened, Confirmed
  <1>2. CASE Panic(e)
    BY <1>1, <1>2, PanicFalls DEF Effect
  <1>3. CASE /\ fsm.collision_conn # None
             /\ PeerWins(e)
             /\ fsm' = Replaced
             /\ conn' = ReplacedConn(e.remote_syn, 0)
             /\ UNCHANGED <<attr, cur, dur>>
    <2>1. e.msg \in PeerOpen
      BY <1>1, OpenEventMsg DEF OpenEvent
    <2>2. fsm'.state = fsm.state /\ fsm'.bgp_conn = fsm.collision_conn
      BY <1>3, ResolvedType
    <2>3. Swaps(e, {0})
      BY <1>3, <2>1, <2>2, ReplacedSwaps
    <2> QED BY <1>1, <1>3, <2>2, <2>3 DEF Replaces, Effect
  <1>4. CASE /\ fsm' = Dropped
             /\ conn' = Without({fsm.collision_conn})
             /\ UNCHANGED <<attr, cur, dur>>
    BY <1>1, <1>4, ResolvedType, WithoutCloses DEF Keeps, Effect
  <1>5. CASE Stall
    BY <1>5, StallFalls DEF Effect
  <1> QED
    BY <1>2, <1>3, <1>4, <1>5 DEF OpenConfirmBGPOpen, EstablishedBGPOpen

\* The arms of OpenConfirm.
LEMMA OpenConfirmEffect ==
    ASSUME Control, NEW e \in Event, NEW src, HandleOpenConfirm(e, src)
    PROVE  Effect(e)
  <1> fsm.state = "OpenConfirm" /\ Opened
    BY DEF HandleOpenConfirm, Opened, In, OpenConfirmStart,
           OpenConfirmManualStop, OpenConfirmAutomaticStop,
           OpenConfirmHoldExpires, OpenConfirmKeepaliveExpires,
           OpenConfirmTcpIgnored, OpenConfirmTcpCRAcked, OpenConfirmCollision,
           OpenConfirmTcpFails, OpenConfirmNotifyVerErr, OpenConfirmBGPOpen,
           OpenConfirmMsgErr, OpenConfirmCollMsgErr, OpenConfirmCollisionDump,
           OpenConfirmKeepaliveMsg, OpenConfirmOther
  <1>1. CASE \/ OpenConfirmStart(e) \/ OpenConfirmTcpIgnored(e)
             \/ OpenConfirmTcpCRAcked(e) \/ OpenConfirmCollision(e)
             \/ OpenConfirmCollMsgErr(e, src) \/ OpenConfirmCollisionDump(e)
    BY <1>1, KeepsConnection
    DEF OpenConfirmStart, OpenConfirmTcpIgnored, OpenConfirmTcpCRAcked,
        OpenConfirmCollision, OpenConfirmCollMsgErr, OpenConfirmCollisionDump,
        Effect
  <1>2. CASE \/ OpenConfirmManualStop(e) \/ OpenConfirmAutomaticStop(e)
             \/ OpenConfirmHoldExpires(e) \/ OpenConfirmTcpFails(e)
             \/ OpenConfirmNotifyVerErr(e) \/ OpenConfirmMsgErr(e, src)
             \/ OpenConfirmOther(e)
    BY <1>2, GoIdleFalls
    DEF OpenConfirmManualStop, OpenConfirmAutomaticStop, OpenConfirmHoldExpires,
        OpenConfirmTcpFails, OpenConfirmNotifyVerErr, OpenConfirmMsgErr,
        OpenConfirmOther, Effect
  <1>3. CASE OpenConfirmKeepaliveExpires(e)
    BY <1>3, KeepsConnection, PanicFalls, StallFalls
    DEF OpenConfirmKeepaliveExpires, SendKeepalive, Effect
  <1>4. CASE OpenConfirmBGPOpen(e)
    BY <1>4, ConfirmedBGPOpenEffect
  <1>5. CASE OpenConfirmKeepaliveMsg(e)
    <2>1. /\ fsm'.state = "Established"
          /\ fsm'.local_open = fsm.local_open
          /\ fsm'.bgp_conn = fsm.bgp_conn
      BY <1>5 DEF OpenConfirmKeepaliveMsg, OpenConfirmIntoEstablished, Control,
                  ControlType, FsmRecord
    <2> QED
      BY <1>5, <2>1 DEF OpenConfirmKeepaliveMsg, In, Keeps, Closes, Effect
  <1> QED BY <1>1, <1>2, <1>3, <1>4, <1>5 DEF HandleOpenConfirm

\* The arms of Established.
LEMMA EstablishedEffect ==
    ASSUME Control, NEW e \in Event, HandleEstablished(e)
    PROVE  Effect(e)
  <1> fsm.state = "Established" /\ Opened
    BY DEF HandleEstablished, Opened, In, EstablishedStart,
           EstablishedManualStop, EstablishedAutomaticStop,
           EstablishedHoldExpires, EstablishedKeepaliveExpires,
           EstablishedTcpIgnored, EstablishedTcpCRAcked, EstablishedCollision,
           EstablishedBGPOpen, EstablishedDown, EstablishedReceives,
           EstablishedUpdateErr, EstablishedOther
  <1>1. CASE \/ EstablishedStart(e) \/ EstablishedTcpIgnored(e)
             \/ EstablishedTcpCRAcked(e) \/ EstablishedCollision(e)
             \/ EstablishedReceives(e)
    BY <1>1, KeepsConnection
    DEF EstablishedStart, EstablishedTcpIgnored, EstablishedTcpCRAcked,
        EstablishedCollision, EstablishedReceives, Effect
  <1>2. CASE \/ EstablishedManualStop(e) \/ EstablishedAutomaticStop(e)
             \/ EstablishedHoldExpires(e) \/ EstablishedDown(e)
             \/ EstablishedUpdateErr(e) \/ EstablishedOther(e)
    BY <1>2, GoIdleFalls
    DEF EstablishedManualStop, EstablishedAutomaticStop, EstablishedHoldExpires,
        EstablishedDown, EstablishedUpdateErr, EstablishedOther, Effect
  <1>3. CASE EstablishedKeepaliveExpires(e)
    BY <1>3, KeepsConnection, PanicFalls, StallFalls
    DEF EstablishedKeepaliveExpires, SendKeepalive, Effect
  <1>4. CASE EstablishedBGPOpen(e)
    BY <1>4, ConfirmedBGPOpenEffect
  <1> QED BY <1>1, <1>2, <1>3, <1>4 DEF HandleEstablished

\* Every match arm of run has one of the effects.
LEMMA HandleEffect ==
    ASSUME Control, NEW e \in Event, NEW src, Handle(e, src)
    PROVE  Effect(e)
  BY IdleEffect, ConnectEffect, ActiveEffect, OpenSentEffect,
     OpenConfirmEffect, EstablishedEffect
  DEF Handle

(***************************************************************************)
(* The effects preserve the invariant                                      *)
(***************************************************************************)
\* What the channels grant of the event e that an arm handles: a DelayOpen
\* timer is needed for the one, a command for the other.
Legitimate(e) ==
    /\ e.type \in {"DelayOpenTimerExpires", "BGPOpenWithDelayOpenTimerRunning"}
         => DelayOpen
    /\ e.type = "KeepaliveMsg" => "KeepaliveMsg" \in AdminEvent

\* Steps that leave the machine alone and start no process task.
LEMMA ClosesHandshake ==
    ASSUME Control, Handshake, fsm' = fsm, Closes
    PROVE  Handshake'
  <1>1. OneOpenPerConnection'
    BY DEF Handshake, OneOpenPerConnection, Closes
  <1>2. Unsent'
    BY DEF Handshake, Unsent, Closes, Control, ControlType, FsmRecord
  <1>3. SentOnce'
    BY DEF Handshake, SentOnce, LocalWins, CanSend, Confirmed, Closes
  <1> QED
    BY <1>1, <1>2, <1>3
    DEF Handshake, Undelayed, PeerCannotEstablish, Confirmed

\* The local identifier is not the lower one if it wins every collision.
LEMMA LocalWinsNoSwap ==
    ASSUME LocalWins, NEW e, NEW N
    PROVE  ~Swaps(e, N)
  BY OpenAssumption DEF LocalWins, Swaps, PeerWins, OpenMsg

\* No connection is sent a second OPEN.
LEMMA EffectOneOpen ==
    ASSUME Control, Handshake, NEW e, Effect(e)
    PROVE  OneOpenPerConnection'
  <1>1. \A c \in Conn : conn[c].opens \in Nat /\ conn[c].opens <= 1
    BY DEF Control, ControlType, ConnRecord, Handshake, OneOpenPerConnection
  <1>2. CASE Closes
    BY <1>1, <1>2 DEF Closes, OneOpenPerConnection
  <1>3. CASE Adopts(e) \/ Opens(e)
    BY <1>1, <1>3 DEF Adopts, Opens, OthersKept, OneOpenPerConnection
  <1>4. CASE SendsOpen(e)
    <2>1. conn[fsm.bgp_conn].opens = 0
      BY <1>4, CanSendType DEF SendsOpen, Handshake, Unsent, Opening
    <2> QED
      BY <1>1, <1>4, <2>1 DEF SendsOpen, CanSend, OthersKept, OneOpenPerConnection
  <1>5. CASE Swaps(e, {0, 1}) \/ Swaps(e, {0})
    BY <1>1, <1>5 DEF Swaps, OthersKept, OneOpenPerConnection
  <1> QED
    BY <1>2, <1>3, <1>4, <1>5
    DEF Effect, Rests, Begins, Falls, Waits, Retreats, Confirms, Keeps, Replaces

\* A connection taken into use has not been sent an OPEN before.
LEMMA EffectUnsent ==
    ASSUME Control, Control', Handshake, NEW e, Effect(e)
    PROVE  Unsent'
  <1>1. CASE Waits(e)
    BY <1>1 DEF Waits, Opening, Closes, Handshake, Unsent, Control, ControlType,
                FsmRecord
  <1>2. CASE Adopts(e)
    BY <1>2 DEF Adopts, Unsent
  <1>3. CASE ~Waits(e) /\ ~Adopts(e)
    BY <1>3
    DEF Effect, Rests, Begins, Falls, Opens, SendsOpen, Retreats, Confirms,
        Keeps, Replaces, Opened, Confirmed, Unsent
  <1> QED BY <1>1, <1>2, <1>3

\* A machine that knows its local OPEN has sent it.
LEMMA EffectSentOnce ==
    ASSUME Control, Handshake, NEW e, Effect(e)
    PROVE  SentOnce'
  <1> SUFFICES ASSUME LocalWins, CanSend(fsm.bgp_conn)',
                      \/ Confirmed'
                      \/ (fsm.state = "OpenSent" /\ fsm.local_open # None)'
               PROVE  conn'[fsm'.bgp_conn].opens = 1
    BY DEF SentOnce, LocalWins
  <1>1. CASE SendsOpen(e)
    <2>1. conn[fsm.bgp_conn].opens = 0
      BY <1>1, CanSendType DEF SendsOpen, Handshake, Unsent, Opening
    <2> QED BY <1>1, <2>1 DEF SendsOpen
  <1>2. CASE Confirms(e) \/ Keeps(e)
    <2>1. /\ fsm'.bgp_conn = fsm.bgp_conn
          /\ Closes
          /\ Confirmed \/ (fsm.state = "OpenSent" /\ fsm.local_open # None)
      BY <1>2, LocalWinsNoSwap DEF Confirms, Keeps, Opened, Confirmed
    <2>2. /\ conn'[fsm.bgp_conn].task = conn[fsm.bgp_conn].task
          /\ conn'[fsm.bgp_conn].opens = conn[fsm.bgp_conn].opens
          /\ CanSend(fsm.bgp_conn)
      BY <2>1 DEF Closes, CanSend
    <2> QED BY <2>1, <2>2 DEF Handshake, SentOnce, Confirmed
  <1>3. CASE ~SendsOpen(e) /\ ~Confirms(e) /\ ~Keeps(e)
    <2>1. ~Replaces(e)
      BY LocalWinsNoSwap DEF Replaces
    <2> QED
      BY <1>3, <2>1
      DEF Effect, Rests, Begins, Falls, Waits, Adopts, Opens, Retreats,
          Opening, Confirmed
  <1> QED BY <1>1, <1>2, <1>3

\* Without DelayOpen no effect confirms the session.
LEMMA EffectUndelayed ==
    ASSUME Handshake, NEW e, Legitimate(e), Effect(e)
    PROVE  Undelayed'
  <1> SUFFICES ASSUME ~DelayOpen
               PROVE  ~Confirmed' /\ (fsm'.state = "OpenSent" => fsm'.local_open = None)
    BY DEF Undelayed
  <1>1. ~Confirmed /\ (fsm.state = "OpenSent" => fsm.local_open = None)
    BY DEF Handshake, Undelayed
  <1>2. ~Adopts(e) /\ ~SendsOpen(e) /\ ~Confirms(e) /\ ~Replaces(e)
    BY <1>1 DEF Adopts, SendsOpen, Confirms, Replaces, Legitimate
  <1> QED
    BY <1>1, <1>2
    DEF Effect, Rests, Begins, Falls, Waits, Opens, Retreats, Keeps, Opening,
        Opened, Confirmed

\* Only a KEEPALIVE event leads to Established.
LEMMA EffectEstablished ==
    ASSUME Handshake, NEW e, Legitimate(e), Effect(e)
    PROVE  PeerCannotEstablish'
  BY DEF Handshake, PeerCannotEstablish, Legitimate, Effect, Rests, Begins,
         Falls, Waits, Adopts, Opens, SendsOpen, Retreats, Confirms, Keeps,
         Replaces, Opening, Opened, Confirmed

\* The invariant of the handshake is preserved by every arm.
LEMMA EffectHandshake ==
    ASSUME Control, Control', Handshake, NEW e, Legitimate(e), Effect(e)
    PROVE  Handshake'
  BY EffectOneOpen, EffectUnsent, EffectSentOnce, EffectUndelayed,
     EffectEstablished
  DEF Handshake

(***************************************************************************)
(* The steps of run                                                        *)
(***************************************************************************)
\* The event at the head of a channel is one that its senders send.
LEMMA HeadSent ==
    ASSUME Traffic, NEW src \in Source, chan[src] # <<>>
    PROVE  /\ Head(chan[src]) \in Event
           /\ Head(chan[src]).type \in SentTypes[src]
           /\ Tail(chan[src]) \in Seq(Sent(src))
  <1>1. chan[src] \in Seq(Sent(src))
    BY DEF Traffic
  <1>2. Head(chan[src]) \in Sent(src) /\ Tail(chan[src]) \in Seq(Sent(src))
    BY <1>1
  <1> QED BY <1>2 DEF Sent

\* An expiry in flight is one of a timer the session may use.
LEMMA TimerSentType ==
    ASSUME NEW t \in SentTypes["Timer"]
    PROVE  /\ t \in {Expiry[k] : k \in TimerKind}
           /\ t = "DelayOpenTimerExpires" => DelayOpen
  BY DEF SentTypes, Expiry, TimerKind

\* The channels deliver legitimate events only.
LEMMA RunLegitimate ==
    ASSUME IInv, Traffic, NEW src \in Source, chan[src] # <<>>
    PROVE  Legitimate(Adapt(Head(chan[src]), src))
  <1> DEFINE h == Head(chan[src])
             e == Adapt(h, src)
  <1>1. h \in Event /\ h.type \in SentTypes[src]
    BY HeadSent
  <1>2. /\ h.type # "KeepaliveMsg" /\ h.type # "BGPOpenWithDelayOpenTimerRunning"
        /\ h.type = "DelayOpenTimerExpires" => DelayOpen
    <2>1. CASE src = "Timer"
      BY <1>1, <2>1, TimerSentType DEF Expiry, TimerKind
    <2>2. CASE src # "Timer"
      BY <1>1, <2>2 DEF SentTypes, Source, MsgErr
    <2> QED BY <2>1, <2>2
  <1>3. CASE e = h
    BY <1>2, <1>3 DEF Legitimate
  <1>4. CASE cur["DelayOpen"] # FarFuture /\ e = [h EXCEPT !.type = "BGPOpenWithDelayOpenTimerRunning"]
    <2>1. dur["DelayOpen"] # FarFuture
      BY <1>4 DEF IInv, Control, TimerInv, TimerBelief, TimerKind
    <2>2. DelayOpen
      BY <2>1 DEF IInv, Control, TimerInv, DelayOpenRecorded
    <2>3. e.type = "BGPOpenWithDelayOpenTimerRunning"
      BY <1>1, <1>4 DEF Event
    <2> QED BY <2>2, <2>3 DEF Legitimate
  <1> QED BY <1>3, <1>4 DEF Adapt

\* Orders of run make no timer late that it may not use.
LEMMA LagTraffic ==
    ASSUME IInv, Traffic, Lag
    PROVE  "DelayOpen" \in late' => DelayOpen
  BY DEF Lag, Traffic, IInv, Control, TimerInv, DelayOpenRecorded

\* What leads to Connect, or stays in it, has a reason to go on.
LEMMA EffectStranded ==
    ASSUME NEW e, Effect(e), fsm'.state = "Connect"
    PROVE  \/ Driven'
           \/ /\ fsm.state = "Connect"
              /\ UNCHANGED <<fsm, dur, conn>>
              /\ e.type \notin SentTypes["Tcp"]
  BY DEF Effect, Rests, Begins, Falls, Waits, Adopts, Opens, SendsOpen,
         Retreats, Confirms, Keeps, Replaces, Opening, Opened, Confirmed, Driven

\* A step of the loop of run.
LEMMA RunSafe ==
    ASSUME IInv, IInv', Safety, NEW src \in Source, Run(src)
    PROVE  Safety'
  <1> DEFINE e == Adapt(Head(chan[src]), src)
  <1>1. chan[src] # <<>> /\ Traffic
    BY DEF Run, Safety
  <1>2. /\ Head(chan[src]) \in Event
        /\ Head(chan[src]).type \in SentTypes[src]
        /\ Tail(chan[src]) \in Seq(Sent(src))
    BY <1>1, HeadSent
  <1>3. e \in Event
    BY <1>2, AdaptType
  <1>4. Effect(e)
    BY <1>3, HandleEffect DEF Run, IInv
  <1>5. Handshake'
    BY <1>1, <1>4, RunLegitimate, EffectHandshake DEF Safety, IInv
  <1>6. chan' = [chan EXCEPT ![src] = Tail(chan[src])] /\ chan \in [Source -> Seq(Event)]
    BY DEF Run, IInv, Queues
  <1>7. Traffic'
    <2>1. \A s \in Source : chan'[s] \in Seq(Sent(s))
      BY <1>1, <1>2, <1>6 DEF Traffic
    <2> QED BY <1>1, <2>1, LagTraffic DEF Traffic, Run
  <1>8. ConnectNeverStranded'
    <2> SUFFICES ASSUME fsm'.state = "Connect", ~Driven'
                 PROVE  chan'["Tcp"] # <<>>
      BY DEF ConnectNeverStranded, Driven
    <2>1. /\ fsm.state = "Connect"
          /\ UNCHANGED <<fsm, dur, conn>>
          /\ e.type \notin SentTypes["Tcp"]
      BY <1>4, EffectStranded
    <2>2. chan["Tcp"] # <<>>
      BY <2>1 DEF Safety, ConnectNeverStranded, Driven
    <2>3. src # "Tcp"
      BY <1>2, <2>1 DEF Adapt
    <2> QED BY <1>6, <2>2, <2>3 DEF Source
  <1> QED BY <1>5, <1>7, <1>8 DEF Safety

\* A command on the admin channel.
LEMMA RunAdminSafe ==
    ASSUME IInv, IInv', Safety, NEW t \in AdminEvent, RunAdmin(t)
    PROVE  Safety'
  <1>1. Ev(t) \in Event /\ Ev(t).type = t /\ t \in PlainEvent
    BY AdminAssumption, EventTypes DEF BareEvent, Ev
  <1>2. Effect(Ev(t))
    BY <1>1, HandleEffect DEF RunAdmin, IInv
  <1>3. Legitimate(Ev(t))
    BY <1>1 DEF Legitimate, PlainEvent, StartEvent
  <1>4. Handshake'
    BY <1>2, <1>3, EffectHandshake DEF Safety, IInv
  <1>5. Traffic'
    BY LagTraffic DEF RunAdmin, Safety, Traffic
  <1>6. ConnectNeverStranded'
    BY <1>2, EffectStranded DEF RunAdmin, Safety, ConnectNeverStranded, Driven
  <1> QED BY <1>4, <1>5, <1>6 DEF Safety

(***************************************************************************)
(* The steps of the other tasks                                            *)
(***************************************************************************)
\* Sending what a channel carries keeps it so, and the machine as it is.
LEMMA SendTraffic ==
    ASSUME Queues, Traffic, NEW src \in Source, NEW es \in Seq(Sent(src)),
           Send(src, es)
    PROVE  /\ Traffic'
           /\ UNCHANGED <<fsm, attr, cur, dur, late>>
           /\ \A s \in Source : chan'[s] = IF s = src THEN chan[s] \o es ELSE chan[s]
  <1>1. chan[src] \o es \in Seq(Sent(src))
    BY DEF Traffic
  <1>2. \A s \in Source : chan'[s] = IF s = src THEN chan[s] \o es ELSE chan[s]
    BY DEF Send, Queues
  <1> QED BY <1>1, <1>2 DEF Send, Traffic

\* The events the tasks send are among those of their channels.
LEMMA SentEvents ==
    ASSUME NEW c \in Conn
    PROVE  /\ EvConn("TcpCRAcked", c) \in Sent("Tcp")
           /\ EvConn("TcpConnectionFails", c) \in Sent("Tcp")
           /\ EvConn("TcpConnectionConfirmed", c) \in Sent("Admin")
           /\ EvConn("ProcessOneDone", c) \in Sent("Coll")
           /\ Ev("UpdateMsg") \in Sent("Bgp")
           /\ \A t \in MsgErr : EvConn(t, c) \in Sent("Bgp") /\ Ev(t) \in Sent("Coll")
           /\ \A m \in PeerOpen, y \in BOOLEAN :
                 /\ EvOpen(c, m, y) \in Sent("Admin")
                 /\ EvOpen(c, m, y) \in Sent("Bgp")
                 /\ EvOpen(c, m, y) \in Sent("Coll")
  <1>1. /\ EvConn("TcpCRAcked", c) \in Event
        /\ EvConn("TcpConnectionFails", c) \in Event
        /\ EvConn("TcpConnectionConfirmed", c) \in Event
        /\ EvConn("ProcessOneDone", c) \in Event
        /\ Ev("UpdateMsg") \in Event
        /\ \A t \in MsgErr : EvConn(t, c) \in Event /\ Ev(t) \in Event
        /\ \A m \in PeerOpen, y \in BOOLEAN : EvOpen(c, m, y) \in Event
    BY EventTypes DEF SocketEvent, BareEvent
  <1>2. /\ \A t : Ev(t).type = t /\ EvConn(t, c).type = t
        /\ \A m, y : EvOpen(c, m, y).type = "BGPOpen"
    BY DEF Ev, EvConn, EvOpen
  <1> QED BY <1>1, <1>2 DEF Sent, SentTypes, MsgErr

\* A task that ends leaves a socket or nothing.
LEMMA SocketCloses ==
    ASSUME conn \in [Conn -> ConnRecord], NEW c \in Conn,
           \/ \E p \in BOOLEAN : conn' = [conn EXCEPT ![c] = Socket(p)]
           \/ conn' = [conn EXCEPT ![c] = Gone]
    PROVE  Closes /\ \A d \in Conn \ {c} : conn'[d] = conn[d]
  <1>1. conn'[c].task # "process" /\ conn'[c].opens = 0
    <2>1. Gone.task = "none" /\ Gone.opens = 0
      BY DEF Gone
    <2>2. \A p \in BOOLEAN : Socket(p).task = "socket" /\ Socket(p).opens = 0
      BY DEF Socket, Gone
    <2>3. conn'[c] = Gone \/ \E p \in BOOLEAN : conn'[c] = Socket(p)
      OBVIOUS
    <2> QED BY <2>1, <2>2, <2>3
  <1>2. \A d \in Conn \ {c} : conn'[d] = conn[d]
    OBVIOUS
  <1> QED BY <1>1, <1>2 DEF Closes

\* An attempt reports its end to the Tcp channel.
LEMMA TryTcpConnSafe ==
    ASSUME IInv, Safety, NEW c \in Conn, TryTcpConn(c)
    PROVE  Safety'
  <1>1. PICK x \in Sent("Tcp") : Send("Tcp", <<x>>)
    BY SentEvents DEF TryTcpConn
  <1>2. <<x>> \in Seq(Sent("Tcp")) /\ "Tcp" \in Source
    BY DEF Source
  <1>3. /\ Traffic'
        /\ fsm' = fsm
        /\ chan'["Tcp"] = chan["Tcp"] \o <<x>>
    BY <1>1, <1>2, SendTraffic DEF IInv, Safety
  <1>4. chan'["Tcp"] # <<>>
    BY <1>2, <1>3 DEF Safety, Traffic
  <1>5. Closes
    <2>1. \/ conn' = [conn EXCEPT ![c] = Socket(FALSE)]
          \/ conn' = [conn EXCEPT ![c] = Gone]
      BY DEF TryTcpConn
    <2> QED BY <2>1, SocketCloses DEF IInv, Control, ControlType
  <1> QED
    BY <1>3, <1>4, <1>5, ClosesHandshake
    DEF IInv, Safety, ConnectNeverStranded

\* A step that leaves the machine and the Tcp channel's events alone and
\* ends no attempt strands nobody.
LEMMA AttemptKept ==
    ASSUME IInv, ConnectNeverStranded, UNCHANGED <<fsm, dur>>,
           \A c \in Conn : conn[c].task = "try_tcp_conn"
                              => c # fsm.tcp_conn \/ conn'[c].task = "try_tcp_conn",
           chan["Tcp"] # <<>> => chan'["Tcp"] # <<>>
    PROVE  ConnectNeverStranded'
  BY DEF ConnectNeverStranded, IInv, Control, ControlType, FsmRecord

\* The listener, process and process_one.
LEMMA TaskSafe ==
    ASSUME IInv, Safety, NEW c \in Conn,
           \/ \E m \in PeerOpen : ProcessPassive(c, m)
           \/ ProcessReads(c)
           \/ ProcessReadFails(c)
           \/ ProcessOutClosed(c)
           \/ ProcessOneReads(c)
           \/ ProcessOneSendsOpen(c)
    PROVE  Safety'
  <1>1. /\ conn \in [Conn -> ConnRecord]
        /\ owed \in [Conn -> PeerOpen \cup {None}]
        /\ conn[c].remote_syn \in BOOLEAN
    BY DEF IInv, Control, ControlType, Queues, ConnRecord
  <1>2. /\ Closes
        /\ \A d \in Conn : conn[d].task = "try_tcp_conn"
                              => d # fsm.tcp_conn \/ conn'[d].task = "try_tcp_conn"
    <2>1. CASE \E m \in PeerOpen : ProcessPassive(c, m)
      <3>1. conn' = [conn EXCEPT ![c] = Socket(TRUE)] /\ c # fsm.tcp_conn
        BY <2>1 DEF ProcessPassive, Fresh
      <3> QED BY <1>1, <3>1, SocketCloses
    <2>2. CASE ProcessReads(c)
      <3>1. conn' = [conn EXCEPT ![c].peer = TRUE] \/ conn' = conn
        BY <2>2 DEF ProcessReads
      <3> QED BY <1>1, <3>1 DEF Closes, ConnRecord
    <2>3. CASE ProcessReadFails(c) \/ ProcessOutClosed(c)
      <3>1. conn[c].task = "process" /\ conn' = [conn EXCEPT ![c] = Gone]
        BY <2>3 DEF ProcessReadFails, ProcessOutClosed
      <3> QED BY <1>1, <3>1, SocketCloses
    <2>4. CASE ProcessOneReads(c)
      <3>1. /\ conn[c].task = "process_one"
            /\ \/ conn' = [conn EXCEPT ![c] = Socket(TRUE)]
               \/ conn' = [conn EXCEPT ![c] = Gone]
        BY <2>4 DEF ProcessOneReads
      <3> QED BY <1>1, <3>1, SocketCloses
    <2>5. CASE ProcessOneSendsOpen(c)
      BY <2>5 DEF ProcessOneSendsOpen, Closes
    <2> QED BY <2>1, <2>2, <2>3, <2>4, <2>5
  <1>3. \/ UNCHANGED <<fsm, dur, late, chan>>
        \/ \E src \in {"Admin", "Bgp", "Coll"} :
              \E es \in Seq(Sent(src)) : Send(src, es)
    <2>1. CASE \E m \in PeerOpen : ProcessPassive(c, m)
      <3>1. PICK m \in PeerOpen : ProcessPassive(c, m)
        BY <2>1
      <3> DEFINE a == EvConn("TcpConnectionConfirmed", c)
                 o == EvOpen(c, m, TRUE)
      <3>2. a \in Sent("Admin") /\ o \in Sent("Admin")
        BY SentEvents
      <3>3. Send("Admin", <<a, o>>)
        BY <3>1 DEF ProcessPassive
      <3> HIDE DEF a, o
      <3>4. <<a, o>> \in Seq(Sent("Admin"))
        BY <3>2
      <3> QED BY <3>3, <3>4
    <2>2. CASE ProcessReads(c)
      <3>1. PICK x \in Sent("Bgp") : Send("Bgp", <<x>>)
        BY <1>1, <2>2, SentEvents DEF ProcessReads
      <3>2. <<x>> \in Seq(Sent("Bgp"))
        OBVIOUS
      <3> QED BY <3>1, <3>2
    <2>3. CASE ProcessReadFails(c) \/ ProcessOutClosed(c)
      BY <2>3 DEF ProcessReadFails, ProcessOutClosed
    <2>4. CASE ProcessOneReads(c)
      <3>1. CASE Send("Coll", <<>>)
        <4>1. <<>> \in Seq(Sent("Coll"))
          OBVIOUS
        <4> QED BY <3>1, <4>1
      <3>2. CASE \E x \in Sent("Coll") : Send("Coll", <<x>>)
        <4>1. PICK x \in Sent("Coll") : Send("Coll", <<x>>)
          BY <3>2
        <4>2. <<x>> \in Seq(Sent("Coll"))
          OBVIOUS
        <4> QED BY <4>1, <4>2
      <3> QED BY <2>4, <3>1, <3>2, SentEvents DEF ProcessOneReads
    <2>5. CASE ProcessOneSendsOpen(c)
      <3>1. owed[c] \in PeerOpen
        BY <1>1, <2>5 DEF ProcessOneSendsOpen
      <3> DEFINE o == EvOpen(c, owed[c], FALSE)
      <3>2. o \in Sent("Coll")
        BY <3>1, SentEvents
      <3>3. Send("Coll", <<o>>)
        BY <2>5 DEF ProcessOneSendsOpen
      <3> HIDE DEF o
      <3>4. <<o>> \in Seq(Sent("Coll"))
        BY <3>2
      <3> QED BY <3>3, <3>4
    <2> QED BY <2>1, <2>2, <2>3, <2>4, <2>5
  <1>4. Traffic' /\ UNCHANGED <<fsm, dur>> /\ chan'["Tcp"] = chan["Tcp"]
    <2>1. CASE UNCHANGED <<fsm, dur, late, chan>>
      BY <2>1 DEF Safety, Traffic
    <2>2. ASSUME NEW src \in {"Admin", "Bgp", "Coll"}, NEW es \in Seq(Sent(src)),
                 Send(src, es)
          PROVE  Traffic' /\ UNCHANGED <<fsm, dur>> /\ chan'["Tcp"] = chan["Tcp"]
      BY <2>2, SendTraffic DEF IInv, Safety, Source
    <2> QED BY <1>3, <2>1, <2>2
  <1> QED
    BY <1>2, <1>4, ClosesHandshake, AttemptKept DEF IInv, Safety

\* An expiry of a timer task.
LEMMA TimerExpiresSafe ==
    ASSUME IInv, Safety, NEW k \in TimerKind, TimerExpires(k)
    PROVE  Safety'
  <1>1. k = "DelayOpen" => DelayOpen
    BY DEF TimerExpires, Safety, Traffic, IInv, Control, TimerInv, DelayOpenRecorded
  <1>2. Expiry[k] \in SentTypes["Timer"]
    BY <1>1 DEF SentTypes
  <1>3. Ev(Expiry[k]) \in Event /\ Ev(Expiry[k]).type = Expiry[k]
    BY ExpiryType, EventTypes DEF Ev
  <1> DEFINE x == Ev(Expiry[k])
  <1>4. x \in Sent("Timer")
    BY <1>2, <1>3 DEF Sent
  <1>5. Send("Timer", <<x>>) /\ conn' = conn
    BY DEF TimerExpires
  <1> HIDE DEF x
  <1>6. <<x>> \in Seq(Sent("Timer"))
    BY <1>4
  <1>7. Traffic' /\ UNCHANGED <<fsm, dur>> /\ chan'["Tcp"] = chan["Tcp"]
    BY <1>5, <1>6, SendTraffic DEF IInv, Safety, Source
  <1> QED
    BY <1>5, <1>7, ClosesHandshake, AttemptKept DEF IInv, Safety, Closes

(***************************************************************************)
(* The theorems                                                            *)
(***************************************************************************)
\* A new session satisfies the invariant.
LEMMA InitSafe == Init => Safety
  <1> SUFFICES ASSUME Init PROVE Safety
    OBVIOUS
  <1>1. fsm.state = "Idle" /\ \A c \in Conn : conn[c].opens = 0
    BY DEF Init, NewFsm, Gone
  <1>2. Traffic
    BY DEF Init, Traffic
  <1> QED
    BY <1>1, <1>2
    DEF Safety, Handshake, OneOpenPerConnection, Unsent, SentOnce, Undelayed,
        PeerCannotEstablish, ConnectNeverStranded, Confirmed

\* Every step preserves the invariant.
LEMMA NextSafe == IInv /\ IInv' /\ Safety /\ [Next]_vars => Safety'
  <1> SUFFICES ASSUME IInv, IInv', Safety, [Next]_vars PROVE Safety'
    OBVIOUS
  <1>1. CASE \E src \in Source : Run(src)
    BY <1>1, RunSafe
  <1>2. CASE \E t \in AdminEvent : RunAdmin(t)
    BY <1>2, RunAdminSafe
  <1>3. ASSUME NEW c \in Conn,
               \/ TryTcpConn(c)
               \/ \E m \in PeerOpen : ProcessPassive(c, m)
               \/ ProcessReads(c)
               \/ ProcessReadFails(c)
               \/ ProcessOutClosed(c)
               \/ ProcessOneReads(c)
               \/ ProcessOneSendsOpen(c)
        PROVE  Safety'
    BY <1>3, TryTcpConnSafe, TaskSafe
  <1>4. ASSUME NEW k \in TimerKind, TimerExpires(k) PROVE Safety'
    BY <1>4, TimerExpiresSafe
  <1>5. CASE UNCHANGED vars \/ \E k \in TimerKind : TimerCatchesUp(k)
    <2>1. UNCHANGED <<fsm, dur, conn, chan>> /\ late' \subseteq late
      BY <1>5 DEF vars, TimerCatchesUp
    <2>2. Traffic' /\ Closes
      BY <2>1 DEF Safety, Traffic, Closes
    <2> QED
      BY <2>1, <2>2, ClosesHandshake, AttemptKept DEF IInv, Safety
  <1> QED BY <1>1, <1>2, <1>3, <1>4, <1>5 DEF Next

\* The invariant holds in every reachable state.
THEOREM SafetyInvariance == Spec => []Safety
  BY Invariance, InitSafe, NextSafe, PTL DEF Spec

\* No connection is sent two OPENs.
THEOREM OpensSentOnce == Spec => []OneOpenPerConnection
  <1>1. Safety => OneOpenPerConnection
    BY DEF Safety, Handshake
  <1> QED BY <1>1, SafetyInvariance, PTL

\* A confirmed session that loses no collision has sent its OPEN on the
\* connection on which it sends KEEPALIVEs.
THEOREM OpenBeforeKeepalive == Spec => []OpenPrecedesKeepalive
  <1>1. Safety => OpenPrecedesKeepalive
    BY DEF Safety, Handshake, SentOnce, LocalWins, OpenPrecedesKeepalive
  <1> QED BY <1>1, SafetyInvariance, PTL

\* Without delay_open no session is ever confirmed.
THEOREM UndelayedNeverConfirmed == Spec => []NeverConfirmedWithoutDelayOpen
  <1>1. Safety => NeverConfirmedWithoutDelayOpen
    BY DEF Safety, Handshake, Undelayed, NeverConfirmedWithoutDelayOpen
  <1> QED BY <1>1, SafetyInvariance, PTL

\* No peer brings the session up.
THEOREM PeersCannotEstablish == Spec => []PeerCannotEstablish
  <1>1. Safety => PeerCannotEstablish
    BY DEF Safety, Handshake
  <1> QED BY <1>1, SafetyInvariance, PTL

\* A session in Connect has a timer, an attempt or its outcome to wait for.
THEOREM ConnectDriven == Spec => []ConnectNeverStranded
  <1>1. Safety => ConnectNeverStranded
    BY DEF Safety
  <1> QED BY <1>1, SafetyInvariance, PTL

(***************************************************************************)
(* A property of steps                                                     *)
(***************************************************************************)
\* Every step is an effect of an arm or leaves the machine and its
\* attributes alone.
LEMMA StepEffect ==
    ASSUME IInv, [Next]_vars
    PROVE  (\E e \in Event : Effect(e)) \/ UNCHANGED <<fsm, attr>>
  <1>1. ASSUME NEW src \in Source, Run(src) PROVE \E e \in Event : Effect(e)
    <2>1. chan[src] \in Seq(Event) /\ chan[src] # <<>>
      BY <1>1 DEF IInv, Queues, Run
    <2>2. Adapt(Head(chan[src]), src) \in Event
      BY <2>1, AdaptType
    <2> QED BY <1>1, <2>2, HandleEffect DEF Run, IInv
  <1>2. ASSUME NEW t \in AdminEvent, RunAdmin(t) PROVE \E e \in Event : Effect(e)
    <2>1. Ev(t) \in Event
      BY AdminAssumption, EventTypes DEF BareEvent
    <2> QED BY <1>2, <2>1, HandleEffect DEF RunAdmin, IInv
  <1>3. ASSUME NEW c \in Conn,
               \/ TryTcpConn(c)
               \/ \E m \in PeerOpen : ProcessPassive(c, m)
               \/ ProcessReads(c)
               \/ ProcessReadFails(c)
               \/ ProcessOutClosed(c)
               \/ ProcessOneReads(c)
               \/ ProcessOneSendsOpen(c)
        PROVE  UNCHANGED <<fsm, attr>>
    BY <1>3 DEF TryTcpConn, ProcessPassive, ProcessReads, ProcessReadFails,
                ProcessOutClosed, ProcessOneReads, ProcessOneSendsOpen, Send
  <1>4. ASSUME NEW k \in TimerKind, TimerExpires(k) \/ TimerCatchesUp(k)
        PROVE  UNCHANGED <<fsm, attr>>
    BY <1>4 DEF TimerExpires, TimerCatchesUp, Send
  <1> QED BY <1>1, <1>2, <1>3, <1>4 DEF Next, vars

\* A confirmed session that loses no collision keeps its connection until it
\* falls.
THEOREM WinnerKeepsConnection == Spec => LocalWinnerKeepsConnection
  <1>1. ASSUME IInv, [Next]_vars, LocalWins, Confirmed, Confirmed'
        PROVE  fsm'.bgp_conn = fsm.bgp_conn
    <2>1. CASE UNCHANGED <<fsm, attr>>
      BY <2>1
    <2>2. ASSUME NEW e \in Event, Effect(e) PROVE fsm'.bgp_conn = fsm.bgp_conn
      <3>1. ~Replaces(e) /\ ~Confirms(e)
        BY <1>1, LocalWinsNoSwap DEF Replaces, Confirms, Confirmed
      <3> QED
        BY <1>1, <2>2, <3>1
        DEF Effect, Rests, Begins, Falls, Waits, Adopts, Opens, SendsOpen,
            Retreats, Keeps, Opening, Confirmed
    <2> QED BY <1>1, <2>1, <2>2, StepEffect
  <1>2. IInv /\ [Next]_vars =>
          [(\A m \in PeerOpen : m.id <= LocalOpen.id) /\ Confirmed /\ Confirmed'
             => fsm'.bgp_conn = fsm.bgp_conn]_vars
    BY <1>1 DEF LocalWins
  <1> QED BY <1>2, Invariance, PTL DEF Spec, LocalWinnerKeepsConnection
=============================================================================
