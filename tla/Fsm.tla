-------------------------------- MODULE Fsm --------------------------------
(***************************************************************************)
(* The typed state machine of fsm.rs: the events, the timers, the session  *)
(* attributes, the per-state data of Fsm<S>, and the From conversions that *)
(* carry that data from one state type to the next.                        *)
(*                                                                         *)
(* Fsm<S> is one record.  A field that the Rust type S does not have is    *)
(* None (FALSE for remote_syn).  bgp_conn stands for bgp_conn_handle and   *)
(* bgp_out_tx together: every handler assigns the two side by side.        *)
(* Durations are counted in thirds of a second, so that the division of a  *)
(* hold time by DFLT_KEEPALIVE_FACTOR is exact, as it is on a Duration.    *)
(***************************************************************************)
EXTENDS Naturals, Sequences

CONSTANTS
    Conn,           \* identities of TCP connections (and attempts)
    None,           \* Option::None
    LocalOpen,      \* OpenMsg::from_conf(&conf)
    PeerOpen,       \* OPEN messages of the peer that OpenMsg::decode accepts
    FarFuture       \* the duration FAR_FUTURE of a stopped timer

OpenMsg == [id : Nat, hold : Nat]

Secs(n) == 3 * n

ASSUME ConnAssumption == None \notin Conn
ASSUME OpenAssumption ==
    /\ LocalOpen \in OpenMsg
    /\ PeerOpen \subseteq OpenMsg
    /\ None \notin PeerOpen \cup {LocalOpen}
\* OpenMsg::decode refuses a hold time of one or two seconds.
ASSUME HoldAssumption == \A m \in PeerOpen : m.hold = 0 \/ m.hold >= 3
\* A u16 number of seconds is never FAR_FUTURE.
ASSUME FarFutureAssumption == FarFuture \in Nat /\ FarFuture > Secs(65535)

(***************************************************************************)
(* Events                                                                  *)
(***************************************************************************)
StartEvent ==
    {"ManualStart", "AutomaticStart",
     "ManualStartWithPassiveTcpEstablishment",
     "AutomaticStartWithPassiveTcpEstablishment",
     "AutomaticStartWithDampPeerOscillations",
     "AutomaticStartWithDampPeerOscillationsAndPassiveTcpEstablishment"}

\* Events without a payload that a handler reads.
PlainEvent ==
    StartEvent \cup
    {"ManualStop", "AutomaticStop", "TcpConnectionValid", "TcpCRInvalid",
     "OpenCollisionDump", "NotifyMsgVerErr", "NotifyMsg", "KeepaliveMsg",
     "UpdateMsgErr"}

TimerKind == {"ConnectRetry", "Hold", "Keepalive", "DelayOpen"}

\* impl Into<Event> for TimerKind
Expiry == [ConnectRetry |-> "ConnectRetryTimerExpires",
           Hold         |-> "HoldTimerExpires",
           Keepalive    |-> "KeepaliveTimerExpires",
           DelayOpen    |-> "DelayOpenTimerExpires"]

\* Events that carry a socket, and events that carry the peer's OPEN.
SocketEvent == {"TcpCRAcked", "TcpConnectionConfirmed", "ProcessOneDone"}
OpenEvent == {"BGPOpen", "BGPOpenWithDelayOpenTimerRunning"}

\* Messages that process could not decode.
MsgErr == {"BGPHeaderErr", "BGPOpenMsgErr"}

\* The payload of these, an error or routes, is not read by any handler.
BareEvent ==
    PlainEvent \cup
    {"ConnectRetryTimerExpires", "HoldTimerExpires", "KeepaliveTimerExpires",
     "DelayOpenTimerExpires", "UpdateMsg"} \cup MsgErr

\* conn is the socket an event carries.  A failed attempt, an OPEN and an
\* error that process reports carry none; for them it is a history field, the
\* connection they stem from.
Event ==
    [type : BareEvent, conn : {None}, msg : {None}, remote_syn : {FALSE}]
    \cup [type : SocketEvent \cup MsgErr \cup {"TcpConnectionFails"}, conn : Conn,
          msg : {None}, remote_syn : {FALSE}]
    \cup [type : OpenEvent, conn : Conn, msg : PeerOpen, remote_syn : BOOLEAN]

Ev(t) == [type |-> t, conn |-> None, msg |-> None, remote_syn |-> FALSE]
EvConn(t, c) == [Ev(t) EXCEPT !.conn = c]
EvOpen(c, m, y) ==
    [type |-> "BGPOpen", conn |-> c, msg |-> m, remote_syn |-> y]

(***************************************************************************)
(* Session attributes                                                      *)
(***************************************************************************)
DFLT_BGP_TIMERS_CONNECT == Secs(10)
DFLT_BGP_HOLDTIME == Secs(9)
DFLT_BGP_KEEPALIVE == Secs(3)
DFLT_KEEPALIVE_FACTOR == 3

NewAttributes ==
    [connect_retry_counter |-> 0,
     hold_time |-> DFLT_BGP_HOLDTIME,
     keepalive_time |-> DFLT_BGP_KEEPALIVE]

(***************************************************************************)
(* States and their conversions                                            *)
(***************************************************************************)
\* Two are not States of the code: "Panicked", the task of session::run is
\* gone, and "Stalled", it waits for ever inside an arm.
StateName == {"Idle", "Connect", "Active", "OpenSent", "OpenConfirm",
              "Established", "Panicked", "Stalled"}

FsmRecord ==
    [state : StateName,
     tcp_conn : Conn \cup {None},
     bgp_conn : Conn \cup {None},
     local_open : {None, LocalOpen},
     peer_open : PeerOpen \cup {None},
     remote_syn : BOOLEAN,
     collision_conn : Conn \cup {None}]

NewFsm ==
    [state |-> "Idle", tcp_conn |-> None, bgp_conn |-> None,
     local_open |-> None, peer_open |-> None, remote_syn |-> FALSE,
     collision_conn |-> None]

IdleIntoConnect == [NewFsm EXCEPT !.state = "Connect"]

IdleIntoActive == [NewFsm EXCEPT !.state = "Active"]

\* Mutant: the handle of the attempt is carried over.
ConnectIntoActiveWithAttempt(s) ==
    [NewFsm EXCEPT !.state = "Active", !.bgp_conn = s.bgp_conn,
                   !.tcp_conn = s.tcp_conn]

ConnectIntoActive(s) ==
    [NewFsm EXCEPT !.state = "Active", !.bgp_conn = s.bgp_conn]

\* The connection handle and its outgoing channel are not carried over.
ConnectIntoOpenSent(s) == [NewFsm EXCEPT !.state = "OpenSent"]

ConnectIntoOpenConfirm(s) ==
    [NewFsm EXCEPT !.state = "OpenConfirm", !.bgp_conn = s.bgp_conn]

ActiveIntoConnect(s) ==
    [NewFsm EXCEPT !.state = "Connect", !.tcp_conn = s.tcp_conn,
                   !.bgp_conn = s.bgp_conn]

ActiveIntoOpenSent(s) ==
    [NewFsm EXCEPT !.state = "OpenSent", !.bgp_conn = s.bgp_conn,
                   !.remote_syn = TRUE]

ActiveIntoOpenConfirm(s) ==
    [NewFsm EXCEPT !.state = "OpenConfirm", !.bgp_conn = s.bgp_conn,
                   !.remote_syn = TRUE]

OpenSentIntoActive == [NewFsm EXCEPT !.state = "Active"]

\* Mutant: the local OPEN is not carried over.
OpenSentIntoOpenConfirmBare(s) ==
    [s EXCEPT !.state = "OpenConfirm", !.peer_open = None, !.local_open = None]

OpenSentIntoOpenConfirm(s) ==
    [s EXCEPT !.state = "OpenConfirm", !.peer_open = None]

\* Mutant: the connection is not carried over.
OpenConfirmIntoEstablishedBare(s) ==
    [s EXCEPT !.state = "Established", !.bgp_conn = None]

OpenConfirmIntoEstablished(s) == [s EXCEPT !.state = "Established"]

\* Every state's conversion into Idle yields the same value ...
IntoIdle == NewFsm

\* ... after aborting the tasks whose handles it holds.  Only the conversion
\* of Connect aborts the connection attempt as well.
AbortedIntoIdle(s) ==
    [attempt |-> IF s.state = "Connect" THEN s.tcp_conn ELSE None,
     process |-> s.bgp_conn]
=============================================================================
