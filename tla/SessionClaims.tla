--------------------------- MODULE SessionClaims ---------------------------
(***************************************************************************)
(* What comments and assertions of session.rs say of the session, stated   *)
(* as the properties they would be.  The code does not satisfy them: TLC   *)
(* finds a counterexample to each.                                         *)
(***************************************************************************)
EXTENDS Session

\* This step of run takes the first event of src, of type t.
Takes(src, t) ==
    /\ chan[src] # <<>>
    /\ Head(chan[src]).type = t
    /\ chan'[src] = Tail(chan[src])

\* session.rs:203, on Connect and ConnectRetryTimerExpires: "Drop the old
\* connection".  So the connection that Connect takes into use is the one of
\* its current attempt.
OldAttemptIsDropped ==
    [][fsm.state = "Connect" /\ Takes("Tcp", "TcpCRAcked")
         => Head(chan["Tcp"]).conn = fsm.tcp_conn]_vars

\* session.rs:1116 and 1501: an OPEN that wins a collision replaces "current
\* connection with the new colliding connection".  So the connection taken
\* into use is the one the OPEN was read from.
ColliderReplacesConnection ==
    [][\A src \in {"Admin", "Coll"} :
         Takes(src, "BGPOpen")
         /\ fsm.state \in {"OpenSent", "OpenConfirm", "Established"}
         /\ fsm'.state \in {"OpenConfirm", "Established"}
         /\ fsm'.bgp_conn # fsm.bgp_conn
         => fsm'.bgp_conn = Head(chan[src]).conn]_vars

\* session.rs:1718, on Established and KeepaliveTimerExpires: "restarts its
\* KeepaliveTimer, unless the negotiated HoldTime value is zero."  So after
\* this arm the timer of a session with hold time zero does not run on.
ZeroHoldTimeRestartsNoKeepalive ==
    [][Takes("Timer", "KeepaliveTimerExpires") /\ attr.hold_time = 0
         /\ fsm.state = "Established" /\ fsm'.state = "Established"
         => dur'["Keepalive"] = FarFuture]_vars
=============================================================================
