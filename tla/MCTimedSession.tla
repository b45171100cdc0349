--------------------------- MODULE MCTimedSession ---------------------------
(***************************************************************************)
(* A small instance of a session over its timers for TLC.                  *)
(***************************************************************************)
EXTENDS TimedSession

CONSTANTS c1

OneConn == {c1}

\* The peer says nothing on a connection that is taken, and no attempt
\* collides: the instance is about timers.
TimedChanCap == [Admin |-> 2, Tcp |-> 1, Bgp |-> 0, Coll |-> 0, Timer |-> 1]

Local == [id |-> 2, hold |-> 9]
Peer == {[id |-> 1, hold |-> 6]}
Started == {"ManualStart"}

Stops(k) == [kind |-> k, op |-> [op |-> "Stop", duration |-> FarFuture]]
Restarts(k) == [kind |-> k, op |-> [op |-> "Restart", duration |-> FarFuture]]
Updates(k, d) == [kind |-> k, op |-> [op |-> "Update", duration |-> d]]

\* The orders of the arms: start (Idle), stop (most arms), restart one and
\* stop another (Connect on ConnectRetryTimerExpires), take a connection,
\* confirm it, keep it alive.  The durations are those of this instance.
Arms ==
    {<<>>,
     <<Updates("ConnectRetry", DFLT_BGP_TIMERS_CONNECT)>>,
     <<Stops("ConnectRetry")>>,
     <<Stops("ConnectRetry"), Stops("DelayOpen")>>,
     <<Stops("DelayOpen"), Restarts("ConnectRetry")>>,
     <<Stops("ConnectRetry"), Updates("DelayOpen", DelayOpenTime)>>,
     <<Stops("ConnectRetry"), Stops("DelayOpen"),
       Updates("Keepalive", 6), Updates("Hold", 18)>>,
     <<Restarts("Keepalive")>>}
=============================================================================
