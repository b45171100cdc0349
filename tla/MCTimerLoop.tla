---------------------------- MODULE MCTimerLoop ----------------------------
(***************************************************************************)
(* Small instances of timer_loop for TLC.                                  *)
(***************************************************************************)
EXTENDS TimerLoop

\* Two timers; the others differ from them by name only.
Kinds == {"ConnectRetry", "Hold"}

Ord(k, op) == [kind |-> k, op |-> op]

\* The shapes of the orders the match arms give: none, one timer started
\* (Idle), one stopped (most arms), one restarted and another stopped
\* (Connect on ConnectRetryTimerExpires), one stopped and another started
\* (OpenSent on BGPOpen).
Arms ==
    {<<>>,
     <<Ord("ConnectRetry", Update(30))>>,
     <<Ord("ConnectRetry", Stop)>>,
     <<Ord("ConnectRetry", Restart), Ord("Hold", Stop)>>,
     <<Ord("ConnectRetry", Stop), Ord("Hold", Update(18))>>}
=============================================================================
