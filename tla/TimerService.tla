---------------------------- MODULE TimerService ----------------------------
(***************************************************************************)
(* What the timers promise to session::run, and what run expects of them.  *)
(* An order sets a timer's duration.  A timer that waits on a duration may *)
(* expire, and one that was running when it was ordered may expire late,   *)
(* until its task has caught up.  A timer that is stopped and has caught   *)
(* up is silent.  Expiries are received in the order they were sent.       *)
(***************************************************************************)
EXTENDS Naturals, Sequences

CONSTANTS TimerKind, FarFuture, QueueCap

VARIABLES
    dur,    \* the duration last ordered of each timer
    late,   \* the timers that may still expire for an earlier duration
    queue   \* the kinds of the expiries run has not received

timerVars == <<dur, late, queue>>

Init ==
    /\ dur = [k \in TimerKind |-> FarFuture]
    /\ late = {}
    /\ queue = <<>>

\* run orders the timers of K, perhaps on receiving an expiry.  A task may
\* have caught up at once.
Orders(K) ==
    /\ dur' \in [TimerKind -> Nat]
    /\ \A k \in TimerKind \ K : dur'[k] = dur[k]
    /\ late' \subseteq late \cup {k \in K : dur[k] # FarFuture}
    /\ \/ queue' = queue
       \/ queue # <<>> /\ queue' = Tail(queue)

Expires(k) ==
    /\ dur[k] # FarFuture \/ k \in late
    /\ Len(queue) < QueueCap
    /\ queue' = Append(queue, k)
    /\ UNCHANGED <<dur, late>>

\* Tasks have applied every order given them.
CatchUp ==
    /\ late' \subseteq late
    /\ UNCHANGED <<dur, queue>>

\* run is gone, and what it has not received with it.
Ends ==
    /\ queue' = <<>>
    /\ UNCHANGED <<dur, late>>

Next ==
    \/ \E K \in SUBSET TimerKind : Orders(K)
    \/ \E k \in TimerKind : Expires(k)
    \/ CatchUp
    \/ Ends

Spec == Init /\ [][Next]_timerVars
=============================================================================
