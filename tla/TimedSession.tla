---------------------------- MODULE TimedSession ----------------------------
(***************************************************************************)
(* A session over its real timers: run, with the match arms of Session,    *)
(* and the tasks and channels of TimerLoop in the place of the timers that *)
(* Session supposes.  An arm gives its orders one by one on the control    *)
(* channel; the next event is taken when all are given.  Expiries come     *)
(* when a timer task has let its duration pass, whatever run has ordered   *)
(* meanwhile.  late is a history variable here: nothing depends on it.     *)
(***************************************************************************)
EXTENDS Session

CONSTANTS
    Arm,        \* the orders the match arms give, as sequences
    CtrCap,     \* capacity of the channel for orders (32 in the code)
    MaxOps      \* bound on the operations a task is behind when run goes on

VARIABLES
    todo,       \* the orders the arm that run executes has not given yet
    ctr,        \* timer_ctr_tx to timer_ctr_rx
    forwarder,  \* the forwarding task has not ended
    ops,        \* per timer: the channel of its operations
    wait,       \* per timer: the duration its task waits on
    task,       \* per timer: what its task does
    ordered     \* history: the duration run last ordered of each timer

loopVars == <<todo, ctr, forwarder, ops, wait, task, ordered>>

KindOf(e) == CHOOSE k \in TimerKind : Expiry[k] = e.type

\* The expiries run has not received; a receiver that is gone has none.
Expiries ==
    IF fsm.state = "Panicked" THEN <<>>
    ELSE [i \in DOMAIN chan["Timer"] |-> KindOf(chan["Timer"][i])]

Loop == INSTANCE TimerLoop
          WITH alive <- fsm.state # "Panicked", dur <- wait, out <- Expiries,
               OutCap <- ChanCap["Timer"]

ASSUME TimedAssumption ==
    /\ SlowTimer = TimerKind
    /\ Arm \subseteq Seq(Loop!Order) /\ <<>> \in Arm
    /\ CtrCap \in Nat \ {0} /\ ChanCap["Timer"] # 0

(***************************************************************************)
(* run                                                                     *)
(***************************************************************************)
\* The orders a are those of an arm that changes the durations to dur': each
\* gives a timer its new duration, or restarts it, and no change is left out.
Gives(a) ==
    /\ \A i \in DOMAIN a :
          a[i].op.op = "Restart" \/ a[i].op.duration = dur'[a[i].kind]
    /\ \A k \in TimerKind :
          dur'[k] # dur[k] =>
              \E i \in DOMAIN a : a[i].kind = k /\ a[i].op.op # "Restart"

\* An arm begins.  One that panics gives no orders that matter any more.
ArmBegins(expiry) ==
    \/ fsm'.state = "Panicked" /\ Loop!RunEnds
    \/ /\ fsm'.state # "Panicked"
       /\ \E a \in Arm :
             /\ Gives(a)
             /\ \/ expiry /\ Loop!RunTakesExpiry(a)
                \/ ~expiry /\ Loop!RunTakesEvent(a)
                \/ ~expiry /\ a = <<>> /\ UNCHANGED loopVars

TimedRun(src) == todo = <<>> /\ Run(src) /\ ArmBegins(src = "Timer")

TimedRunAdmin(t) == todo = <<>> /\ RunAdmin(t) /\ ArmBegins(FALSE)

\* The arm gives its next order.
TimedOrder == UNCHANGED vars /\ Loop!RunOrders

(***************************************************************************)
(* The timers                                                              *)
(***************************************************************************)
TimedForward ==
    /\ UNCHANGED vars
    /\ Loop!Forward \/ Loop!ForwarderPanics \/ Loop!ForwarderEnds

\* An order that changes the duration of timer k is under way.
Coming(k) ==
    \/ \E i \in DOMAIN todo : todo[i].kind = k /\ todo[i].op.op # "Restart"
    \/ Loop!Queued(k) # {}
    \/ Loop!Handed(k) # {}

\* With its last order applied, a timer is late no more.
TimedApply(k) ==
    /\ UNCHANGED <<fsm, attr, cur, dur, conn, chan, owed>>
    /\ Loop!TimerApplies(k)
    /\ late' = IF fsm.state = "Panicked" \/ Coming(k)' THEN late ELSE late \ {k}

TimedExpire(k) ==
    /\ UNCHANGED vars
    /\ Loop!TimerExpires(k) \/ Loop!TimerPanics(k) \/ Loop!TimerSpins(k)

TimedSend(k) ==
    /\ chan' = [chan EXCEPT !["Timer"] = Append(@, Ev(Expiry[k]))]
    /\ UNCHANGED <<fsm, attr, cur, dur, late, conn, owed>>
    /\ Loop!TimerSends(k)

(***************************************************************************)
(* The specification                                                       *)
(***************************************************************************)
\* The tasks of the connections, as in Session.
Others ==
    /\ \E c \in Conn :
          \/ TryTcpConn(c)
          \/ \E m \in PeerOpen : ProcessPassive(c, m)
          \/ ProcessReads(c)
          \/ ProcessReadFails(c)
          \/ ProcessOutClosed(c)
          \/ ProcessOneReads(c)
          \/ ProcessOneSendsOpen(c)
    /\ UNCHANGED loopVars

TimedInit == Init /\ Loop!Init

TimedNext ==
    \/ \E src \in Source : TimedRun(src)
    \/ \E t \in AdminEvent : TimedRunAdmin(t)
    \/ TimedOrder \/ TimedForward
    \/ \E k \in TimerKind : TimedApply(k) \/ TimedExpire(k) \/ TimedSend(k)
    \/ Others

timedVars == <<vars, loopVars>>

TimedSpec == TimedInit /\ [][TimedNext]_timedVars

(***************************************************************************)
(* Properties                                                              *)
(***************************************************************************)
\* Whatever a session does over the forwarder, the timer tasks and their
\* channels, it may do in Session with every timer slow: an expiry that comes
\* long after the order that was to prevent it, while run is in the midst of
\* another arm, is one that Session allows.  So what holds of Session holds of
\* the session over timer_loop.
ImplementsSession == Spec
=============================================================================
