----------------------------- MODULE TimerLoop -----------------------------
(***************************************************************************)
(* timer_loop of session.rs: one task per timer, a task that hands the     *)
(* orders of session::run to them, and the channels between the three.     *)
(*                                                                         *)
(*   run --ctr--> forwarder --ops[k]--> timer task k --out--> run          *)
(*                                                                         *)
(* ctr and out are bounded and ops is not, which is what keeps the circle  *)
(* from closing.  run takes an event and then gives the orders of its arm  *)
(* one by one; while it does so it receives no expiries.                   *)
(***************************************************************************)
EXTENDS Naturals, Sequences

CONSTANTS
    TimerKind,  \* TimerKind::new_vec()
    FarFuture,  \* FAR_FUTURE
    Arm,        \* the orders each match arm of run gives, as sequences
    CtrCap,     \* capacity of the channel for orders (32 in the code)
    OutCap,     \* capacity of the channel for expiries (32 in the code)
    MaxOps      \* bound on the operations a task is behind when run goes on

Stop == [op |-> "Stop", duration |-> FarFuture]
Restart == [op |-> "Restart", duration |-> FarFuture]
Update(d) == [op |-> "Update", duration |-> d]
Operation ==
    [op : {"Stop", "Restart"}, duration : {FarFuture}]
    \cup [op : {"Update"}, duration : Nat]
Order == [kind : TimerKind, op : Operation]

ASSUME ArmAssumption == Arm \subseteq Seq(Order) /\ <<>> \in Arm
ASSUME TimerAssumption ==
    FarFuture \in Nat /\ CtrCap \in Nat \ {0} /\ OutCap \in Nat \ {0}

VARIABLES
    alive,      \* run has not ended
    todo,       \* the orders the arm that run executes has not given yet
    ctr,        \* timer_ctr_tx to timer_ctr_rx
    forwarder,  \* the forwarding task has not ended
    ops,        \* per timer: the unbounded channel of its operations
    dur,        \* per timer: the duration its task waits on
    task,       \* per timer: what its task does
    out,        \* timer_tx to timer_rx: the kinds of the expiries
    ordered     \* history: the duration run last ordered of each timer

vars == <<alive, todo, ctr, forwarder, ops, dur, task, out, ordered>>

\* A task whose channel of operations is closed runs in a circle for ever.
TaskState == {"waiting", "sending", "spinning", "panicked"}

\* The duration after an operation.
Apply(op, d) ==
    CASE op.op = "Stop" -> FarFuture
      [] op.op = "Restart" -> d
      [] op.op = "Update" -> op.duration

(***************************************************************************)
(* session::run, as far as it deals with timers                            *)
(***************************************************************************)
\* run is at select!, and takes an event whose arm gives the orders a.
RunTakes(a) ==
    /\ alive /\ todo = <<>>
    /\ a # <<>> => \A k \in TimerKind : Len(ops[k]) <= MaxOps
    /\ todo' = a
    /\ UNCHANGED <<alive, ctr, forwarder, ops, dur, task, ordered>>

RunTakesEvent(a) == RunTakes(a) /\ a # <<>> /\ UNCHANGED out

RunTakesExpiry(a) == out # <<>> /\ out' = Tail(out) /\ RunTakes(a)

\* timer_ctr_tx.send(..).await waits while the channel is full.
RunOrders ==
    /\ alive /\ todo # <<>>
    /\ Len(ctr) < CtrCap
    /\ ctr' = Append(ctr, Head(todo))
    /\ todo' = Tail(todo)
    /\ ordered' = [ordered EXCEPT
                     ![Head(todo).kind] = Apply(Head(todo).op, @)]
    /\ UNCHANGED <<alive, forwarder, ops, dur, task, out>>

\* run panics: its ends of ctr and out are dropped.
RunEnds ==
    /\ alive
    /\ alive' = FALSE
    /\ todo' = <<>> /\ out' = <<>>
    /\ UNCHANGED <<ctr, forwarder, ops, dur, task, ordered>>

(***************************************************************************)
(* The forwarding task                                                     *)
(***************************************************************************)
\* Mutant: the latest order first.
ForwardLatest ==
    LET o == ctr[Len(ctr)] IN
    /\ forwarder /\ ctr # <<>> /\ task[o.kind] # "panicked"
    /\ ctr' = SubSeq(ctr, 1, Len(ctr) - 1)
    /\ ops' = [ops EXCEPT ![o.kind] = Append(@, o.op)]
    /\ UNCHANGED <<alive, todo, forwarder, dur, task, out, ordered>>

\* Mutant: the channels of operations hold one operation each.
ForwardBounded ==
    LET o == Head(ctr) IN
    /\ forwarder /\ ctr # <<>> /\ task[o.kind] # "panicked"
    /\ ops[o.kind] = <<>>
    /\ ctr' = Tail(ctr)
    /\ ops' = [ops EXCEPT ![o.kind] = Append(@, o.op)]
    /\ UNCHANGED <<alive, todo, forwarder, dur, task, out, ordered>>

Forward ==
    LET o == Head(ctr) IN
    /\ forwarder /\ ctr # <<>> /\ task[o.kind] # "panicked"
    /\ ctr' = Tail(ctr)
    /\ ops' = [ops EXCEPT ![o.kind] = Append(@, o.op)]
    /\ UNCHANGED <<alive, todo, forwarder, dur, task, out, ordered>>

\* The receiver of a timer task that has panicked is gone: send(op).unwrap()
\* panics as well, and the orders behind this one are dropped.
ForwarderPanics ==
    /\ forwarder /\ ctr # <<>> /\ task[Head(ctr).kind] = "panicked"
    /\ forwarder' = FALSE /\ ctr' = <<>>
    /\ UNCHANGED <<alive, todo, ops, dur, task, out, ordered>>

\* Mutant: the loop goes on when recv returns None.
ForwarderStays ==
    /\ forwarder /\ ~alive /\ ctr = <<>>
    /\ UNCHANGED vars

\* recv returns None once run is gone and the channel is empty.
ForwarderEnds ==
    /\ forwarder /\ ~alive /\ ctr = <<>>
    /\ forwarder' = FALSE
    /\ UNCHANGED <<alive, todo, ctr, ops, dur, task, out, ordered>>

(***************************************************************************)
(* A timer task                                                            *)
(***************************************************************************)
TimerApplies(k) ==
    /\ task[k] = "waiting" /\ ops[k] # <<>>
    /\ dur' = [dur EXCEPT ![k] = Apply(Head(ops[k]), @)]
    /\ ops' = [ops EXCEPT ![k] = Tail(@)]
    /\ UNCHANGED <<alive, todo, ctr, forwarder, task, out, ordered>>

\* Mutant: FAR_FUTURE passes like any other duration.
TimerExpiresAlways(k) ==
    /\ task[k] = "waiting" /\ ops[k] = <<>> /\ forwarder
    /\ task' = [task EXCEPT ![k] = "sending"]
    /\ UNCHANGED <<alive, todo, ctr, forwarder, ops, dur, out, ordered>>

\* Mutant: the clock first.
TimerExpiresFirst(k) ==
    /\ task[k] = "waiting" /\ forwarder
    /\ dur[k] # FarFuture
    /\ task' = [task EXCEPT ![k] = "sending"]
    /\ UNCHANGED <<alive, todo, ctr, forwarder, ops, dur, out, ordered>>

\* timeout looks at the channel before it looks at the clock.
TimerExpires(k) ==
    /\ task[k] = "waiting" /\ ops[k] = <<>> /\ forwarder
    /\ dur[k] # FarFuture
    /\ task' = [task EXCEPT ![k] = "sending"]
    /\ UNCHANGED <<alive, todo, ctr, forwarder, ops, dur, out, ordered>>

\* Mutant: the channel is unbounded.
TimerSendsAtOnce(k) ==
    /\ task[k] = "sending" /\ alive
    /\ out' = Append(out, k)
    /\ task' = [task EXCEPT ![k] = "waiting"]
    /\ UNCHANGED <<alive, todo, ctr, forwarder, ops, dur, ordered>>

\* timer_tx.send(..).await waits while the channel is full.
TimerSends(k) ==
    /\ task[k] = "sending" /\ alive
    /\ Len(out) < OutCap
    /\ out' = Append(out, k)
    /\ task' = [task EXCEPT ![k] = "waiting"]
    /\ UNCHANGED <<alive, todo, ctr, forwarder, ops, dur, ordered>>

TimerPanics(k) ==
    /\ task[k] = "sending" /\ ~alive
    /\ task' = [task EXCEPT ![k] = "panicked"]
    /\ UNCHANGED <<alive, todo, ctr, forwarder, ops, dur, out, ordered>>

\* recv returns None at once, and again at every turn of the loop.
TimerSpins(k) ==
    /\ task[k] = "waiting" /\ ops[k] = <<>> /\ ~forwarder
    /\ task' = [task EXCEPT ![k] = "spinning"]
    /\ UNCHANGED <<alive, todo, ctr, forwarder, ops, dur, out, ordered>>

Init ==
    /\ alive = TRUE /\ forwarder = TRUE
    /\ todo = <<>> /\ ctr = <<>> /\ out = <<>>
    /\ ops = [k \in TimerKind |-> <<>>]
    /\ dur = [k \in TimerKind |-> FarFuture]
    /\ task = [k \in TimerKind |-> "waiting"]
    /\ ordered = [k \in TimerKind |-> FarFuture]

Next ==
    \/ \E a \in Arm : RunTakesEvent(a) \/ RunTakesExpiry(a)
    \/ RunOrders \/ RunEnds
    \/ Forward \/ ForwarderPanics \/ ForwarderEnds
    \/ \E k \in TimerKind :
          \/ TimerApplies(k) \/ TimerExpires(k) \/ TimerSends(k)
          \/ TimerPanics(k) \/ TimerSpins(k)

Spec == Init /\ [][Next]_vars

\* Tasks that can go on do.  select! serves its channels at random, so run
\* receives expiries whenever there always are some again, and a channel
\* serves the tasks that wait to send on it in the order they came.
Fairness ==
    /\ WF_vars(RunOrders) /\ WF_vars(Forward)
    /\ WF_vars(ForwarderPanics) /\ WF_vars(ForwarderEnds)
    /\ SF_vars(\E a \in Arm : RunTakesExpiry(a))
    /\ \A k \in TimerKind :
          /\ WF_vars(TimerApplies(k)) /\ SF_vars(TimerSends(k))
          /\ WF_vars(TimerPanics(k)) /\ WF_vars(TimerSpins(k))

FairSpec == Spec /\ Fairness

(***************************************************************************)
(* Properties                                                              *)
(***************************************************************************)
\* Every variable has its type, and the bounded channels keep to their bounds.
TypeOK ==
    /\ alive \in BOOLEAN /\ forwarder \in BOOLEAN
    /\ todo \in Seq(Order) /\ ctr \in Seq(Order)
    /\ ops \in [TimerKind -> Seq(Operation)]
    /\ dur \in [TimerKind -> Nat] /\ ordered \in [TimerKind -> Nat]
    /\ task \in [TimerKind -> TaskState]
    /\ out \in Seq(TimerKind)
    /\ Len(ctr) <= CtrCap /\ Len(out) <= OutCap

\* Where an order on its way sets the duration of timer k: among the
\* operations its task has not taken, and among the orders not forwarded.
Handed(k) == {i \in DOMAIN ops[k] : ops[k][i].op # "Restart"}
Queued(k) == {i \in DOMAIN ctr : ctr[i].kind = k /\ ctr[i].op.op # "Restart"}

IsLast(i, S) == \A j \in S : j <= i

\* d is the last duration on its way to timer k, or the one its task waits
\* on if none is.
EndsUpWith(k, d) ==
    \/ \E i \in Queued(k) : IsLast(i, Queued(k)) /\ ctr[i].op.duration = d
    \/ /\ Queued(k) = {}
       /\ \E i \in Handed(k) : IsLast(i, Handed(k)) /\ ops[k][i].duration = d
    \/ Queued(k) = {} /\ Handed(k) = {} /\ dur[k] = d

\* Whatever is under way, the last duration each timer task will have been
\* given is the one run ordered last: no order is lost, overtaken by another
\* or given to another timer, over two channels and while expiries are sent.
OrdersKept == alive => \A k \in TimerKind : EndsUpWith(k, ordered[k])

\* Timer k may still expire for a duration that is not in force: one that its
\* task waits on, or is about to, and that another order is to replace.
Superseded(k) ==
    \/ dur[k] # FarFuture /\ Handed(k) \cup Queued(k) # {}
    \/ \E i \in Handed(k) : /\ ops[k][i].duration # FarFuture
                            /\ ~IsLast(i, Handed(k)) \/ Queued(k) # {}
    \/ \E i \in Queued(k) : /\ ctr[i].op.duration # FarFuture
                            /\ ~IsLast(i, Queued(k))

Late == {k \in TimerKind : Superseded(k)}

Service == INSTANCE TimerService
             WITH dur <- ordered, late <- Late, queue <- out, QueueCap <- OutCap

\* The three kinds of tasks together are the timers the session relies on:
\* once a timer is stopped and its task has caught up, it is silent.
ImplementsTimerService == Service!Spec

\* run is never kept waiting for ever to give an order, although a timer task
\* that waits to send an expiry to run takes no operations meanwhile.
OrdersAreGiven == todo # <<>> ~> todo = <<>>

\* Every order takes effect unless another follows it, even one that arrives
\* while its task waits for room to send an expiry.
OrdersTakeEffect ==
    \A k \in TimerKind :
        \A d \in UNION {{a[i].op.duration : i \in DOMAIN a} : a \in Arm} :
            (alive /\ ordered[k] = d) ~> (~alive \/ ordered[k] # d \/ dur[k] = d)

\* Once run is gone no expiry is under way for long, but no timer task ends
\* in order: each has panicked or runs in a circle on its closed channel.
TimersOutliveRun ==
    ~alive ~> [](\A k \in TimerKind : task[k] \in {"spinning", "panicked"})
=============================================================================
