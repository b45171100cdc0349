---------------------- MODULE SessionRefinementProofs ----------------------
(***************************************************************************)
(* The session implements AbstractSession, and a session over timer_loop   *)
(* implements the session, for every value of the constants.               *)
(*                                                                         *)
(* For the second, LoopInv says of every timer that the last order on its  *)
(* way carries the duration run believes in, so that a timer which has     *)
(* caught up is as run ordered, and that one which is stopped and not late *)
(* has nothing on its way that could set it off.                           *)
(***************************************************************************)
EXTENDS SessionSafetyProofs, SessionRefinement, TimedSession, SequenceTheorems

(***************************************************************************)
(* The abstract session                                                    *)
(***************************************************************************)
\* What the abstract session sees of a state.
View ==
    /\ fsm.state = "Idle" => PhaseOf = "Down"
    /\ fsm.state \in {"Connect", "Active", "OpenSent"} => PhaseOf = "Opening"
    /\ fsm.state = "OpenConfirm" => PhaseOf = "Confirming"
    /\ fsm.state = "Established" => PhaseOf = "Up"
    /\ fsm.state \in {"Panicked", "Stalled"} => PhaseOf = "Dead"
    /\ ~Confirmed => LinkOf = None /\ HoldOf = None
    /\ Confirmed => LinkOf = fsm.bgp_conn /\ HoldOf = attr.hold_time
    /\ Confirmed => fsm.bgp_conn \in Conn

\* A confirmed session shows its connection and its hold time, any other
\* neither.
LEMMA StateView ==
    ASSUME Control
    PROVE  View
  BY DEF Control, ControlType, ConfirmedIsWired, FsmRecord, StateName,
         View, PhaseOf, Phase, LinkOf, HoldOf, Confirmed

\* The same in the next state.
LEMMA NextStateView ==
    ASSUME Control'
    PROVE  View'
  BY DEF Control, ControlType, ConfirmedIsWired, FsmRecord, StateName,
         View, PhaseOf, Phase, LinkOf, HoldOf, Confirmed

\* Every effect of an arm is a step of the abstract session, or none.
LEMMA EffectAbstract ==
    ASSUME Control, Control', NEW e, Effect(e)
    PROVE  [Abstract!Next]_<<PhaseOf, LinkOf, HoldOf>>
  <1>1. View /\ View'
    BY StateView, NextStateView
  <1>2. CASE Begins
    <2>1. Abstract!Start
      BY <1>1, <1>2 DEF View, Begins, Opening, Confirmed, Abstract!Start
    <2> QED BY <2>1 DEF Abstract!Next
  <1>3. CASE Falls
    <2>1. Abstract!Fall
      BY <1>1, <1>3 DEF View, Falls, Opening, Opened, Confirmed, Abstract!Fall
    <2> QED BY <2>1 DEF Abstract!Next
  <1>4. CASE \/ Rests \/ Waits(e) \/ Adopts(e) \/ Opens(e) \/ Retreats
    <2>1. UNCHANGED <<PhaseOf, LinkOf, HoldOf>>
      BY <1>1, <1>4
      DEF View, Rests, Waits, Adopts, Opens, Retreats, Opening, Confirmed
    <2> QED BY <2>1
  <1>5. CASE SendsOpen(e) \/ Confirms(e)
    <2>1. CASE fsm'.state = "OpenSent"
      <3>1. UNCHANGED <<PhaseOf, LinkOf, HoldOf>>
        BY <1>1, <1>5, <2>1 DEF View, SendsOpen, Confirms, Opening, Confirmed
      <3> QED BY <3>1
    <2>2. CASE fsm'.state # "OpenSent"
      <3>1. /\ fsm.state \in {"Connect", "Active", "OpenSent"}
            /\ fsm'.state = "OpenConfirm"
            /\ Negotiates
        BY <1>5, <2>2 DEF SendsOpen, Confirms, Opening
      <3>2. Abstract!Confirm
        BY <1>1, <3>1 DEF View, Confirmed, Negotiates, Abstract!Confirm
      <3> QED BY <3>2 DEF Abstract!Next
    <2> QED BY <2>1, <2>2
  <1>6. CASE Keeps(e)
    <2>1. CASE fsm'.state = fsm.state
      <3>1. UNCHANGED <<PhaseOf, LinkOf, HoldOf>>
        BY <1>1, <1>6, <2>1 DEF View, Keeps, Opened, Confirmed
      <3> QED BY <3>1
    <2>2. CASE fsm.state = "OpenConfirm" /\ fsm'.state = "Established"
      <3>1. Abstract!Establish
        BY <1>1, <1>6, <2>2 DEF View, Keeps, Confirmed, Abstract!Establish
      <3> QED BY <3>1 DEF Abstract!Next
    <2> QED BY <1>6, <2>1, <2>2 DEF Keeps
  <1>7. CASE Replaces(e)
    <2>1. Abstract!Swap
      BY <1>1, <1>7 DEF View, Replaces, Confirmed, Abstract!Swap
    <2> QED BY <2>1 DEF Abstract!Next
  <1> QED BY <1>2, <1>3, <1>4, <1>5, <1>6, <1>7 DEF Effect

\* Every behaviour of the session is one of the abstract session: it comes
\* up in order, keeps its hold time while it is confirmed, and loses its
\* connection only by falling.
THEOREM SessionRefines == Spec => ImplementsAbstractSession
  <1>1. Init => Abstract!Init
    BY DEF Init, NewFsm, Abstract!Init, PhaseOf, Phase, LinkOf, HoldOf, Confirmed
  <1>2. IInv /\ IInv' /\ [Next]_vars => [Abstract!Next]_<<PhaseOf, LinkOf, HoldOf>>
    <2> SUFFICES ASSUME IInv, IInv', [Next]_vars
                 PROVE  [Abstract!Next]_<<PhaseOf, LinkOf, HoldOf>>
      OBVIOUS
    <2>1. CASE UNCHANGED <<fsm, attr>>
      BY <2>1 DEF PhaseOf, LinkOf, HoldOf, Confirmed
    <2>2. ASSUME NEW e \in Event, Effect(e)
          PROVE  [Abstract!Next]_<<PhaseOf, LinkOf, HoldOf>>
      BY <2>2, EffectAbstract DEF IInv
    <2> QED BY <2>1, <2>2, StepEffect
  <1> QED
    BY <1>1, <1>2, Invariance, PTL
    DEF Spec, ImplementsAbstractSession, Abstract!Spec, Abstract!abstractVars

(***************************************************************************)
(* Orders on their way                                                     *)
(***************************************************************************)
\* No element of s is in M; the last element of s in M is in D.
NoneIn(s, M) == \A i \in DOMAIN s : s[i] \notin M
LastIn(s, M, D) ==
    \E i \in DOMAIN s : s[i] \in D /\ \A j \in DOMAIN s : s[j] \in M => j <= i

\* An element added comes last.
LEMMA Added ==
    ASSUME NEW S, NEW s \in Seq(S), NEW x \in S, NEW M, NEW D
    PROVE  /\ x \in D => LastIn(Append(s, x), M, D)
           /\ x \notin M /\ LastIn(s, M, D) => LastIn(Append(s, x), M, D)
           /\ x \notin M /\ NoneIn(s, M) => NoneIn(Append(s, x), M)
  <1> DEFINE t == Append(s, x)
  <1>1. /\ t \in Seq(S) /\ Len(t) = Len(s) + 1 /\ Len(s) \in Nat
        /\ \A i \in 1 .. Len(s) : t[i] = s[i]
        /\ t[Len(s) + 1] = x
    BY AppendProperties, LenProperties
  <1>2. DOMAIN s = 1 .. Len(s) /\ DOMAIN t = 1 .. Len(s) + 1
    BY <1>1, LenProperties
  <1> HIDE DEF t
  <1>3. x \in D => LastIn(t, M, D)
    BY <1>1, <1>2 DEF LastIn
  <1>4. x \notin M /\ LastIn(s, M, D) => LastIn(t, M, D)
    BY <1>1, <1>2 DEF LastIn
  <1>5. x \notin M /\ NoneIn(s, M) => NoneIn(t, M)
    BY <1>1, <1>2 DEF NoneIn
  <1> QED BY <1>3, <1>4, <1>5 DEF t

\* The first element taken, the last is still the last, or was the one taken.
LEMMA Taken ==
    ASSUME NEW S, NEW s \in Seq(S), s # <<>>, NEW M, NEW D
    PROVE  /\ Head(s) \in S /\ Tail(s) \in Seq(S)
           /\ LastIn(s, M, D) => \/ LastIn(Tail(s), M, D)
                                 \/ Head(s) \in D /\ NoneIn(Tail(s), M)
           /\ NoneIn(s, M) <=> Head(s) \notin M /\ NoneIn(Tail(s), M)
  <1> DEFINE t == Tail(s)
  <1>1. /\ Head(s) \in S /\ Head(s) = s[1]
        /\ t \in Seq(S) /\ Len(t) = Len(s) - 1 /\ Len(s) \in Nat \ {0}
        /\ \A i \in 1 .. Len(t) : t[i] = s[i + 1]
    BY HeadTailProperties, LenProperties, EmptySeq
  <1>2. DOMAIN s = 1 .. Len(s) /\ DOMAIN t = 1 .. Len(s) - 1
    BY <1>1, LenProperties
  <1> HIDE DEF t
  <1>3. ASSUME LastIn(s, M, D)
        PROVE  LastIn(t, M, D) \/ (s[1] \in D /\ NoneIn(t, M))
    <2>1. PICK i \in DOMAIN s : s[i] \in D /\ \A j \in DOMAIN s : s[j] \in M => j <= i
      BY <1>3 DEF LastIn
    <2>2. CASE i = 1
      BY <1>1, <1>2, <2>1, <2>2 DEF NoneIn
    <2>3. CASE i # 1
      <3>1. /\ i - 1 \in DOMAIN t /\ t[i - 1] \in D
            /\ \A j \in DOMAIN t : t[j] \in M => j <= i - 1
        BY <1>1, <1>2, <2>1, <2>3
      <3> QED BY <3>1 DEF LastIn
    <2> QED BY <2>2, <2>3
  <1>4. NoneIn(s, M) <=> s[1] \notin M /\ NoneIn(t, M)
    <2>1. \A i \in DOMAIN s : i = 1 \/ (i - 1 \in DOMAIN t /\ t[i - 1] = s[i])
      BY <1>1, <1>2
    <2>2. \A i \in DOMAIN t : i + 1 \in DOMAIN s /\ t[i] = s[i + 1]
      BY <1>1, <1>2
    <2>3. 1 \in DOMAIN s
      BY <1>1, <1>2
    <2> QED BY <2>1, <2>2, <2>3 DEF NoneIn
  <1> QED BY <1>1, <1>3, <1>4 DEF t

(***************************************************************************)
(* The invariant of the timers                                             *)
(***************************************************************************)
\* The operations that set a duration, those that set d, and those that
\* start the timer; the orders of timer k with an operation in O.
Sets == {op \in Loop!Operation : op.op # "Restart"}
SetsTo(d) == {op \in Sets : op.duration = d}
Starts == {op \in Sets : op.duration # FarFuture}
OrdersOf(k, O) == {o \in Loop!Order : o.kind = k /\ o.op \in O}

Alive == fsm.state # "Panicked"

\* What the arm that run executes will order of timer k is dur[k]; if it will
\* order nothing, the last duration on its way, or the one its task waits
\* on, is dur[k].
Arrives(k) ==
    \/ LastIn(ctr, OrdersOf(k, Sets), OrdersOf(k, SetsTo(dur[k])))
    \/ /\ NoneIn(ctr, OrdersOf(k, Sets))
       /\ \/ LastIn(ops[k], Sets, SetsTo(dur[k]))
          \/ NoneIn(ops[k], Sets) /\ wait[k] = dur[k]
Agrees(k) ==
    /\ NoneIn(todo, OrdersOf(k, Sets \ SetsTo(dur[k])))
    /\ NoneIn(todo, OrdersOf(k, Sets)) => Arrives(k)

\* Nothing can set timer k off.
Silent(k) ==
    /\ NoneIn(todo, OrdersOf(k, Starts))
    /\ NoneIn(ctr, OrdersOf(k, Starts))
    /\ NoneIn(ops[k], Starts)
    /\ wait[k] = FarFuture

LoopType ==
    /\ todo \in Seq(Loop!Order) /\ ctr \in Seq(Loop!Order)
    /\ ops \in [TimerKind -> Seq(Loop!Operation)]
    /\ wait \in [TimerKind -> Nat]
    /\ task \in [TimerKind -> Loop!TaskState]

Tasks ==
    /\ \A k \in TimerKind : task[k] = "sending" => wait[k] # FarFuture
    /\ Alive => \A k \in TimerKind : task[k] # "panicked"

InForce(k) == Agrees(k) /\ (dur[k] = FarFuture /\ k \notin late => Silent(k))

LoopInv == LoopType /\ Tasks /\ (Alive => \A k \in TimerKind : InForce(k))

\* An operation sets the duration it carries, or leaves it alone.
LEMMA Applied ==
    ASSUME NEW op \in Loop!Operation, NEW d \in Nat
    PROVE  /\ Loop!Apply(op, d) \in Nat
           /\ op \in Sets => op \in SetsTo(Loop!Apply(op, d))
           /\ op \notin Sets => Loop!Apply(op, d) = d
           /\ op \notin Starts => Loop!Apply(op, d) \in {d, FarFuture}
  BY FarFutureAssumption
  DEF Loop!Apply, Loop!Operation, Sets, SetsTo, Starts

\* An order has a timer and an operation.
LEMMA Ordered ==
    ASSUME NEW o \in Loop!Order
    PROVE  o.kind \in TimerKind /\ o.op \in Loop!Operation
  BY DEF Loop!Order

\* The next order of an arm leaves what is in force.
LEMMA OrderKeeps ==
    ASSUME LoopInv, TimedOrder
    PROVE  LoopInv'
  <1> DEFINE o == Head(todo)
  <1>1. /\ todo \in Seq(Loop!Order) /\ todo # <<>> /\ ctr \in Seq(Loop!Order)
        /\ todo' = Tail(todo) /\ ctr' = Append(ctr, o)
        /\ UNCHANGED <<fsm, dur, late, ops, wait, task>>
    BY DEF LoopInv, LoopType, TimedOrder, Loop!RunOrders, vars
  <1>2. o \in Loop!Order /\ todo' \in Seq(Loop!Order) /\ ctr' \in Seq(Loop!Order)
    BY <1>1, Taken, AppendProperties
  <1>3. LoopType' /\ Tasks'
    BY <1>1, <1>2 DEF LoopInv, LoopType, Tasks, Alive
  <1> HIDE DEF o
  <1>4. ASSUME NEW k \in TimerKind, InForce(k) PROVE InForce(k)'
    <2>1. Agrees(k) /\ (dur[k] = FarFuture /\ k \notin late => Silent(k))
      BY <1>4 DEF InForce
    <2>2. ASSUME NEW M
          PROVE  /\ NoneIn(todo, M) <=> o \notin M /\ NoneIn(todo', M)
                 /\ o \notin M /\ NoneIn(ctr, M) => NoneIn(ctr', M)
      BY <1>1, <1>2, Taken, Added DEF o
    <2>3. ASSUME NEW M, NEW D
          PROVE  /\ o \in D => LastIn(ctr', M, D)
                 /\ o \notin M /\ LastIn(ctr, M, D) => LastIn(ctr', M, D)
      BY <1>1, <1>2, Added
    <2>4. NoneIn(todo', OrdersOf(k, Sets \ SetsTo(dur[k])))
      BY <2>1, <2>2 DEF Agrees
    <2>5. ASSUME NoneIn(todo', OrdersOf(k, Sets)) PROVE Arrives(k)'
      <3>1. CASE o \in OrdersOf(k, Sets)
        <4>1. o \notin OrdersOf(k, Sets \ SetsTo(dur[k]))
          BY <2>1, <2>2 DEF Agrees
        <4>2. o \in OrdersOf(k, SetsTo(dur[k]))
          BY <3>1, <4>1 DEF OrdersOf
        <4> QED BY <1>1, <2>3, <4>2 DEF Arrives
      <3>2. CASE o \notin OrdersOf(k, Sets)
        <4>1. Arrives(k)
          BY <2>1, <2>2, <2>5, <3>2 DEF Agrees
        <4> QED BY <1>1, <2>2, <2>3, <3>2, <4>1 DEF Arrives
      <3> QED BY <3>1, <3>2
    <2>6. ASSUME Silent(k) PROVE Silent(k)'
      BY <1>1, <2>2, <2>6 DEF Silent
    <2> QED BY <1>1, <2>1, <2>4, <2>5, <2>6 DEF InForce, Agrees
  <1> QED BY <1>1, <1>3, <1>4 DEF LoopInv, Alive

\* So does an order handed to its timer.
LEMMA ForwardKeeps ==
    ASSUME LoopInv, UNCHANGED vars, Loop!Forward
    PROVE  LoopInv'
  <1> DEFINE o == Head(ctr)
  <1>1. /\ ctr \in Seq(Loop!Order) /\ ctr # <<>>
        /\ ops \in [TimerKind -> Seq(Loop!Operation)]
        /\ ctr' = Tail(ctr) /\ ops' = [ops EXCEPT ![o.kind] = Append(ops[o.kind], o.op)]
        /\ UNCHANGED <<fsm, dur, late, todo, wait, task>>
    BY DEF LoopInv, LoopType, Loop!Forward, vars
  <1>2. o \in Loop!Order /\ ctr' \in Seq(Loop!Order)
    BY <1>1, Taken
  <1>3. o.kind \in TimerKind /\ o.op \in Loop!Operation
    BY <1>2, Ordered
  <1>4. ops' \in [TimerKind -> Seq(Loop!Operation)]
    BY <1>1, <1>3, AppendProperties
  <1>5. LoopType' /\ Tasks'
    BY <1>1, <1>2, <1>4 DEF LoopInv, LoopType, Tasks, Alive
  <1>6. ASSUME NEW M, NEW D
        PROVE  /\ NoneIn(ctr, M) <=> o \notin M /\ NoneIn(ctr', M)
               /\ LastIn(ctr, M, D) => \/ LastIn(ctr', M, D)
                                       \/ o \in D /\ NoneIn(ctr', M)
    BY <1>1, Taken
  <1> HIDE DEF o
  <1>7. ASSUME NEW k \in TimerKind, InForce(k) PROVE InForce(k)'
    <2>1. Agrees(k) /\ (dur[k] = FarFuture /\ k \notin late => Silent(k))
      BY <1>7 DEF InForce
    <2>2. o.kind # k => o \notin OrdersOf(k, Sets) /\ o \notin OrdersOf(k, Starts)
      BY DEF OrdersOf
    <2>3. CASE o.kind # k
      <3>1. ops'[k] = ops[k]
        BY <1>1, <1>3, <2>3
      <3>2. o \notin OrdersOf(k, SetsTo(dur[k]))
        BY <2>3 DEF OrdersOf
      <3>3. Arrives(k) => Arrives(k)'
        BY <1>1, <1>6, <2>2, <2>3, <3>1, <3>2 DEF Arrives
      <3>4. Silent(k) => Silent(k)'
        BY <1>1, <1>6, <3>1 DEF Silent
      <3> QED BY <1>1, <2>1, <3>3, <3>4 DEF InForce, Agrees
    <2>4. CASE o.kind = k
      <3>1. ops'[k] = Append(ops[k], o.op) /\ ops[k] \in Seq(Loop!Operation)
        BY <1>1, <1>3, <2>4
      <3>2. ASSUME NEW M, NEW D
            PROVE  /\ o.op \in D => LastIn(ops'[k], M, D)
                   /\ o.op \notin M /\ LastIn(ops[k], M, D) => LastIn(ops'[k], M, D)
                   /\ o.op \notin M /\ NoneIn(ops[k], M) => NoneIn(ops'[k], M)
        <4> DEFINE s == ops[k]
                   x == o.op
                   t == Append(s, x)
        <4>1. s \in Seq(Loop!Operation) /\ x \in Loop!Operation /\ ops'[k] = t
          BY <1>3, <3>1
        <4> HIDE DEF s, x, t
        <4>2. /\ x \in D => LastIn(t, M, D)
              /\ x \notin M /\ LastIn(s, M, D) => LastIn(t, M, D)
              /\ x \notin M /\ NoneIn(s, M) => NoneIn(t, M)
          BY <4>1, Added DEF t
        <4> QED BY <4>1, <4>2 DEF s, x
      <3>3. \A O : o \in OrdersOf(k, O) <=> o.op \in O
        BY <1>2, <2>4 DEF OrdersOf
      <3>4. Arrives(k) => Arrives(k)'
        BY <1>1, <1>6, <3>2, <3>3 DEF Arrives
      <3>5. Silent(k) => Silent(k)'
        BY <1>1, <1>6, <3>2, <3>3 DEF Silent
      <3> QED BY <1>1, <2>1, <3>4, <3>5 DEF InForce, Agrees
    <2> QED BY <2>3, <2>4
  <1> QED BY <1>1, <1>5, <1>7 DEF LoopInv, Alive

\* An operation applied leaves what is in force, and a timer with nothing on
\* its way any more waits on what run ordered.
LEMMA ApplyKeeps ==
    ASSUME LoopInv, NEW k \in TimerKind, TimedApply(k)
    PROVE  LoopInv'
  <1> DEFINE op == Head(ops[k])
             w == Loop!Apply(op, wait[k])
  <1>1. /\ ops \in [TimerKind -> Seq(Loop!Operation)] /\ ops[k] # <<>>
        /\ wait \in [TimerKind -> Nat] /\ task[k] = "waiting"
        /\ ops' = [ops EXCEPT ![k] = Tail(ops[k])]
        /\ wait' = [wait EXCEPT ![k] = w]
        /\ UNCHANGED <<fsm, dur, todo, ctr, task>>
    BY DEF LoopInv, LoopType, TimedApply, Loop!TimerApplies
  <1>2. ops[k] \in Seq(Loop!Operation) /\ wait[k] \in Nat
    BY <1>1
  <1>3. op \in Loop!Operation /\ ops' \in [TimerKind -> Seq(Loop!Operation)]
    BY <1>1, <1>2, Taken
  <1>4. /\ w \in Nat
        /\ op \in Sets => op \in SetsTo(w)
        /\ op \notin Sets => w = wait[k]
        /\ op \notin Starts => w \in {wait[k], FarFuture}
    BY <1>2, <1>3, Applied
  <1>5. /\ ops'[k] = Tail(ops[k]) /\ wait'[k] = w
        /\ \A j \in TimerKind \ {k} : ops'[j] = ops[j] /\ wait'[j] = wait[j]
    BY <1>1
  <1>6. ASSUME NEW M, NEW D
        PROVE  /\ NoneIn(ops[k], M) <=> op \notin M /\ NoneIn(ops'[k], M)
               /\ LastIn(ops[k], M, D) => \/ LastIn(ops'[k], M, D)
                                          \/ op \in D /\ NoneIn(ops'[k], M)
    <2> DEFINE s == ops[k]
               t == Tail(s)
    <2>1. s \in Seq(Loop!Operation) /\ s # <<>> /\ ops'[k] = t /\ op = Head(s)
      BY <1>1, <1>2, <1>5
    <2> HIDE DEF s, t, op
    <2>2. /\ NoneIn(s, M) <=> Head(s) \notin M /\ NoneIn(t, M)
          /\ LastIn(s, M, D) => \/ LastIn(t, M, D)
                                \/ Head(s) \in D /\ NoneIn(t, M)
      BY <2>1, Taken DEF t
    <2> QED BY <2>1, <2>2 DEF s
  <1> HIDE DEF op, w
  <1>7. LoopType' /\ Tasks'
    <2>1. wait' \in [TimerKind -> Nat]
      BY <1>1, <1>4
    <2>2. ASSUME NEW j \in TimerKind, task[j] = "sending" PROVE wait'[j] = wait[j]
      BY <1>1, <1>5, <2>2
    <2> QED BY <1>1, <1>3, <2>1, <2>2 DEF LoopInv, LoopType, Tasks, Alive
  <1>8. ASSUME Alive, NEW j \in TimerKind, InForce(j) PROVE InForce(j)'
    <2>1. Agrees(j) /\ (dur[j] = FarFuture /\ j \notin late => Silent(j))
      BY <1>8 DEF InForce
    <2>2. CASE j # k
      <3>1. j \in late' <=> j \in late
        BY <2>2 DEF TimedApply
      <3>2. Agrees(j)' /\ (Silent(j) => Silent(j)')
        BY <1>1, <1>5, <2>1, <2>2 DEF Agrees, Arrives, Silent
      <3> QED BY <1>1, <2>1, <3>1, <3>2 DEF InForce
    <2>3. CASE j = k
      <3>1. Arrives(k) => Arrives(k)'
        <4>1. SUFFICES ASSUME NoneIn(ctr, OrdersOf(k, Sets)),
                              \/ LastIn(ops[k], Sets, SetsTo(dur[k]))
                              \/ NoneIn(ops[k], Sets) /\ wait[k] = dur[k]
                       PROVE  \/ LastIn(ops'[k], Sets, SetsTo(dur[k]))
                              \/ NoneIn(ops'[k], Sets) /\ w = dur[k]
          BY <1>1, <1>5 DEF Arrives
        <4>2. op \in SetsTo(dur[k]) => w = dur[k]
          BY <1>4 DEF SetsTo
        <4> QED BY <1>4, <1>6, <4>1, <4>2
      <3>2. Agrees(k)'
        BY <1>1, <2>1, <2>3, <3>1 DEF Agrees
      <3>3. Silent(k) => Silent(k)'
        BY <1>1, <1>4, <1>5, <1>6 DEF Silent
      <3>4. ASSUME k \in late, k \notin late', dur[k] = FarFuture
            PROVE  Silent(k)'
        <4>1. ~Coming(k)'
          BY <1>8, <3>4 DEF TimedApply, Alive
        <4>2. /\ NoneIn(todo', OrdersOf(k, Sets))
              /\ NoneIn(ctr', OrdersOf(k, Sets))
              /\ NoneIn(ops'[k], Sets)
          BY <4>1 DEF Coming, Loop!Queued, Loop!Handed, NoneIn, OrdersOf, Sets
        <4>3. LastIn(ctr', OrdersOf(k, Sets), OrdersOf(k, SetsTo(dur[k]))) => FALSE
          BY <4>2 DEF LastIn, NoneIn, OrdersOf, SetsTo
        <4>4. LastIn(ops'[k], Sets, SetsTo(dur[k])) => FALSE
          BY <4>2 DEF LastIn, NoneIn, SetsTo
        <4>5. wait'[k] = FarFuture
          BY <1>1, <3>2, <3>4, <4>2, <4>3, <4>4 DEF Agrees, Arrives
        <4> QED BY <4>2, <4>5 DEF Silent, NoneIn, OrdersOf, Starts
      <3>5. k \in late' => k \in late
        BY DEF TimedApply
      <3> QED BY <1>1, <2>1, <2>3, <3>2, <3>3, <3>4, <3>5 DEF InForce
    <2> QED BY <2>2, <2>3
  <1> QED BY <1>1, <1>7, <1>8 DEF LoopInv, Alive

\* The steps that neither order nor apply anything.
LEMMA IdleKeeps ==
    ASSUME LoopInv, UNCHANGED <<fsm, dur, late, todo, ops, wait>>,
           \/ UNCHANGED <<ctr, task>>
           \/ \E k \in TimerKind :
                 \/ Loop!TimerExpires(k) \/ Loop!TimerSends(k)
                 \/ Loop!TimerPanics(k) \/ Loop!TimerSpins(k)
           \/ Loop!ForwarderPanics \/ Loop!ForwarderEnds
    PROVE  LoopInv'
  <1>1. CASE UNCHANGED ctr
    <2>1. \A k \in TimerKind : InForce(k) => InForce(k)'
      BY <1>1 DEF InForce, Agrees, Arrives, Silent
    <2>2. LoopType' /\ Tasks'
      BY <1>1 DEF LoopInv, LoopType, Tasks, Alive, Loop!TaskState,
                  Loop!TimerExpires, Loop!TimerSends, Loop!TimerPanics,
                  Loop!TimerSpins, Loop!ForwarderPanics, Loop!ForwarderEnds
    <2> QED BY <2>1, <2>2 DEF LoopInv, Alive
  <1>2. CASE Loop!ForwarderPanics
    <2>1. ctr \in Seq(Loop!Order) /\ ctr # <<>> /\ task[Head(ctr).kind] = "panicked"
      BY <1>2 DEF Loop!ForwarderPanics, LoopInv, LoopType
    <2>2. Head(ctr).kind \in TimerKind
      BY <2>1, Taken, Ordered
    <2>3. ~Alive
      BY <2>1, <2>2 DEF LoopInv, Tasks
    <2>4. ctr' \in Seq(Loop!Order) /\ UNCHANGED task
      BY <1>2 DEF Loop!ForwarderPanics
    <2> QED BY <2>3, <2>4 DEF LoopInv, LoopType, Tasks, Alive
  <1> QED
    BY <1>1, <1>2
    DEF Loop!TimerExpires, Loop!TimerSends, Loop!TimerPanics, Loop!TimerSpins,
        Loop!ForwarderEnds

\* An arm begins: what it will order is what run believes in, and a timer it
\* stops may be late.
LEMMA ArmKeeps ==
    ASSUME LoopInv, Alive, todo = <<>>, Lag, NEW x, ArmBegins(x)
    PROVE  LoopInv'
  <1>1. CASE fsm'.state = "Panicked" /\ Loop!RunEnds
    <2>1. todo' = <<>> /\ UNCHANGED <<ctr, ops, wait, task>> /\ ~Alive'
      BY <1>1 DEF Loop!RunEnds, Alive
    <2>2. todo' \in Seq(Loop!Order)
      BY <2>1
    <2> QED BY <2>1, <2>2 DEF LoopInv, LoopType, Tasks
  <1>2. ASSUME NEW a \in Arm, Gives(a), todo' = a, Alive',
               UNCHANGED <<ctr, ops, wait, task>>
        PROVE  LoopInv'
    <2>1. a \in Seq(Loop!Order)
      BY TimedAssumption
    <2>2. LoopType' /\ Tasks'
      BY <1>2, <2>1 DEF LoopInv, LoopType, Tasks
    <2>3. \A i \in DOMAIN a : a[i] \in Loop!Order
      BY <2>1
    <2>4. ASSUME NEW k \in TimerKind PROVE InForce(k)'
      <3>1. InForce(k)
        BY DEF LoopInv
      <3>2. \A M : NoneIn(todo, M)
        BY DEF NoneIn
      <3>3. Arrives(k)
        BY <3>1, <3>2 DEF InForce, Agrees
      <3>4. NoneIn(a, OrdersOf(k, Sets \ SetsTo(dur'[k])))
        BY <1>2 DEF Gives, NoneIn, OrdersOf, Sets, SetsTo
      <3>5. ASSUME NoneIn(a, OrdersOf(k, Sets)) PROVE dur'[k] = dur[k]
        <4>1. ASSUME NEW i \in DOMAIN a, a[i].kind = k, a[i].op.op # "Restart"
              PROVE  FALSE
          <5>1. a[i] \in Loop!Order /\ a[i].op \in Loop!Operation
            BY <2>3, Ordered
          <5>2. a[i] \in OrdersOf(k, Sets)
            BY <4>1, <5>1 DEF OrdersOf, Sets
          <5> QED BY <3>5, <5>2 DEF NoneIn
        <4> QED BY <1>2, <4>1 DEF Gives
      <3>6. Agrees(k)'
        BY <1>2, <3>3, <3>4, <3>5 DEF Agrees, Arrives
      <3>7. ASSUME dur'[k] = FarFuture, k \notin late' PROVE Silent(k)'
        <4>1. dur[k] = FarFuture /\ k \notin late
          BY <3>7, TimedAssumption DEF Lag
        <4>2. Silent(k)
          BY <3>1, <4>1 DEF InForce
        <4>3. NoneIn(a, OrdersOf(k, Starts))
          BY <1>2, <3>7 DEF Gives, NoneIn, OrdersOf, Sets, Starts
        <4> QED BY <1>2, <4>2, <4>3 DEF Silent
      <3> QED BY <3>6, <3>7 DEF InForce
    <2> QED BY <2>2, <2>4 DEF LoopInv
  <1> QED
    BY <1>1, <1>2
    DEF ArmBegins, Alive, loopVars, Loop!RunTakesExpiry, Loop!RunTakesEvent,
        Loop!RunTakes

(***************************************************************************)
(* The session over its timers implements the session                      *)
(***************************************************************************)
\* run does not come back.
LEMMA StaysDead ==
    ASSUME IInv, [Next]_vars, Alive'
    PROVE  Alive
  <1>1. ASSUME NEW e \in Event, Effect(e) PROVE Alive
    BY <1>1 DEF Effect, Rests, Begins, Falls, Waits, Adopts, Opens, SendsOpen,
                Retreats, Confirms, Keeps, Replaces, Opening, Opened, Confirmed,
                Alive
  <1> QED BY <1>1, StepEffect DEF Alive

\* As many expiries as events.
LEMMA ExpiriesLength ==
    ASSUME IInv, Alive
    PROVE  Len(Expiries) = Len(chan["Timer"])
  <1> DEFINE s == chan["Timer"]
             S == {KindOf(s[i]) : i \in DOMAIN s}
             t == [i \in DOMAIN s |-> KindOf(s[i])]
  <1>1. s \in Seq(Event)
    BY DEF IInv, Queues, Source
  <1>2. Expiries = t
    BY DEF Expiries, Alive
  <1> HIDE DEF s
  <1>3. DOMAIN s = 1 .. Len(s) /\ Len(s) \in Nat
    BY <1>1
  <1>4. t \in [1 .. Len(s) -> S]
    BY <1>3
  <1>5. t \in Seq(S)
    BY <1>3, <1>4, SeqDef
  <1> HIDE DEF t, S
  <1>6. Len(t) = Len(s)
    BY <1>3, <1>4, <1>5, LenProperties
  <1> QED BY <1>2, <1>6 DEF s

\* An expiry that a timer task sends is one that Session allows.
LEMMA SendAllowed ==
    ASSUME IInv, LoopInv, NEW k \in TimerKind, TimedSend(k)
    PROVE  TimerExpires(k)
  <1> DEFINE x == Ev(Expiry[k])
  <1>1. Alive /\ task[k] = "sending" /\ Len(Expiries) < ChanCap["Timer"]
    BY DEF TimedSend, Loop!TimerSends, Alive
  <1>2. wait[k] # FarFuture
    BY <1>1 DEF LoopInv, Tasks
  <1>3. dur[k] # FarFuture \/ k \in late
    BY <1>1, <1>2 DEF LoopInv, InForce, Silent
  <1>4. /\ chan["Timer"] \in Seq(Event) /\ ChanCap["Timer"] \in Nat
        /\ chan \in [Source -> Seq(Event)] /\ "Timer" \in Source
    BY ChanAssumption DEF IInv, Queues, Source
  <1>5. x \in Event
    BY ExpiryType, EventTypes DEF Ev
  <1>6. Len(chan["Timer"]) + Len(<<x>>) <= ChanCap["Timer"]
    <2>1. Len(chan["Timer"]) \in Nat /\ Len(<<x>>) = 1
      BY <1>4
    <2> QED BY <1>1, <1>4, <2>1, ExpiriesLength
  <1>7. Append(chan["Timer"], x) = chan["Timer"] \o <<x>>
    BY <1>4, <1>5, AppendIsConcat
  <1>8. Send("Timer", <<x>>) /\ UNCHANGED <<conn, owed>>
    BY <1>1, <1>6, <1>7 DEF TimedSend, Send, Alive
  <1> QED BY <1>3, <1>8 DEF TimerExpires

\* Every step is one of Session or invisible to it.
LEMMA StepAllowed ==
    ASSUME IInv, LoopInv, [TimedNext]_timedVars
    PROVE  [Next]_vars
  <1>1. ASSUME NEW src \in Source, TimedRun(src) PROVE Next
    BY <1>1 DEF TimedRun, Next
  <1>2. ASSUME NEW t \in AdminEvent, TimedRunAdmin(t) PROVE Next
    BY <1>2 DEF TimedRunAdmin, Next
  <1>3. ASSUME NEW k \in TimerKind, TimedSend(k) PROVE Next
    BY <1>3, SendAllowed DEF Next
  <1>4. ASSUME NEW k \in TimerKind, TimedApply(k) PROVE [Next]_vars
    <2>1. CASE UNCHANGED late
      BY <1>4, <2>1 DEF TimedApply, vars
    <2>2. CASE ~UNCHANGED late
      <3>1. TimerCatchesUp(k)
        BY <1>4, <2>2 DEF TimedApply, TimerCatchesUp
      <3> QED BY <3>1 DEF Next
    <2> QED BY <2>1, <2>2
  <1>5. CASE Others
    BY <1>5 DEF Others, Next
  <1>6. CASE UNCHANGED vars
    BY <1>6
  <1> QED
    BY <1>1, <1>2, <1>3, <1>4, <1>5, <1>6
    DEF TimedNext, TimedOrder, TimedForward, TimedExpire, timedVars

\* Every step preserves the invariant of the timers.
LEMMA StepLoop ==
    ASSUME IInv, LoopInv, [TimedNext]_timedVars
    PROVE  LoopInv'
  <1>1. Alive' => Alive
    BY StepAllowed, StaysDead
  <1>2. ASSUME NEW x, todo = <<>>, Lag, ArmBegins(x) PROVE LoopInv'
    <2>1. Alive
      BY <1>1, <1>2 DEF ArmBegins, Loop!RunEnds, Alive
    <2> QED BY <1>2, <2>1, ArmKeeps
  <1>3. ASSUME NEW src \in Source, TimedRun(src) PROVE LoopInv'
    BY <1>2, <1>3 DEF TimedRun, Run
  <1>4. ASSUME NEW t \in AdminEvent, TimedRunAdmin(t) PROVE LoopInv'
    BY <1>2, <1>4 DEF TimedRunAdmin, RunAdmin
  <1>5. CASE TimedOrder
    BY <1>5, OrderKeeps
  <1>6. CASE TimedForward
    BY <1>6, ForwardKeeps, IdleKeeps
    DEF TimedForward, vars, Loop!ForwarderPanics, Loop!ForwarderEnds
  <1>7. ASSUME NEW k \in TimerKind, TimedApply(k) PROVE LoopInv'
    BY <1>7, ApplyKeeps
  <1>8. ASSUME NEW k \in TimerKind, TimedExpire(k) \/ TimedSend(k) PROVE LoopInv'
    BY <1>8, IdleKeeps
    DEF TimedExpire, TimedSend, vars, Loop!TimerExpires, Loop!TimerPanics,
        Loop!TimerSpins, Loop!TimerSends
  <1>9. CASE Others
    <2>1. UNCHANGED <<fsm, dur, late>>
      BY <1>9 DEF Others, TryTcpConn, ProcessPassive, ProcessReads,
                  ProcessReadFails, ProcessOutClosed, ProcessOneReads,
                  ProcessOneSendsOpen, Send
    <2> QED BY <1>9, <2>1, IdleKeeps DEF Others, loopVars
  <1>10. CASE UNCHANGED timedVars
    BY <1>10, IdleKeeps DEF timedVars, vars, loopVars
  <1> QED
    BY <1>3, <1>4, <1>5, <1>6, <1>7, <1>8, <1>9, <1>10 DEF TimedNext

\* The invariant holds before the first event.
LEMMA InitLoop == TimedInit => LoopInv
  <1> SUFFICES ASSUME TimedInit PROVE LoopInv
    OBVIOUS
  <1>1. /\ todo = <<>> /\ ctr = <<>>
        /\ ops = [k \in TimerKind |-> <<>>]
        /\ wait = [k \in TimerKind |-> FarFuture]
        /\ task = [k \in TimerKind |-> "waiting"]
        /\ dur = [k \in TimerKind |-> FarFuture]
    BY DEF TimedInit, Init, Loop!Init
  <1>2. LoopType /\ Tasks
    BY <1>1, FarFutureAssumption DEF LoopType, Tasks, Loop!TaskState
  <1>3. \A k \in TimerKind : InForce(k)
    BY <1>1 DEF InForce, Agrees, Arrives, Silent, NoneIn
  <1> QED BY <1>2, <1>3 DEF LoopInv

\* A session over timer_loop is a session: run with its match arms, the
\* forwarder, the timer tasks and the channels between them do nothing that
\* Session, with every timer slow, does not allow.
THEOREM TimedSessionRefines == TimedSpec => ImplementsSession
  <1>1. TimedInit => Init /\ IInv /\ LoopInv
    BY InitInv, InitLoop DEF TimedInit
  <1>2. IInv /\ LoopInv /\ [TimedNext]_timedVars => [Next]_vars /\ IInv' /\ LoopInv'
    BY StepAllowed, StepLoop, NextInv
  <1> QED BY <1>1, <1>2, PTL DEF TimedSpec, ImplementsSession, Spec
=============================================================================
