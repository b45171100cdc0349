-------------------------- MODULE TimerLoopProofs --------------------------
(***************************************************************************)
(* timer_loop keeps every order and implements TimerService, for any set   *)
(* of timers, any arms and any capacities.                                 *)
(*                                                                         *)
(* OrdersKept speaks of the last order on its way to a timer.  It is       *)
(* inductive together with Running: a task sends only expiries of the      *)
(* duration it waits on, and no task has panicked while run lives, so that *)
(* the forwarder never drops an order that still counts.                   *)
(***************************************************************************)
EXTENDS TimerLoop, SequenceTheorems, TLAPS

Running ==
    /\ \A k \in TimerKind : task[k] = "sending" => dur[k] # FarFuture
    /\ alive => \A k \in TimerKind : task[k] # "panicked"

IInv == TypeOK /\ OrdersKept /\ Running

(***************************************************************************)
(* Operations and orders                                                   *)
(***************************************************************************)
\* An operation sets the duration it carries, or leaves it alone.
LEMMA ApplyOperation ==
    ASSUME NEW op \in Operation, NEW d \in Nat
    PROVE  /\ Apply(op, d) \in Nat
           /\ Apply(op, d) = IF op.op = "Restart" THEN d ELSE op.duration
  BY TimerAssumption DEF Apply, Operation

\* An order has a timer and an operation.
LEMMA OrderFields ==
    ASSUME NEW o \in Order
    PROVE  o.kind \in TimerKind /\ o.op \in Operation
  BY DEF Order

(***************************************************************************)
(* The orders on their way                                                 *)
(***************************************************************************)
\* Positions are positive.
LEMMA Positions ==
    ASSUME ctr \in Seq(Order), ops \in [TimerKind -> Seq(Operation)],
           NEW k \in TimerKind
    PROVE  /\ \A i \in Queued(k) : i \in Nat \ {0} /\ i <= Len(ctr)
           /\ \A i \in Handed(k) : i \in Nat \ {0} /\ i <= Len(ops[k])
           /\ Len(ctr) \in Nat /\ Len(ops[k]) \in Nat
  <1>1. DOMAIN ctr = 1 .. Len(ctr) /\ Len(ctr) \in Nat
    OBVIOUS
  <1>2. ops[k] \in Seq(Operation)
    OBVIOUS
  <1>3. DOMAIN ops[k] = 1 .. Len(ops[k]) /\ Len(ops[k]) \in Nat
    BY <1>2
  <1> QED BY <1>1, <1>3 DEF Queued, Handed

\* Taking the oldest order from ctr moves the others up.
LEMMA QueuedTail ==
    ASSUME ctr \in Seq(Order), ctr # <<>>, ctr' = Tail(ctr), NEW k \in TimerKind
    PROVE  /\ \A i \in Queued(k)' : i \in Nat \ {0} /\ i + 1 \in Queued(k)
           /\ \A i \in Queued(k) : i = 1 \/ (i - 1 \in Queued(k)' /\ i - 1 \in Nat)
           /\ \A i \in Queued(k)' : ctr'[i] = ctr[i + 1]
  <1>1. /\ ctr' \in Seq(Order)
        /\ Len(ctr) \in Nat
        /\ Len(ctr') = Len(ctr) - 1
        /\ \A i \in 1 .. Len(ctr') : ctr'[i] = ctr[i + 1]
    BY HeadTailProperties, LenProperties
  <1>2. DOMAIN ctr = 1 .. Len(ctr) /\ DOMAIN ctr' = 1 .. Len(ctr')
    BY <1>1, LenProperties
  <1> QED BY <1>1, <1>2 DEF Queued

\* Adding an order to ctr leaves the others where they are.
LEMMA QueuedAppend ==
    ASSUME ctr \in Seq(Order), NEW o \in Order, ctr' = Append(ctr, o),
           NEW k \in TimerKind
    PROVE  /\ Queued(k)' = IF o.kind = k /\ o.op.op # "Restart"
                           THEN Queued(k) \cup {Len(ctr) + 1} ELSE Queued(k)
           /\ \A i \in Queued(k) : ctr'[i] = ctr[i]
           /\ ctr'[Len(ctr) + 1] = o
           /\ Len(ctr) \in Nat
           /\ \A i \in Queued(k) : i \in Nat /\ i <= Len(ctr)
  <1>1. /\ ctr' \in Seq(Order)
        /\ Len(ctr) \in Nat
        /\ Len(ctr') = Len(ctr) + 1
        /\ \A i \in 1 .. Len(ctr) : ctr'[i] = ctr[i]
        /\ ctr'[Len(ctr) + 1] = o
    BY AppendProperties, LenProperties
  <1>2. DOMAIN ctr = 1 .. Len(ctr) /\ DOMAIN ctr' = 1 .. Len(ctr) + 1
    BY <1>1, LenProperties
  <1> QED BY <1>1, <1>2 DEF Queued

\* The same for the operations of one timer.
LEMMA HandedTail ==
    ASSUME ops \in [TimerKind -> Seq(Operation)], NEW k \in TimerKind,
           ops[k] # <<>>, ops'[k] = Tail(ops[k])
    PROVE  /\ \A i \in Handed(k)' : i \in Nat \ {0} /\ i + 1 \in Handed(k)
           /\ \A i \in Handed(k) : i = 1 \/ (i - 1 \in Handed(k)' /\ i - 1 \in Nat)
           /\ \A i \in Handed(k)' : ops'[k][i] = ops[k][i + 1]
  <1>1. ops[k] \in Seq(Operation)
    OBVIOUS
  <1>2. /\ ops'[k] \in Seq(Operation)
        /\ Len(ops[k]) \in Nat
        /\ Len(ops'[k]) = Len(ops[k]) - 1
        /\ \A i \in 1 .. Len(ops'[k]) : ops'[k][i] = ops[k][i + 1]
    BY <1>1, HeadTailProperties, LenProperties
  <1>3. DOMAIN ops[k] = 1 .. Len(ops[k]) /\ DOMAIN ops'[k] = 1 .. Len(ops'[k])
    BY <1>1, <1>2, LenProperties
  <1> QED BY <1>2, <1>3 DEF Handed

\* An operation handed to a timer's task comes after the others.
LEMMA HandedAppend ==
    ASSUME ops \in [TimerKind -> Seq(Operation)], NEW k \in TimerKind,
           NEW op \in Operation, ops'[k] = Append(ops[k], op)
    PROVE  /\ Handed(k)' = IF op.op # "Restart"
                           THEN Handed(k) \cup {Len(ops[k]) + 1} ELSE Handed(k)
           /\ \A i \in Handed(k) : ops'[k][i] = ops[k][i]
           /\ ops'[k][Len(ops[k]) + 1] = op
           /\ Len(ops[k]) \in Nat
           /\ \A i \in Handed(k) : i \in Nat /\ i <= Len(ops[k])
  <1>1. ops[k] \in Seq(Operation)
    OBVIOUS
  <1>2. /\ ops'[k] \in Seq(Operation)
        /\ Len(ops[k]) \in Nat
        /\ Len(ops'[k]) = Len(ops[k]) + 1
        /\ \A i \in 1 .. Len(ops[k]) : ops'[k][i] = ops[k][i]
        /\ ops'[k][Len(ops[k]) + 1] = op
    BY <1>1, AppendProperties, LenProperties
  <1>3. DOMAIN ops[k] = 1 .. Len(ops[k]) /\ DOMAIN ops'[k] = 1 .. Len(ops[k]) + 1
    BY <1>1, <1>2, LenProperties
  <1> QED BY <1>2, <1>3 DEF Handed

(***************************************************************************)
(* Types                                                                   *)
(***************************************************************************)
\* Every step preserves the types and the bounds of the channels.
LEMMA NextType == TypeOK /\ [Next]_vars => TypeOK'
  <1> SUFFICES ASSUME TypeOK, [Next]_vars PROVE TypeOK'
    OBVIOUS
  <1>1. ASSUME NEW a \in Arm, RunTakesEvent(a) \/ RunTakesExpiry(a) PROVE TypeOK'
    <2>1. a \in Seq(Order)
      BY ArmAssumption
    <2>2. out' \in Seq(TimerKind) /\ Len(out') <= OutCap
      <3>1. CASE out' = out
        BY <3>1 DEF TypeOK
      <3>2. CASE out # <<>> /\ out' = Tail(out)
        <4>1. out \in Seq(TimerKind) /\ Len(out) <= OutCap
          BY DEF TypeOK
        <4>2. /\ Tail(out) \in Seq(TimerKind)
              /\ Len(Tail(out)) = Len(out) - 1
              /\ Len(out) \in Nat
          BY <3>2, <4>1, HeadTailProperties, LenProperties
        <4> QED BY <3>2, <4>1, <4>2, TimerAssumption
      <3> QED BY <1>1, <3>1, <3>2 DEF RunTakesEvent, RunTakesExpiry
    <2> QED
      BY <1>1, <2>1, <2>2 DEF RunTakesEvent, RunTakesExpiry, RunTakes, TypeOK
  <1>2. CASE RunOrders
    <2>1. todo \in Seq(Order) /\ todo # <<>> /\ ctr \in Seq(Order)
      BY <1>2 DEF RunOrders, TypeOK
    <2>2. Head(todo) \in Order /\ Tail(todo) \in Seq(Order)
      BY <2>1, HeadTailProperties
    <2>3. /\ ctr' \in Seq(Order)
          /\ Len(ctr') = Len(ctr) + 1
          /\ Len(ctr) \in Nat
      BY <1>2, <2>1, <2>2, AppendProperties, LenProperties DEF RunOrders
    <2>4. Len(ctr') <= CtrCap
      BY <1>2, <2>3, TimerAssumption DEF RunOrders
    <2>5. ordered' \in [TimerKind -> Nat]
      BY <1>2, <2>2, ApplyOperation, OrderFields DEF RunOrders, TypeOK
    <2> QED BY <1>2, <2>2, <2>3, <2>4, <2>5 DEF RunOrders, TypeOK
  <1>3. CASE RunEnds
    <2>1. todo' = <<>> /\ out' = <<>> /\ alive' \in BOOLEAN
      BY <1>3 DEF RunEnds
    <2>2. todo' \in Seq(Order) /\ out' \in Seq(TimerKind) /\ Len(out') <= OutCap
      BY <2>1, EmptySeq, TimerAssumption
    <2> QED BY <1>3, <2>1, <2>2 DEF RunEnds, TypeOK
  <1>4. CASE Forward
    <2>1. ctr \in Seq(Order) /\ ctr # <<>> /\ Len(ctr) <= CtrCap
      BY <1>4 DEF Forward, TypeOK
    <2>2. /\ Head(ctr) \in Order
          /\ Tail(ctr) \in Seq(Order)
          /\ Len(Tail(ctr)) = Len(ctr) - 1
          /\ Len(ctr) \in Nat
      BY <2>1, HeadTailProperties, LenProperties
    <2>3. ops' \in [TimerKind -> Seq(Operation)]
      <3>1. Head(ctr).kind \in TimerKind /\ Head(ctr).op \in Operation
        BY <2>2, OrderFields
      <3>2. Append(ops[Head(ctr).kind], Head(ctr).op) \in Seq(Operation)
        BY <3>1, AppendProperties DEF TypeOK
      <3> QED BY <1>4, <3>1, <3>2 DEF Forward, TypeOK
    <2>4. Len(ctr') <= CtrCap
      BY <1>4, <2>1, <2>2, TimerAssumption DEF Forward
    <2> QED BY <1>4, <2>2, <2>3, <2>4 DEF Forward, TypeOK
  <1>5. CASE ForwarderPanics \/ ForwarderEnds
    <2>1. forwarder' \in BOOLEAN /\ ctr' = <<>>
      BY <1>5 DEF ForwarderPanics, ForwarderEnds
    <2>2. ctr' \in Seq(Order) /\ Len(ctr') <= CtrCap
      BY <2>1, EmptySeq, TimerAssumption
    <2> QED BY <1>5, <2>1, <2>2 DEF ForwarderPanics, ForwarderEnds, TypeOK
  <1>6. ASSUME NEW k \in TimerKind, TimerApplies(k) PROVE TypeOK'
    <2>1. ops[k] \in Seq(Operation) /\ ops[k] # <<>> /\ dur[k] \in Nat
      BY <1>6 DEF TimerApplies, TypeOK
    <2>2. Head(ops[k]) \in Operation /\ Tail(ops[k]) \in Seq(Operation)
      BY <2>1, HeadTailProperties
    <2>3. Apply(Head(ops[k]), dur[k]) \in Nat
      BY <2>1, <2>2, ApplyOperation
    <2> QED BY <1>6, <2>2, <2>3 DEF TimerApplies, TypeOK
  <1>7. ASSUME NEW k \in TimerKind, TimerSends(k) PROVE TypeOK'
    <2>1. /\ out' \in Seq(TimerKind)
          /\ Len(out') = Len(out) + 1
          /\ Len(out) \in Nat
      BY <1>7, AppendProperties, LenProperties DEF TimerSends, TypeOK
    <2>2. Len(out') <= OutCap
      BY <1>7, <2>1, TimerAssumption DEF TimerSends
    <2> QED BY <1>7, <2>1, <2>2 DEF TimerSends, TypeOK, TaskState
  <1>8. ASSUME NEW k \in TimerKind, TimerExpires(k) \/ TimerPanics(k) \/ TimerSpins(k)
        PROVE  TypeOK'
    BY <1>8 DEF TimerExpires, TimerPanics, TimerSpins, TypeOK, TaskState
  <1>9. CASE UNCHANGED vars
    BY <1>9 DEF vars, TypeOK
  <1> QED BY <1>1, <1>2, <1>3, <1>4, <1>5, <1>6, <1>7, <1>8, <1>9 DEF Next

(***************************************************************************)
(* No order is lost                                                        *)
(***************************************************************************)
\* A timer whose orders on their way do not change ends up as before.
LEMMA SameEnd ==
    ASSUME NEW k \in TimerKind, NEW d, EndsUpWith(k, d),
           UNCHANGED <<ctr, ops, dur>>
    PROVE  EndsUpWith(k, d)'
  BY DEF EndsUpWith, Queued, Handed, IsLast

\* A new order decides what its timer ends up with, and no other's.
LEMMA RunOrdersEnd ==
    ASSUME IInv, RunOrders, NEW k \in TimerKind
    PROVE  EndsUpWith(k, ordered[k])'
  <1> DEFINE o == Head(todo)
  <1>1. ctr \in Seq(Order) /\ o \in Order /\ ctr' = Append(ctr, o)
    <2>1. todo \in Seq(Order) /\ todo # <<>>
      BY DEF RunOrders, IInv, TypeOK
    <2> QED BY <2>1, HeadTailProperties DEF RunOrders, IInv, TypeOK
  <1>2. o.kind \in TimerKind /\ o.op \in Operation
    BY <1>1, OrderFields
  <1>3. ordered'[k] = IF o.kind = k THEN Apply(o.op, ordered[k]) ELSE ordered[k]
    BY <1>2 DEF RunOrders, IInv, TypeOK
  <1>4. EndsUpWith(k, ordered[k]) /\ ordered[k] \in Nat /\ UNCHANGED <<ops, dur>>
    BY DEF RunOrders, IInv, OrdersKept, TypeOK
  <1>5. Handed(k)' = Handed(k)
    BY <1>4 DEF Handed
  <1> HIDE DEF o
  <1>6. CASE o.kind = k /\ o.op.op # "Restart"
    <2>1. ordered'[k] = o.op.duration
      BY <1>2, <1>3, <1>4, <1>6, ApplyOperation
    <2>2. /\ Len(ctr) + 1 \in Queued(k)'
          /\ \A j \in Queued(k)' : j <= Len(ctr) + 1
          /\ ctr'[Len(ctr) + 1] = o
      BY <1>1, <1>6, QueuedAppend
    <2> QED BY <2>1, <2>2 DEF EndsUpWith, IsLast
  <1>7. CASE o.kind # k \/ o.op.op = "Restart"
    <2>1. ordered'[k] = ordered[k]
      BY <1>2, <1>3, <1>4, <1>7, ApplyOperation
    <2>2. Queued(k)' = Queued(k) /\ \A i \in Queued(k) : ctr'[i] = ctr[i]
      BY <1>1, <1>7, QueuedAppend
    <2> QED BY <1>4, <1>5, <2>1, <2>2 DEF EndsUpWith, IsLast
  <1> QED BY <1>6, <1>7

\* Forwarding an order does not change what any timer ends up with.
LEMMA ForwardEnd ==
    ASSUME TypeOK, Forward, NEW k \in TimerKind, NEW d, EndsUpWith(k, d)
    PROVE  EndsUpWith(k, d)'
  <1> DEFINE o == ctr[1]
  <1>1. /\ ctr \in Seq(Order) /\ ctr # <<>> /\ ctr' = Tail(ctr)
        /\ ops \in [TimerKind -> Seq(Operation)]
        /\ UNCHANGED dur
    BY DEF Forward, TypeOK
  <1>2. o = Head(ctr) /\ o \in Order /\ 1 \in DOMAIN ctr
    BY <1>1
  <1>3. /\ o.kind \in TimerKind /\ o.op \in Operation
        /\ ops' = [ops EXCEPT ![o.kind] = Append(ops[o.kind], o.op)]
    BY <1>2, OrderFields DEF Forward
  <1>4. 1 \in Queued(k) <=> o.kind = k /\ o.op.op # "Restart"
    BY <1>2 DEF Queued
  <1>5. /\ \A i \in Queued(k)' : i \in Nat \ {0} /\ i + 1 \in Queued(k)
        /\ \A i \in Queued(k) : i = 1 \/ (i - 1 \in Queued(k)' /\ i - 1 \in Nat)
        /\ \A i \in Queued(k)' : ctr'[i] = ctr[i + 1]
        /\ \A i \in Queued(k) : i \in Nat \ {0}
    BY <1>1, QueuedTail, Positions
  <1>6. \A i \in Queued(k) : i # 1 /\ IsLast(i, Queued(k))
            => /\ i - 1 \in Queued(k)' /\ IsLast(i - 1, Queued(k)')
               /\ ctr'[i - 1] = ctr[i]
    BY <1>5 DEF IsLast
  <1>7. CASE o.kind # k
    <2>1. ops'[k] = ops[k]
      BY <1>1, <1>3, <1>7
    <2>2. Handed(k)' = Handed(k)
      BY <2>1 DEF Handed
    <2>3. Queued(k) = {} => Queued(k)' = {}
      BY <1>5
    <2> QED BY <1>1, <1>4, <1>6, <1>7, <2>1, <2>2, <2>3 DEF EndsUpWith
  <1>8. CASE o.kind = k
    <2>1. ops'[k] = Append(ops[k], o.op)
      BY <1>1, <1>3, <1>8
    <2> HIDE DEF o
    <2>2. /\ Handed(k)' = IF o.op.op # "Restart"
                          THEN Handed(k) \cup {Len(ops[k]) + 1} ELSE Handed(k)
          /\ \A i \in Handed(k) : ops'[k][i] = ops[k][i]
          /\ ops'[k][Len(ops[k]) + 1] = o.op
          /\ Len(ops[k]) \in Nat
          /\ \A i \in Handed(k) : i \in Nat /\ i <= Len(ops[k])
      BY <1>1, <1>3, <2>1, HandedAppend
    <2>3. CASE \E i \in Queued(k) : i # 1 /\ IsLast(i, Queued(k)) /\ ctr[i].op.duration = d
      BY <1>6, <2>3 DEF EndsUpWith
    <2>4. CASE 1 \in Queued(k) /\ IsLast(1, Queued(k)) /\ ctr[1].op.duration = d
      <3>1. Queued(k)' = {}
        BY <1>5, <2>4 DEF IsLast
      <3>2. /\ Len(ops[k]) + 1 \in Handed(k)'
            /\ IsLast(Len(ops[k]) + 1, Handed(k)')
        BY <1>4, <2>2, <2>4 DEF IsLast
      <3> QED BY <2>2, <2>4, <3>1, <3>2 DEF EndsUpWith, o
    <2>5. CASE Queued(k) = {}
      <3>1. Queued(k)' = {} /\ Handed(k)' = Handed(k)
        BY <1>4, <1>5, <1>8, <2>2, <2>5
      <3> QED BY <1>1, <2>2, <2>5, <3>1 DEF EndsUpWith
    <2> QED BY <2>3, <2>4, <2>5 DEF EndsUpWith
  <1> QED BY <1>7, <1>8

\* Applying an operation does not change what any timer ends up with.
LEMMA AppliesEnd ==
    ASSUME TypeOK, NEW j \in TimerKind, TimerApplies(j), NEW k \in TimerKind,
           NEW d, EndsUpWith(k, d)
    PROVE  EndsUpWith(k, d)'
  <1>1. /\ ops \in [TimerKind -> Seq(Operation)] /\ ops[j] # <<>>
        /\ ops' = [ops EXCEPT ![j] = Tail(ops[j])]
        /\ dur' = [dur EXCEPT ![j] = Apply(Head(ops[j]), dur[j])]
        /\ dur \in [TimerKind -> Nat]
        /\ UNCHANGED ctr
    BY DEF TimerApplies, TypeOK
  <1>2. Queued(k)' = Queued(k)
    BY <1>1 DEF Queued
  <1>3. CASE k # j
    <2>1. ops'[k] = ops[k] /\ dur'[k] = dur[k]
      BY <1>1, <1>3
    <2>2. Handed(k)' = Handed(k)
      BY <2>1 DEF Handed
    <2> QED BY <1>1, <1>2, <2>1, <2>2 DEF EndsUpWith
  <1>4. CASE k = j
    <2> DEFINE op == ops[k][1]
    <2>1. ops'[k] = Tail(ops[k]) /\ ops[k] # <<>> /\ ops[k] \in Seq(Operation)
      BY <1>1, <1>4
    <2>2. op = Head(ops[k]) /\ op \in Operation /\ 1 \in DOMAIN ops[k]
      BY <2>1
    <2>3. dur'[k] = IF op.op = "Restart" THEN dur[k] ELSE op.duration
      <3>1. dur'[k] = Apply(op, dur[k]) /\ dur[k] \in Nat
        BY <1>1, <1>4, <2>2
      <3> QED BY <2>2, <3>1, ApplyOperation
    <2>4. 1 \in Handed(k) <=> op.op # "Restart"
      BY <2>2 DEF Handed
    <2>5. /\ \A i \in Handed(k)' : i \in Nat \ {0} /\ i + 1 \in Handed(k)
          /\ \A i \in Handed(k) : i = 1 \/ (i - 1 \in Handed(k)' /\ i - 1 \in Nat)
          /\ \A i \in Handed(k)' : ops'[k][i] = ops[k][i + 1]
          /\ \A i \in Handed(k) : i \in Nat \ {0}
      BY <1>1, <2>1, HandedTail, Positions DEF TypeOK
    <2>6. \A i \in Handed(k) : i # 1 /\ IsLast(i, Handed(k))
              => /\ i - 1 \in Handed(k)' /\ IsLast(i - 1, Handed(k)')
                 /\ ops'[k][i - 1] = ops[k][i]
      BY <2>5 DEF IsLast
    <2>7. 1 \in Handed(k) /\ IsLast(1, Handed(k)) => Handed(k)' = {}
      BY <2>5 DEF IsLast
    <2>8. Handed(k) = {} => Handed(k)' = {}
      BY <2>5
    <2> QED BY <1>1, <1>2, <2>3, <2>4, <2>6, <2>7, <2>8 DEF EndsUpWith
  <1> QED BY <1>3, <1>4

\* Every step keeps the orders.
LEMMA NextKept == IInv /\ [Next]_vars => OrdersKept'
  <1> SUFFICES ASSUME IInv, [Next]_vars, alive', NEW k \in TimerKind
               PROVE  EndsUpWith(k, ordered[k])'
    BY DEF OrdersKept
  <1>1. ASSUME alive PROVE EndsUpWith(k, ordered[k])
    BY <1>1 DEF IInv, OrdersKept
  <1>2. CASE RunOrders
    BY <1>2, RunOrdersEnd
  <1>3. CASE Forward
    <2>1. alive /\ UNCHANGED ordered
      BY <1>3 DEF Forward
    <2>2. EndsUpWith(k, ordered[k])
      BY <1>1, <2>1
    <2> QED BY <1>3, <2>1, <2>2, ForwardEnd DEF IInv
  <1>4. ASSUME NEW j \in TimerKind, TimerApplies(j)
        PROVE  EndsUpWith(k, ordered[k])'
    <2>1. alive /\ UNCHANGED ordered
      BY <1>4 DEF TimerApplies
    <2>2. EndsUpWith(k, ordered[k])
      BY <1>1, <2>1
    <2> QED BY <1>4, <2>1, <2>2, AppliesEnd DEF IInv
  <1>5. CASE /\ alive /\ UNCHANGED <<ctr, ops, dur, ordered>>
    <2>1. EndsUpWith(k, ordered[k])
      BY <1>1, <1>5
    <2> QED BY <1>5, <2>1, SameEnd
  <1>6. ~RunEnds /\ ~ForwarderEnds
    BY DEF RunEnds, ForwarderEnds
  <1>7. ~ForwarderPanics
    <2> SUFFICES ASSUME ForwarderPanics PROVE FALSE
      OBVIOUS
    <2>1. alive /\ ctr \in Seq(Order) /\ ctr # <<>> /\ task[Head(ctr).kind] = "panicked"
      BY DEF ForwarderPanics, IInv, TypeOK
    <2>2. Head(ctr).kind \in TimerKind
      BY <2>1, HeadTailProperties, OrderFields
    <2> QED BY <2>1, <2>2 DEF IInv, Running
  <1>8. \/ RunOrders \/ Forward \/ (\E j \in TimerKind : TimerApplies(j))
        \/ RunEnds \/ ForwarderEnds \/ ForwarderPanics
        \/ (alive /\ UNCHANGED <<ctr, ops, dur, ordered>>)
    BY DEF Next, vars, RunTakesEvent, RunTakesExpiry, RunTakes, TimerExpires,
           TimerSends, TimerPanics, TimerSpins
  <1> QED BY <1>2, <1>3, <1>4, <1>5, <1>6, <1>7, <1>8

\* Every step keeps expiries to running timers, and panics to the end.
LEMMA NextRunning == IInv /\ [Next]_vars => Running'
  <1> SUFFICES ASSUME IInv, [Next]_vars PROVE Running'
    OBVIOUS
  <1> USE DEF IInv, TypeOK, Running
  <1>1. CASE UNCHANGED <<dur, task>> /\ (alive' => alive)
    BY <1>1
  <1>2. ASSUME NEW k \in TimerKind, TimerApplies(k) PROVE Running'
    BY <1>2 DEF TimerApplies
  <1>3. ASSUME NEW k \in TimerKind,
               TimerExpires(k) \/ TimerSends(k) \/ TimerPanics(k) \/ TimerSpins(k)
        PROVE  Running'
    BY <1>3 DEF TimerExpires, TimerSends, TimerPanics, TimerSpins
  <1> QED
    BY <1>1, <1>2, <1>3
    DEF Next, vars, RunTakesEvent, RunTakesExpiry, RunTakes, RunOrders, RunEnds,
        Forward, ForwarderPanics, ForwarderEnds

(***************************************************************************)
(* The theorems                                                            *)
(***************************************************************************)
\* timer_loop starts in the inductive invariant.
LEMMA InitInv == Init => IInv
  <1> SUFFICES ASSUME Init PROVE IInv
    OBVIOUS
  <1>1. TypeOK
    <2>1. \A S : <<>> \in Seq(S) /\ Len(<<>>) = 0
      BY EmptySeq
    <2>2. alive \in BOOLEAN /\ forwarder \in BOOLEAN
      BY DEF Init
    <2> QED BY <2>1, <2>2, TimerAssumption DEF Init, TypeOK, TaskState
  <1>2. \A k \in TimerKind : Queued(k) = {} /\ Handed(k) = {}
    <2>1. ctr = <<>> /\ \A k \in TimerKind : ops[k] = <<>>
      BY DEF Init
    <2>2. DOMAIN <<>> = {}
      OBVIOUS
    <2> QED BY <2>1, <2>2, Zenon DEF Queued, Handed
  <1>3. OrdersKept
    BY <1>2 DEF Init, OrdersKept, EndsUpWith
  <1>4. Running
    BY DEF Init, Running
  <1> QED BY <1>1, <1>3, <1>4 DEF IInv

\* The inductive invariant holds in every reachable state.
THEOREM Invariance == Spec => []IInv
  <1>1. IInv /\ [Next]_vars => IInv'
    BY NextType, NextKept, NextRunning DEF IInv
  <1> QED BY <1>1, InitInv, PTL DEF Spec

\* Every variable has its type and the channels keep to their bounds.
THEOREM TypeCorrect == Spec => []TypeOK
  <1>1. IInv => TypeOK
    BY DEF IInv
  <1> QED BY <1>1, Invariance, PTL

\* No order of run is lost, overtaken or given to another timer.
THEOREM NoOrderLost == Spec => []OrdersKept
  <1>1. IInv => OrdersKept
    BY DEF IInv
  <1> QED BY <1>1, Invariance, PTL

(***************************************************************************)
(* The timer service                                                       *)
(***************************************************************************)
\* A new order makes a timer late only if it was ordered to run before.
LEMMA RunOrdersLate ==
    ASSUME IInv, RunOrders, NEW k \in TimerKind, Superseded(k)'
    PROVE  Superseded(k) \/ (k = Head(todo).kind /\ ordered[k] # FarFuture)
  <1> DEFINE o == Head(todo)
  <1>1. ctr \in Seq(Order) /\ o \in Order /\ ctr' = Append(ctr, o)
    <2>1. todo \in Seq(Order) /\ todo # <<>>
      BY DEF RunOrders, IInv, TypeOK
    <2> QED BY <2>1, HeadTailProperties DEF RunOrders, IInv, TypeOK
  <1>2. EndsUpWith(k, ordered[k]) /\ UNCHANGED <<ops, dur>>
    BY DEF RunOrders, IInv, OrdersKept
  <1>3. Handed(k)' = Handed(k)
    BY <1>2 DEF Handed
  <1>4. \A i \in Queued(k) \cup Handed(k) : i \in Nat
    BY Positions DEF IInv, TypeOK
  <1> HIDE DEF o
  <1>5. /\ Queued(k)' = IF o.kind = k /\ o.op.op # "Restart"
                        THEN Queued(k) \cup {Len(ctr) + 1} ELSE Queued(k)
        /\ \A i \in Queued(k) : ctr'[i] = ctr[i]
        /\ \A i \in Queued(k) : i \in Nat /\ i <= Len(ctr)
        /\ Len(ctr) \in Nat
    BY <1>1, QueuedAppend
  <1>6. CASE o.kind = k /\ o.op.op # "Restart"
    <2> SUFFICES ASSUME ordered[k] = FarFuture PROVE Superseded(k)
      BY <1>6 DEF o
    <2>1. CASE dur[k] # FarFuture
      BY <1>2, <2>1 DEF EndsUpWith, Superseded
    <2>2. ASSUME NEW i \in Handed(k), ops[k][i].duration # FarFuture
          PROVE  Superseded(k)
      <3> SUFFICES ASSUME Queued(k) = {}, IsLast(i, Handed(k)) PROVE FALSE
        BY <2>2 DEF Superseded
      <3>1. PICK j \in Handed(k) : IsLast(j, Handed(k)) /\ ops[k][j].duration = FarFuture
        BY <1>2 DEF EndsUpWith
      <3>2. i = j
        BY <1>4, <3>1 DEF IsLast
      <3> QED BY <2>2, <3>1, <3>2
    <2>3. ASSUME NEW i \in Queued(k), ctr[i].op.duration # FarFuture
          PROVE  Superseded(k)
      <3> SUFFICES ASSUME IsLast(i, Queued(k)) PROVE FALSE
        BY <2>3 DEF Superseded
      <3>1. PICK j \in Queued(k) : IsLast(j, Queued(k)) /\ ctr[j].op.duration = FarFuture
        BY <1>2 DEF EndsUpWith
      <3>2. i = j
        BY <1>4, <3>1 DEF IsLast
      <3> QED BY <2>3, <3>1, <3>2
    <2>4. IsLast(Len(ctr) + 1, Queued(k)')
      BY <1>5, <1>6 DEF IsLast
    <2>5. \/ dur[k] # FarFuture
          \/ \E i \in Handed(k) : ops[k][i].duration # FarFuture
          \/ \E i \in Queued(k) : ctr[i].op.duration # FarFuture
      BY <1>2, <1>3, <1>5, <1>6, <2>4 DEF Superseded
    <2> QED BY <2>1, <2>2, <2>3, <2>5
  <1>7. CASE o.kind # k \/ o.op.op = "Restart"
    BY <1>2, <1>3, <1>5, <1>7 DEF Superseded
  <1> QED BY <1>6, <1>7

\* Forwarding an order makes no timer late.
LEMMA ForwardLate ==
    ASSUME TypeOK, Forward, NEW k \in TimerKind, Superseded(k)'
    PROVE  Superseded(k)
  <1> DEFINE o == ctr[1]
  <1>1. /\ ctr \in Seq(Order) /\ ctr # <<>> /\ ctr' = Tail(ctr)
        /\ ops \in [TimerKind -> Seq(Operation)]
        /\ UNCHANGED dur
    BY DEF Forward, TypeOK
  <1>2. o = Head(ctr) /\ o \in Order /\ 1 \in DOMAIN ctr
    BY <1>1
  <1>3. /\ o.kind \in TimerKind /\ o.op \in Operation
        /\ ops' = [ops EXCEPT ![o.kind] = Append(ops[o.kind], o.op)]
    BY <1>2, OrderFields DEF Forward
  <1>4. 1 \in Queued(k) <=> o.kind = k /\ o.op.op # "Restart"
    BY <1>2 DEF Queued
  <1>5. /\ \A i \in Queued(k)' : i \in Nat \ {0} /\ i + 1 \in Queued(k)
        /\ \A i \in Queued(k) : i = 1 \/ (i - 1 \in Queued(k)' /\ i - 1 \in Nat)
        /\ \A i \in Queued(k)' : ctr'[i] = ctr[i + 1]
        /\ \A i \in Queued(k) : i \in Nat \ {0}
    BY <1>1, QueuedTail, Positions
  <1>6. \A i \in Queued(k)' : ~IsLast(i, Queued(k)') => ~IsLast(i + 1, Queued(k))
    BY <1>5 DEF IsLast
  <1>7. Queued(k)' # {} => Queued(k) # {} /\ \A i \in Queued(k) : i = 1 => ~IsLast(i, Queued(k))
    BY <1>5 DEF IsLast
  <1>8. CASE o.kind # k
    <2>1. ops'[k] = ops[k]
      BY <1>1, <1>3, <1>8
    <2>2. Handed(k)' = Handed(k)
      BY <2>1 DEF Handed
    <2> QED BY <1>1, <1>5, <1>6, <1>7, <2>1, <2>2 DEF Superseded
  <1>9. CASE o.kind = k
    <2>1. ops'[k] = Append(ops[k], o.op)
      BY <1>1, <1>3, <1>9
    <2>2. /\ Handed(k)' = IF o.op.op # "Restart"
                          THEN Handed(k) \cup {Len(ops[k]) + 1} ELSE Handed(k)
          /\ \A i \in Handed(k) : ops'[k][i] = ops[k][i]
          /\ ops'[k][Len(ops[k]) + 1] = o.op
          /\ Len(ops[k]) \in Nat
          /\ \A i \in Handed(k) : i \in Nat /\ i <= Len(ops[k])
      BY <1>1, <1>3, <2>1, HandedAppend
    <2>3. CASE o.op.op = "Restart"
      <3>1. Handed(k)' = Handed(k)
        BY <2>2, <2>3
      <3> QED BY <1>1, <1>5, <1>6, <1>7, <2>2, <3>1 DEF Superseded
    <2>4. CASE o.op.op # "Restart"
      <3>1. 1 \in Queued(k) /\ Handed(k)' = Handed(k) \cup {Len(ops[k]) + 1}
        BY <1>4, <1>9, <2>2, <2>4
      <3>2. IsLast(Len(ops[k]) + 1, Handed(k)')
        BY <2>2, <3>1 DEF IsLast
      <3>3. CASE dur'[k] # FarFuture
        BY <1>1, <3>1, <3>3 DEF Superseded
      <3>4. ASSUME NEW i \in Handed(k)', ops'[k][i].duration # FarFuture,
                   ~IsLast(i, Handed(k)') \/ Queued(k)' # {}
            PROVE  Superseded(k)
        <4>1. CASE i \in Handed(k)
          BY <2>2, <3>1, <3>4, <4>1 DEF Superseded
        <4>2. CASE i = Len(ops[k]) + 1
          BY <1>7, <2>2, <3>1, <3>2, <3>4, <4>2 DEF Superseded
        <4> QED BY <3>1, <4>1, <4>2
      <3>5. ASSUME NEW i \in Queued(k)', ctr'[i].op.duration # FarFuture,
                   ~IsLast(i, Queued(k)')
            PROVE  Superseded(k)
        BY <1>5, <1>6, <3>5 DEF Superseded
      <3> QED BY <3>3, <3>4, <3>5 DEF Superseded
    <2> QED BY <2>3, <2>4
  <1> QED BY <1>8, <1>9

\* Applying an operation makes no timer late.
LEMMA AppliesLate ==
    ASSUME TypeOK, NEW j \in TimerKind, TimerApplies(j), NEW k \in TimerKind,
           Superseded(k)'
    PROVE  Superseded(k)
  <1>1. /\ ops \in [TimerKind -> Seq(Operation)] /\ ops[j] # <<>>
        /\ ops' = [ops EXCEPT ![j] = Tail(ops[j])]
        /\ dur' = [dur EXCEPT ![j] = Apply(Head(ops[j]), dur[j])]
        /\ dur \in [TimerKind -> Nat]
        /\ UNCHANGED ctr
    BY DEF TimerApplies, TypeOK
  <1>2. Queued(k)' = Queued(k)
    BY <1>1 DEF Queued
  <1>3. CASE k # j
    <2>1. ops'[k] = ops[k] /\ dur'[k] = dur[k]
      BY <1>1, <1>3
    <2>2. Handed(k)' = Handed(k)
      BY <2>1 DEF Handed
    <2> QED BY <1>1, <1>2, <2>1, <2>2 DEF Superseded
  <1>4. CASE k = j
    <2> DEFINE op == ops[k][1]
    <2>1. ops'[k] = Tail(ops[k]) /\ ops[k] # <<>> /\ ops[k] \in Seq(Operation)
      BY <1>1, <1>4
    <2>2. op = Head(ops[k]) /\ op \in Operation /\ 1 \in DOMAIN ops[k]
      BY <2>1
    <2>3. dur'[k] = IF op.op = "Restart" THEN dur[k] ELSE op.duration
      <3>1. dur'[k] = Apply(op, dur[k]) /\ dur[k] \in Nat
        BY <1>1, <1>4, <2>2
      <3> QED BY <2>2, <3>1, ApplyOperation
    <2>4. 1 \in Handed(k) <=> op.op # "Restart"
      BY <2>2 DEF Handed
    <2>5. /\ \A i \in Handed(k)' : i \in Nat \ {0} /\ i + 1 \in Handed(k)
          /\ \A i \in Handed(k)' : ops'[k][i] = ops[k][i + 1]
      BY <1>1, <2>1, HandedTail DEF TypeOK
    <2>6. \A i \in Handed(k)' : ~IsLast(i, Handed(k)') => ~IsLast(i + 1, Handed(k))
      BY <2>5 DEF IsLast
    <2>7. Handed(k)' # {} => Handed(k) # {} /\ ~IsLast(1, Handed(k))
      BY <2>5 DEF IsLast
    <2>8. CASE dur'[k] # FarFuture /\ Handed(k)' \cup Queued(k) # {}
      <3>1. CASE op.op = "Restart"
        BY <2>3, <2>7, <2>8, <3>1 DEF Superseded
      <3>2. CASE op.op # "Restart"
        BY <2>3, <2>4, <2>7, <2>8, <3>2 DEF Superseded
      <3> QED BY <3>1, <3>2
    <2>9. ASSUME NEW i \in Handed(k)', ops'[k][i].duration # FarFuture,
                 ~IsLast(i, Handed(k)') \/ Queued(k) # {}
          PROVE  Superseded(k)
      BY <2>5, <2>6, <2>9 DEF Superseded
    <2>10. ASSUME NEW i \in Queued(k), ctr[i].op.duration # FarFuture,
                  ~IsLast(i, Queued(k))
           PROVE  Superseded(k)
      BY <2>10 DEF Superseded
    <2> QED BY <1>1, <1>2, <2>8, <2>9, <2>10 DEF Superseded
  <1> QED BY <1>3, <1>4

\* A timer whose orders on their way do not change is as late as before.
LEMMA SameLate ==
    ASSUME UNCHANGED <<ctr, ops, dur>>
    PROVE  UNCHANGED Late
  BY DEF Late, Superseded, Queued, Handed, IsLast

\* Every step of the tasks is a step of the timer service, or none.
LEMMA StepService ==
    ASSUME IInv, IInv', [Next]_vars
    PROVE  [Service!Next]_<<ordered, Late, out>>
  <1>1. ASSUME NEW a \in Arm, RunTakesEvent(a)
        PROVE  UNCHANGED <<ordered, Late, out>>
    BY <1>1, SameLate DEF RunTakesEvent, RunTakes
  <1>2. ASSUME NEW a \in Arm, RunTakesExpiry(a) PROVE Service!Next
    <2>1. Late' = Late /\ ordered' = ordered /\ out # <<>> /\ out' = Tail(out)
      BY <1>2, SameLate DEF RunTakesExpiry, RunTakes
    <2>2. ordered' \in [TimerKind -> Nat]
      BY DEF IInv, TypeOK
    <2>3. Service!Orders({})
      BY <2>1, <2>2 DEF Service!Orders
    <2> QED BY <2>3 DEF Service!Next
  <1>3. CASE RunOrders
    <2> DEFINE K == {Head(todo).kind}
    <2>1. Head(todo).kind \in TimerKind
      <3>1. todo \in Seq(Order) /\ todo # <<>>
        BY <1>3 DEF RunOrders, IInv, TypeOK
      <3> QED BY <3>1, HeadTailProperties, OrderFields
    <2>2. Late' \subseteq Late \cup {k \in K : ordered[k] # FarFuture}
      BY <1>3, RunOrdersLate DEF Late
    <2>3. /\ \A k \in TimerKind \ K : ordered'[k] = ordered[k]
          /\ ordered' \in [TimerKind -> Nat]
          /\ out' = out
      BY <1>3 DEF RunOrders, IInv, TypeOK
    <2>4. Service!Orders(K)
      BY <2>2, <2>3 DEF Service!Orders
    <2> QED BY <2>1, <2>4 DEF Service!Next
  <1>4. CASE RunEnds
    <2>1. Service!Ends
      BY <1>4, SameLate DEF RunEnds, Service!Ends
    <2> QED BY <2>1 DEF Service!Next
  <1>5. CASE Forward
    <2>1. Late' \subseteq Late
      BY <1>5, ForwardLate DEF Late, IInv
    <2>2. Service!CatchUp
      BY <1>5, <2>1 DEF Forward, Service!CatchUp
    <2> QED BY <2>2 DEF Service!Next
  <1>6. CASE ForwarderPanics
    <2>1. \A k \in TimerKind : Queued(k)' = {} /\ Handed(k)' = Handed(k)
      <3>1. ctr' = <<>> /\ UNCHANGED <<ops, dur>>
        BY <1>6 DEF ForwarderPanics
      <3>2. DOMAIN <<>> = {}
        OBVIOUS
      <3> QED BY <3>1, <3>2, Zenon DEF Queued, Handed
    <2>2. Late' \subseteq Late
      BY <1>6, <2>1 DEF ForwarderPanics, Late, Superseded
    <2>3. Service!CatchUp
      BY <1>6, <2>2 DEF ForwarderPanics, Service!CatchUp
    <2> QED BY <2>3 DEF Service!Next
  <1>7. ASSUME NEW k \in TimerKind, TimerApplies(k) PROVE Service!Next
    <2>1. Late' \subseteq Late
      BY <1>7, AppliesLate DEF Late, IInv
    <2>2. Service!CatchUp
      BY <1>7, <2>1 DEF TimerApplies, Service!CatchUp
    <2> QED BY <2>2 DEF Service!Next
  <1>8. ASSUME NEW k \in TimerKind, TimerSends(k) PROVE Service!Next
    <2>1. alive /\ dur[k] # FarFuture
      BY <1>8 DEF TimerSends, IInv, Running
    <2>2. EndsUpWith(k, ordered[k])
      BY <2>1 DEF IInv, OrdersKept
    <2>3. ordered[k] # FarFuture \/ k \in Late
      BY <2>1, <2>2 DEF EndsUpWith, Late, Superseded
    <2>4. Service!Expires(k)
      BY <1>8, <2>3, SameLate DEF TimerSends, Service!Expires
    <2> QED BY <2>4 DEF Service!Next
  <1>9. ASSUME NEW k \in TimerKind, TimerExpires(k) \/ TimerPanics(k) \/ TimerSpins(k)
        PROVE  UNCHANGED <<ordered, Late, out>>
    BY <1>9, SameLate DEF TimerExpires, TimerPanics, TimerSpins
  <1>10. CASE ForwarderEnds \/ UNCHANGED vars
    BY <1>10, SameLate DEF ForwarderEnds, vars
  <1> QED
    BY <1>1, <1>2, <1>3, <1>4, <1>5, <1>6, <1>7, <1>8, <1>9, <1>10 DEF Next

\* The forwarder, the timer tasks and their channels are the timers that the
\* session relies on.
THEOREM TimerLoopRefines == Spec => ImplementsTimerService
  <1>1. Init => Service!Init
    <2> SUFFICES ASSUME Init PROVE Service!Init
      OBVIOUS
    <2>1. \A k \in TimerKind : Queued(k) = {} /\ Handed(k) = {} /\ dur[k] = FarFuture
      <3>1. ctr = <<>> /\ \A k \in TimerKind : ops[k] = <<>> /\ dur[k] = FarFuture
        BY DEF Init
      <3>2. DOMAIN <<>> = {}
        OBVIOUS
      <3> QED BY <3>1, <3>2, Zenon DEF Queued, Handed
    <2>2. Late = {}
      BY <2>1 DEF Late, Superseded
    <2> QED BY <2>2 DEF Init, Service!Init
  <1>2. IInv /\ IInv' /\ [Next]_vars => [Service!Next]_(Service!timerVars)
    BY StepService DEF Service!timerVars
  <1> QED
    BY <1>1, <1>2, Invariance, PTL
    DEF Spec, ImplementsTimerService, Service!Spec
=============================================================================
