--------------------------- MODULE ListenerProofs ---------------------------
(***************************************************************************)
(* The dispatcher hands each inbound connection to the session of its      *)
(* peer, once and as one pair of events, for any sets of connections and   *)
(* neighbors and any capacities.                                           *)
(*                                                                         *)
(* PairsAdjacent says nothing of the connections that no session has been  *)
(* sent yet.  OneStage does: a connection is in the hands of its           *)
(* process_passive task, in the channel to the dispatcher, in the          *)
(* dispatcher's, or with the session, and in one of these only.            *)
(***************************************************************************)
EXTENDS Listener, SequenceTheorems, TLAPS

\* Session p still takes events, and the dispatcher sends them.
Live(p) == run[p] # "gone" /\ dispatcher # "dead"

\* A task that waits to send a connection has read whose it is.
Waiting == \A s \in Sock : passive[s] = "sending" => from[s] # <<>>

\* A connection on its way to the dispatcher is there once, and its task has
\* let go of it.
InOpen ==
    /\ \A i \in DOMAIN open : passive[open[i]] = "done" /\ from[open[i]] # <<>>
    /\ \A i, j \in DOMAIN open : open[i] = open[j] => i = j

\* The connection that the dispatcher works on is a configured peer's.
InJob ==
    /\ job # <<>> <=> dispatcher \in {"confirm", "open"}
    /\ \A s \in Sock : job = <<s>> =>
          /\ passive[s] = "done"
          /\ \E p \in Configured : from[s] = <<p>>
          /\ \A i \in DOMAIN open : open[i] # s

\* What session p has been sent, the dispatcher is done with, but for the
\* last connection if half of its pair is still to be sent.
InSession(p) ==
    /\ \A i \in DOMAIN Sent(p) :
          /\ passive[Sent(p)[i].conn] = "done"
          /\ \A j \in DOMAIN open : open[j] # Sent(p)[i].conn
          /\ job = <<Sent(p)[i].conn>> => dispatcher = "open" /\ i = Len(Sent(p))
    /\ dispatcher = "open" /\ from[job[1]] = <<p>> => Len(Sent(p)) % 2 = 1

OneStage ==
    /\ Waiting /\ InOpen /\ InJob
    /\ \A p \in Configured : Live(p) => InSession(p)

\* PairsAdjacent for one session, and for a sequence of events e.
Pairs(p, e) ==
    /\ \A i \in DOMAIN e : from[e[i].conn] = <<p>>
    /\ \A i \in DOMAIN e :
          IF i % 2 = 1
          THEN /\ e[i].type = "TcpConnectionConfirmed"
               /\ \/ i < Len(e) /\ e[i + 1] = Ev("BGPOpen", e[i].conn)
                  \/ i = Len(e) /\ dispatcher = "open" /\ job = <<e[i].conn>>
          ELSE e[i].type = "BGPOpen"
    /\ \A i, j \in DOMAIN e : i # j => e[i] # e[j]

IInv == TypeOK /\ OneStage /\ PairsAdjacent

(***************************************************************************)
(* Types                                                                   *)
(***************************************************************************)
\* A send puts one event into a channel that has room.
LEMMA SendToTypes ==
    ASSUME TypeOK, NEW p \in Configured, NEW e \in AdminEvent, SendTo(p, e)
    PROVE  /\ run' \in [Configured -> RunState]
           /\ admin' \in [Configured -> Seq(AdminEvent)]
           /\ \A q \in Configured : Len(admin'[q]) <= AdminCap
           /\ got' \in [Configured -> Seq(AdminEvent)]
  <1>1. admin[p] \in Seq(AdminEvent) /\ Len(admin[p]) \in Nat
    BY DEF TypeOK
  <1>2. /\ Append(admin[p], e) \in Seq(AdminEvent)
        /\ Len(Append(admin[p], e)) = Len(admin[p]) + 1
    BY <1>1, AppendProperties
  <1>3. Len(admin[p]) < AdminCap /\ AdminCap \in Nat
    BY ListenerAssumption DEF SendTo
  <1> QED BY <1>1, <1>2, <1>3 DEF SendTo, TypeOK

\* A session task that ends takes its channel with it.
LEMMA EndTypes ==
    ASSUME TypeOK, NEW p \in Configured, End(p)
    PROVE  TypeOK'
  <1>1. <<>> \in Seq(AdminEvent) /\ Len(<<>>) = 0 /\ AdminCap \in Nat
    BY ListenerAssumption
  <1>2. run' \in [Configured -> RunState]
    BY DEF End, TypeOK, RunState
  <1>3. /\ admin' \in [Configured -> Seq(AdminEvent)]
        /\ \A q \in Configured : Len(admin'[q]) <= AdminCap
    BY <1>1 DEF End, TypeOK
  <1> QED BY <1>2, <1>3 DEF End, TypeOK, inbound

\* The job of a dispatcher that is sending has the neighbor it is sent to.
LEMMA JobTo ==
    ASSUME TypeOK, InJob, dispatcher \in {"confirm", "open"}
    PROVE  \E s \in Sock : /\ job = <<s>> /\ job[1] = s
                           /\ To \in Configured /\ from[s] = <<To>>
  <1>1. job # <<>>
    BY DEF InJob
  <1>2. PICK s \in Sock : job = <<s>>
    BY <1>1 DEF TypeOK
  <1>3. PICK p \in Configured : from[s] = <<p>>
    BY <1>2 DEF InJob
  <1>4. To = p
    BY <1>2, <1>3 DEF To
  <1> QED BY <1>2, <1>3, <1>4

\* Every step keeps the types.
LEMMA TypeStep ==
    ASSUME TypeOK, InJob, [Next]_vars
    PROVE  TypeOK'
  <1> USE DEF sessions, inbound
  <1>1. CASE Bind \/ UNCHANGED vars
    BY <1>1 DEF Bind, TypeOK, vars
  <1>2. CASE MainPanics
    <2>1. <<>> \in Seq(Sock) /\ <<>> \in Seq(AdminEvent) /\ Len(<<>>) = 0
      OBVIOUS
    <2>2. AdminCap \in Nat /\ OpenCap \in Nat
      BY ListenerAssumption
    <2>3. open' \in Seq(Sock) /\ Len(open') <= OpenCap
      BY <1>2, <2>1, <2>2 DEF MainPanics
    <2>4. /\ admin' \in [Configured -> Seq(AdminEvent)]
          /\ \A p \in Configured : Len(admin'[p]) <= AdminCap
      BY <1>2, <2>1, <2>2 DEF MainPanics
    <2> QED
      BY <1>2, <2>3, <2>4
      DEF MainPanics, TypeOK, PassiveState, DispatcherState, RunState
  <1>3. ASSUME NEW s \in Sock, Accept(s) \/ PassiveReturns(s) \/ PassivePanics(s)
        PROVE  TypeOK'
    BY <1>3 DEF Accept, PassiveReturns, PassivePanics, TypeOK, PassiveState
  <1>4. ASSUME NEW s \in Sock, PassiveSends(s) PROVE TypeOK'
    <2>1. open \in Seq(Sock) /\ Len(open) \in Nat /\ Len(open) < OpenCap
      BY <1>4 DEF PassiveSends, TypeOK
    <2>2. open' \in Seq(Sock) /\ Len(open') <= OpenCap
      BY <1>4, <2>1, AppendProperties, ListenerAssumption DEF PassiveSends
    <2> QED BY <1>4, <2>2 DEF PassiveSends, TypeOK, PassiveState
  <1>5. ASSUME NEW s \in Sock, PeerResets(s) PROVE TypeOK'
    BY <1>5 DEF PeerResets, TypeOK
  <1>6. ASSUME NEW s \in Sock, NEW p \in Neighbor, PassiveReadsOpen(s, p) PROVE TypeOK'
    <2>1. from' \in [Sock -> {<<>>} \cup {<<q>> : q \in Neighbor}]
      BY <1>6 DEF PassiveReadsOpen, TypeOK
    <2>2. passive' \in [Sock -> PassiveState]
      BY <1>6 DEF PassiveReadsOpen, TypeOK, PassiveState
    <2> QED BY <1>6, <2>1, <2>2 DEF PassiveReadsOpen, TypeOK
  <1>7. CASE DispatcherTakes
    <2>1. open \in Seq(Sock) /\ open # <<>> /\ Len(open) \in Nat /\ Len(open) <= OpenCap
      BY <1>7 DEF DispatcherTakes, TypeOK
    <2>2. /\ Head(open) \in Sock /\ open' \in Seq(Sock)
          /\ Len(open') = Len(open) - 1
      BY <1>7, <2>1, HeadTailProperties DEF DispatcherTakes
    <2>3. Len(open') <= OpenCap
      BY <2>1, <2>2, ListenerAssumption
    <2>4. job' \in {<<>>} \cup {<<s>> : s \in Sock}
      BY <1>7, <2>2 DEF DispatcherTakes
    <2> QED BY <1>7, <2>2, <2>3, <2>4 DEF DispatcherTakes, TypeOK, DispatcherState
  <1>8. CASE DispatcherPanics \/ DispatcherFindsNobody
    <2>1. DispatcherEnds
      BY <1>8 DEF DispatcherPanics, DispatcherFindsNobody
    <2>2. open' \in Seq(Sock) /\ Len(open') <= OpenCap
      BY <2>1, ListenerAssumption DEF DispatcherEnds
    <2> QED BY <2>1, <2>2 DEF DispatcherEnds, TypeOK, DispatcherState
  <1>9. CASE DispatcherConfirms \/ DispatcherOpens
    <2>1. PICK s \in Sock : job[1] = s /\ To \in Configured
      BY <1>9, JobTo DEF DispatcherConfirms, DispatcherOpens
    <2>2. PICK e \in AdminEvent : SendTo(To, e)
      BY <1>9, <2>1 DEF DispatcherConfirms, DispatcherOpens, Ev, AdminEvent
    <2> HIDE DEF sessions
    <2>3. /\ run' \in [Configured -> RunState]
          /\ admin' \in [Configured -> Seq(AdminEvent)]
          /\ \A q \in Configured : Len(admin'[q]) <= AdminCap
          /\ got' \in [Configured -> Seq(AdminEvent)]
      BY <2>1, <2>2, SendToTypes
    <2> QED
      BY <1>9, <2>3 DEF DispatcherConfirms, DispatcherOpens, TypeOK, DispatcherState
  <1>10. ASSUME NEW p \in Configured, RunStarts(p) \/ RunStalls(p) PROVE TypeOK'
    BY <1>10 DEF RunStarts, RunStalls, TypeOK, RunState
  <1>11. ASSUME NEW p \in Configured, RunDropped(p) \/ RunPanics(p) \/ RunLosesAdmin(p)
         PROVE  TypeOK'
    BY <1>11, EndTypes DEF RunDropped, RunPanics, RunLosesAdmin
  <1>12. ASSUME NEW p \in Configured, RunReceives(p) PROVE TypeOK'
    <2>1. /\ admin[p] \in Seq(AdminEvent) /\ admin[p] # <<>> /\ got[p] \in Seq(AdminEvent)
          /\ Len(admin[p]) \in Nat /\ Len(admin[p]) <= AdminCap /\ AdminCap \in Nat
      BY <1>12, ListenerAssumption DEF RunReceives, TypeOK
    <2>2. /\ Head(admin[p]) \in AdminEvent /\ Tail(admin[p]) \in Seq(AdminEvent)
          /\ Len(Tail(admin[p])) <= AdminCap
      BY <2>1, HeadTailProperties
    <2>3. Append(got[p], Head(admin[p])) \in Seq(AdminEvent)
      BY <2>1, <2>2, AppendProperties
    <2>4. got' \in [Configured -> Seq(AdminEvent)]
      BY <1>12, <2>3 DEF RunReceives, TypeOK
    <2>5. /\ admin' \in [Configured -> Seq(AdminEvent)]
          /\ \A q \in Configured : Len(admin'[q]) <= AdminCap
      BY <1>12, <2>2 DEF RunReceives, TypeOK
    <2> QED BY <1>12, <2>4, <2>5 DEF RunReceives, TypeOK
  <1> QED
    BY <1>1, <1>2, <1>3, <1>4, <1>5, <1>6, <1>7, <1>8, <1>9, <1>10, <1>11, <1>12
    DEF Next

(***************************************************************************)
(* What the sessions have been sent                                        *)
(***************************************************************************)
\* Moving the head of one sequence to the end of another.
LEMMA MoveHead ==
    ASSUME NEW S, NEW g \in Seq(S), NEW a \in Seq(S), a # <<>>
    PROVE  Append(g, Head(a)) \o Tail(a) = g \o a
  <1> DEFINE h == Append(g, Head(a))
  <1>1. /\ Head(a) \in S /\ Tail(a) \in Seq(S) /\ Len(Tail(a)) = Len(a) - 1
        /\ \A i \in 1 .. Len(Tail(a)) : Tail(a)[i] = a[i + 1]
        /\ Head(a) = a[1]
    BY HeadTailProperties
  <1>2. /\ h \in Seq(S) /\ Len(h) = Len(g) + 1
        /\ \A i \in 1 .. Len(g) : h[i] = g[i]
        /\ h[Len(g) + 1] = a[1]
    BY <1>1, AppendProperties
  <1> HIDE DEF h
  <1>3. /\ h \o Tail(a) \in Seq(S)
        /\ Len(h \o Tail(a)) = Len(h) + Len(Tail(a))
        /\ \A i \in 1 .. Len(h) + Len(Tail(a)) : (h \o Tail(a))[i] =
              IF i <= Len(h) THEN h[i] ELSE Tail(a)[i - Len(h)]
    BY <1>1, <1>2, ConcatProperties
  <1>4. /\ g \o a \in Seq(S)
        /\ Len(g \o a) = Len(g) + Len(a)
        /\ \A i \in 1 .. Len(g) + Len(a) : (g \o a)[i] =
              IF i <= Len(g) THEN g[i] ELSE a[i - Len(g)]
    BY ConcatProperties
  <1>5. Len(g) \in Nat /\ Len(a) \in Nat
    BY LenProperties
  <1>6. Len(h \o Tail(a)) = Len(g \o a)
    BY <1>1, <1>2, <1>3, <1>4, <1>5
  <1>7. ASSUME NEW i \in 1 .. Len(h \o Tail(a)) PROVE (h \o Tail(a))[i] = (g \o a)[i]
    BY <1>1, <1>2, <1>3, <1>4, <1>5, <1>6
  <1>8. h \o Tail(a) = g \o a
    BY <1>3, <1>4, <1>6, <1>7, SeqEqual
  <1> QED BY <1>8 DEF h

\* Adding to the second of two sequences is adding to both of them.
LEMMA AppendBehind ==
    ASSUME NEW S, NEW g \in Seq(S), NEW a \in Seq(S), NEW e \in S
    PROVE  g \o Append(a, e) = Append(g \o a, e)
  <1> DEFINE b == Append(a, e)
             c == g \o a
             d == Append(c, e)
  <1>1. /\ b \in Seq(S) /\ Len(b) = Len(a) + 1
        /\ \A i \in 1 .. Len(a) : b[i] = a[i]
        /\ b[Len(a) + 1] = e
    BY AppendProperties
  <1>2. /\ c \in Seq(S) /\ Len(c) = Len(g) + Len(a)
        /\ \A i \in 1 .. Len(g) + Len(a) : c[i] = IF i <= Len(g) THEN g[i] ELSE a[i - Len(g)]
    BY ConcatProperties
  <1>3. /\ d \in Seq(S) /\ Len(d) = Len(c) + 1
        /\ \A i \in 1 .. Len(c) : d[i] = c[i]
        /\ d[Len(c) + 1] = e
    <2> HIDE DEF c
    <2> QED BY <1>2, AppendProperties
  <1> HIDE DEF b, c, d
  <1>4. /\ g \o b \in Seq(S) /\ Len(g \o b) = Len(g) + Len(b)
        /\ \A i \in 1 .. Len(g) + Len(b) :
              (g \o b)[i] = IF i <= Len(g) THEN g[i] ELSE b[i - Len(g)]
    BY <1>1, ConcatProperties
  <1>5. Len(g) \in Nat /\ Len(a) \in Nat
    BY LenProperties
  <1>6. Len(g \o b) = Len(d)
    BY <1>1, <1>2, <1>3, <1>4, <1>5
  <1>7. ASSUME NEW i \in 1 .. Len(g \o b) PROVE (g \o b)[i] = d[i]
    <2>1. i \in 1 .. Len(g) + Len(b) /\ i \in Int
      BY <1>1, <1>4, <1>5
    <2>2. CASE i <= Len(g)
      <3>1. i \in 1 .. Len(c)
        BY <1>2, <1>5, <2>1, <2>2
      <3> QED BY <1>2, <1>3, <1>4, <2>1, <2>2, <3>1
    <2>3. CASE i > Len(g) /\ i <= Len(c)
      <3>1. i \in 1 .. Len(c) /\ i - Len(g) \in 1 .. Len(a) /\ ~(i <= Len(g))
        BY <1>2, <1>5, <2>1, <2>3
      <3>2. (g \o b)[i] = a[i - Len(g)]
        BY <1>1, <1>4, <2>1, <3>1
      <3>3. d[i] = a[i - Len(g)]
        BY <1>2, <1>3, <3>1
      <3> QED BY <3>2, <3>3
    <2>4. CASE i > Len(c)
      <3>1. i = Len(c) + 1 /\ i - Len(g) = Len(a) + 1 /\ ~(i <= Len(g))
        <4>1. Len(b) = Len(a) + 1 /\ Len(c) = Len(g) + Len(a)
          BY <1>1, <1>2
        <4>2. Len(g) \in Int /\ Len(a) \in Int /\ Len(a) >= 0
          BY <1>5
        <4>3. i <= Len(g) + (Len(a) + 1) /\ i > Len(g) + Len(a) /\ i \in Int
          BY <2>1, <2>4, <4>1
        <4> HIDE DEF b, c, d
        <4>4. i = Len(g) + Len(a) + 1
          BY <4>2, <4>3
        <4> QED BY <4>1, <4>2, <4>4
      <3>2. (g \o b)[i] = e
        BY <1>1, <1>4, <2>1, <3>1
      <3> QED BY <1>3, <3>1, <3>2
    <2> QED BY <1>2, <1>5, <2>1, <2>2, <2>3, <2>4
  <1>8. g \o b = d
    BY <1>3, <1>4, <1>6, <1>7, SeqEqual
  <1> QED BY <1>8 DEF b, c, d

\* It is a sequence of events.
LEMMA SentType ==
    ASSUME TypeOK, NEW p \in Configured
    PROVE  /\ Sent(p) \in Seq(AdminEvent)
           /\ Len(Sent(p)) \in Nat
           /\ DOMAIN Sent(p) = 1 .. Len(Sent(p))
           /\ \A i \in DOMAIN Sent(p) : Sent(p)[i] \in AdminEvent
  <1>1. got[p] \in Seq(AdminEvent) /\ admin[p] \in Seq(AdminEvent)
    BY DEF TypeOK
  <1>2. Sent(p) \in Seq(AdminEvent)
    BY <1>1, ConcatProperties DEF Sent
  <1> QED BY <1>2, LenProperties, ElementOfSeq

\* Receiving an event takes nothing away and adds nothing.
LEMMA ReceivedIsSent ==
    ASSUME TypeOK, NEW p \in Configured, RunReceives(p)
    PROVE  \A q \in Configured : Sent(q)' = Sent(q)
  <1>1. got[p] \in Seq(AdminEvent) /\ admin[p] \in Seq(AdminEvent) /\ admin[p] # <<>>
    BY DEF TypeOK, RunReceives
  <1>2. Append(got[p], Head(admin[p])) \o Tail(admin[p]) = got[p] \o admin[p]
    <2> DEFINE a == admin[p]  g == got[p]  S == AdminEvent
    <2>1. a \in Seq(S) /\ a # <<>> /\ g \in Seq(S)
      BY <1>1
    <2> HIDE DEF a, g, S
    <2>2. Append(g, Head(a)) \o Tail(a) = g \o a
      BY <2>1, MoveHead
    <2> QED BY <2>2 DEF a, g
  <1>3. got'[p] = Append(got[p], Head(admin[p])) /\ admin'[p] = Tail(admin[p])
    BY DEF RunReceives, TypeOK
  <1>4. \A q \in Configured : q # p => got'[q] = got[q] /\ admin'[q] = admin[q]
    BY DEF RunReceives, TypeOK
  <1> QED BY <1>2, <1>3, <1>4 DEF Sent

\* Sending to one session puts the event behind the others.
LEMMA SendToSent ==
    ASSUME TypeOK, NEW p \in Configured, NEW e \in AdminEvent, SendTo(p, e)
    PROVE  /\ Sent(p)' = Append(Sent(p), e)
           /\ \A q \in Configured : q # p => Sent(q)' = Sent(q)
           /\ \A q \in Configured : run'[q] = run[q]
  <1>1. got[p] \in Seq(AdminEvent) /\ admin[p] \in Seq(AdminEvent)
    BY DEF TypeOK
  <1>2. admin'[p] = Append(admin[p], e) /\ got' = got /\ run' = run
    BY DEF SendTo, TypeOK
  <1>3. \A q \in Configured : q # p => admin'[q] = admin[q]
    BY DEF SendTo, TypeOK
  <1>4. got[p] \o Append(admin[p], e) = Append(got[p] \o admin[p], e)
    <2> DEFINE a == admin[p]  g == got[p]  S == AdminEvent
    <2>1. a \in Seq(S) /\ g \in Seq(S) /\ e \in S
      BY <1>1
    <2> HIDE DEF a, g, S
    <2>2. g \o Append(a, e) = Append(g \o a, e)
      BY <2>1, AppendBehind
    <2> QED BY <2>2 DEF a, g
  <1> QED BY <1>2, <1>3, <1>4 DEF Sent

(***************************************************************************)
(* The steps, by what they do to the connections                           *)
(***************************************************************************)
\* PairsAdjacent is about every session that still takes events.
LEMMA PairsOfSessions ==
    PairsAdjacent <=> \A p \in Configured : Live(p) => Pairs(p, Sent(p))
  BY DEF PairsAdjacent, Live, Pairs

\* The same after a step.
LEMMA PairsOfSessionsNext ==
    PairsAdjacent' <=> \A p \in Configured : Live(p)' => Pairs(p, Sent(p))'
  BY DEF PairsAdjacent, Live, Pairs

\* A step of a session task adds nothing to what a session has been sent.
LEMMA SessionStep ==
    ASSUME OneStage, PairsAdjacent,
           UNCHANGED <<passive, from, open, dispatcher, job>>,
           \A p \in Configured : Live(p)' => Live(p) /\ Sent(p)' = Sent(p)
    PROVE  OneStage' /\ PairsAdjacent'
  <1>1. Waiting' /\ InOpen' /\ InJob'
    BY DEF OneStage, Waiting, InOpen, InJob
  <1>2. ASSUME NEW p \in Configured, Live(p)' PROVE InSession(p)' /\ Pairs(p, Sent(p))'
    <2>1. InSession(p) /\ Pairs(p, Sent(p)) /\ Sent(p)' = Sent(p)
      BY <1>2, PairsOfSessions DEF OneStage
    <2>2. InSession(p)'
      BY <2>1 DEF InSession
    <2>3. Pairs(p, Sent(p))'
      BY <2>1 DEF Pairs
    <2> QED BY <2>2, <2>3
  <1> QED BY <1>1, <1>2, PairsOfSessionsNext DEF OneStage

\* A step of a process_passive task that has not let go of its connection
\* concerns no other connection.
LEMMA PassiveStep ==
    ASSUME TypeOK, OneStage, PairsAdjacent, NEW s \in Sock, NEW x,
           passive[s] # "done",
           passive' = [passive EXCEPT ![s] = x],
           \A t \in Sock : t # s => from'[t] = from[t],
           x = "sending" => from'[s] # <<>>,
           UNCHANGED <<open, dispatcher, job, run, admin, got>>
    PROVE  OneStage' /\ PairsAdjacent'
  <1>1. \A t \in Sock : passive[t] = "done" => t # s /\ passive'[t] = "done" /\ from'[t] = from[t]
    BY DEF TypeOK
  <1>2. open \in Seq(Sock) /\ \A i \in DOMAIN open : open[i] \in Sock
    BY ElementOfSeq, LenProperties DEF TypeOK
  <1>3. Waiting'
    BY DEF OneStage, Waiting, TypeOK
  <1>4. InOpen'
    BY <1>1, <1>2 DEF OneStage, InOpen
  <1>5. InJob'
    BY <1>1 DEF OneStage, InJob
  <1>6. ASSUME NEW p \in Configured, Live(p)' PROVE InSession(p)' /\ Pairs(p, Sent(p))'
    <2>1. Sent(p)' = Sent(p)
      BY DEF Sent
    <2>2. InSession(p) /\ Pairs(p, Sent(p)) /\ Live(p)
      BY <1>6, PairsOfSessions DEF OneStage, Live
    <2>3. \A i \in DOMAIN Sent(p) : Sent(p)[i].conn \in Sock
      BY SentType DEF AdminEvent
    <2>4. \A i \in DOMAIN Sent(p) :
             /\ passive'[Sent(p)[i].conn] = "done"
             /\ from'[Sent(p)[i].conn] = from[Sent(p)[i].conn]
      BY <1>1, <2>2, <2>3 DEF InSession
    <2>5. dispatcher = "open" => from'[job[1]] = from[job[1]]
      <3> SUFFICES ASSUME dispatcher = "open" PROVE from'[job[1]] = from[job[1]]
        OBVIOUS
      <3>1. PICK t \in Sock : job = <<t>> /\ job[1] = t
        BY JobTo DEF OneStage
      <3>2. passive[t] = "done"
        BY <3>1 DEF OneStage, InJob
      <3> QED BY <1>1, <3>1, <3>2
    <2>6. InSession(p)'
      BY <2>1, <2>2, <2>4, <2>5 DEF InSession
    <2>7. Pairs(p, Sent(p))'
      BY <2>1, <2>2, <2>4 DEF Pairs
    <2> QED BY <2>6, <2>7
  <1> QED BY <1>3, <1>4, <1>5, <1>6, PairsOfSessionsNext DEF OneStage

\* Once the dispatcher has ended, no connection is on its way.
LEMMA DispatcherGone ==
    ASSUME dispatcher' = "dead", job' = <<>>, open' = <<>>, Waiting'
    PROVE  OneStage' /\ PairsAdjacent'
  <1>1. DOMAIN <<>> = {}
    OBVIOUS
  <1>2. InOpen'
    BY <1>1, Zenon DEF InOpen
  <1>3. InJob'
    BY DEF InJob
  <1>4. \A p \in Configured : ~Live(p)'
    BY DEF Live
  <1> QED BY <1>2, <1>3, <1>4, PairsOfSessionsNext DEF OneStage

\* A process_passive task lets go of its connection: it was in no other hands.
LEMMA SendsStep ==
    ASSUME TypeOK, OneStage, PairsAdjacent, NEW s \in Sock, PassiveSends(s)
    PROVE  OneStage' /\ PairsAdjacent'
  <1>1. /\ passive[s] = "sending" /\ passive' = [passive EXCEPT ![s] = "done"]
        /\ open' = Append(open, s)
        /\ UNCHANGED <<from, dispatcher, job, run, admin, got>>
    BY DEF PassiveSends, sessions
  <1>2. /\ open \in Seq(Sock) /\ Len(open) \in Nat /\ DOMAIN open = 1 .. Len(open)
        /\ \A i \in DOMAIN open : open[i] \in Sock
    BY ElementOfSeq, LenProperties DEF TypeOK
  <1>3. /\ DOMAIN open' = 1 .. Len(open) + 1
        /\ \A i \in 1 .. Len(open) : open'[i] = open[i]
        /\ open'[Len(open) + 1] = s
    BY <1>1, <1>2, AppendProperties, LenProperties
  <1>4. \A t \in Sock : passive[t] = "done" => t # s /\ passive'[t] = "done"
    BY <1>1 DEF TypeOK
  <1>5. passive'[s] = "done" /\ from[s] # <<>>
    BY <1>1 DEF TypeOK, OneStage, Waiting
  <1>6. \A i \in DOMAIN open' : open'[i] = s \/ (i \in DOMAIN open /\ open'[i] = open[i])
    BY <1>2, <1>3
  <1>7. Waiting'
    BY <1>1 DEF OneStage, Waiting, TypeOK
  <1>8. InOpen'
    <2>1. \A i \in DOMAIN open : open[i] # s /\ passive'[open[i]] = "done" /\ from[open[i]] # <<>>
      BY <1>2, <1>4 DEF OneStage, InOpen
    <2>2. \A i \in DOMAIN open' : passive'[open'[i]] = "done" /\ from'[open'[i]] # <<>>
      BY <1>1, <1>5, <1>6, <2>1
    <2>3. ASSUME NEW i \in DOMAIN open', NEW j \in DOMAIN open', open'[i] = open'[j]
          PROVE  i = j
      <3>1. \A k \in DOMAIN open' : k = Len(open) + 1 \/ (k \in DOMAIN open /\ open'[k] = open[k])
        BY <1>2, <1>3
      <3> QED BY <1>3, <2>1, <2>3, <3>1 DEF OneStage, InOpen
    <2> QED BY <2>2, <2>3 DEF InOpen
  <1>9. InJob'
    BY <1>1, <1>4, <1>6 DEF OneStage, InJob
  <1>10. ASSUME NEW p \in Configured, Live(p)' PROVE InSession(p)' /\ Pairs(p, Sent(p))'
    <2>1. Sent(p)' = Sent(p)
      BY <1>1 DEF Sent
    <2>2. InSession(p) /\ Pairs(p, Sent(p))
      BY <1>1, <1>10, PairsOfSessions DEF OneStage, Live
    <2>3. \A i \in DOMAIN Sent(p) : Sent(p)[i].conn \in Sock
      BY SentType DEF AdminEvent
    <2>4. \A i \in DOMAIN Sent(p) :
             /\ passive'[Sent(p)[i].conn] = "done"
             /\ \A j \in DOMAIN open' : open'[j] # Sent(p)[i].conn
      BY <1>4, <1>6, <2>2, <2>3 DEF InSession
    <2>5. InSession(p)'
      BY <1>1, <2>1, <2>2, <2>4 DEF InSession
    <2>6. Pairs(p, Sent(p))'
      BY <1>1, <2>1, <2>2 DEF Pairs
    <2> QED BY <2>5, <2>6
  <1> QED BY <1>7, <1>8, <1>9, <1>10, PairsOfSessionsNext DEF OneStage

\* The dispatcher takes a connection that no session has been sent.
LEMMA TakesStep ==
    ASSUME TypeOK, OneStage, PairsAdjacent, DispatcherTakes
    PROVE  OneStage' /\ PairsAdjacent'
  <1> DEFINE s == Head(open)
  <1>1. /\ dispatcher = "recv" /\ dispatcher' = "confirm" /\ open # <<>> /\ Known(s)
        /\ job' = <<s>> /\ open' = Tail(open)
        /\ UNCHANGED <<passive, from, run, admin, got>>
    BY DEF DispatcherTakes, inbound, sessions
  <1>2. /\ open \in Seq(Sock) /\ Len(open) \in Nat /\ DOMAIN open = 1 .. Len(open)
        /\ Len(open) > 0 /\ s \in Sock /\ s = open[1]
    BY <1>1, HeadTailProperties, LenProperties, EmptySeq DEF TypeOK
  <1>3. \A i \in DOMAIN open' : i + 1 \in DOMAIN open /\ open'[i] = open[i + 1] /\ i \in Nat \ {0}
    <2>1. /\ Tail(open) \in Seq(Sock) /\ Len(Tail(open)) = Len(open) - 1
          /\ \A i \in 1 .. Len(Tail(open)) : Tail(open)[i] = open[i + 1]
      BY <1>1, <1>2, HeadTailProperties
    <2>2. DOMAIN open' = 1 .. Len(open) - 1
      BY <1>1, <2>1, LenProperties
    <2> QED BY <1>1, <1>2, <2>1, <2>2
  <1>4. 1 \in DOMAIN open /\ passive[s] = "done" /\ from[s] # <<>>
    BY <1>2 DEF OneStage, InOpen
  <1>5. \A i \in DOMAIN open' : open'[i] # s
    BY <1>2, <1>3, <1>4 DEF OneStage, InOpen
  <1> HIDE DEF s
  <1>6. \E p \in Configured : from[s] = <<p>>
    <2>1. PICK p \in Neighbor : from[s] = <<p>>
      BY <1>2, <1>4 DEF TypeOK
    <2> QED BY <1>1, <2>1 DEF Known
  <1>7. Waiting' /\ InOpen'
    BY <1>1, <1>3 DEF OneStage, Waiting, InOpen
  <1>8. InJob'
    <2>1. \A t \in Sock : job' = <<t>> => t = s
      BY <1>1
    <2>2. job' # <<>>
      BY <1>1
    <2> QED BY <1>1, <1>4, <1>5, <1>6, <2>1, <2>2 DEF InJob
  <1>9. ASSUME NEW p \in Configured, Live(p)' PROVE InSession(p)' /\ Pairs(p, Sent(p))'
    <2>1. Sent(p)' = Sent(p)
      BY <1>1 DEF Sent
    <2>2. InSession(p) /\ Pairs(p, Sent(p))
      BY <1>1, <1>9, PairsOfSessions DEF OneStage, Live
    <2>3. \A i \in DOMAIN Sent(p) : Sent(p)[i].conn # s
      BY <1>2, <1>4, <2>2 DEF InSession
    <2>4. \A i \in DOMAIN Sent(p) : job' # <<Sent(p)[i].conn>>
      BY <1>1, <2>3
    <2>5. InSession(p)'
      BY <1>1, <1>3, <2>1, <2>2, <2>4 DEF InSession
    <2>6. Pairs(p, Sent(p))'
      BY <1>1, <2>1, <2>2 DEF Pairs
    <2> QED BY <2>5, <2>6
  <1> QED BY <1>7, <1>8, <1>9, PairsOfSessionsNext DEF OneStage

(***************************************************************************)
(* The pair of a connection                                                *)
(***************************************************************************)
\* Counting by twos.
LEMMA Parity ==
    ASSUME NEW n \in Nat
    PROVE  /\ n % 2 = 1 => (n + 1) % 2 # 1
           /\ n % 2 # 1 => (n + 1) % 2 = 1
  OBVIOUS

\* A session that the dispatcher is not serving has been sent whole pairs.
LEMMA WholePairs ==
    ASSUME TypeOK, NEW p \in Configured, Pairs(p, Sent(p)),
           dispatcher # "open" \/ from[job[1]] # <<p>>
    PROVE  /\ Len(Sent(p)) % 2 # 1
           /\ \A i \in DOMAIN Sent(p) : i % 2 = 1 => i < Len(Sent(p))
  <1>1. Len(Sent(p)) \in Nat /\ DOMAIN Sent(p) = 1 .. Len(Sent(p))
    BY SentType
  <1>2. ASSUME NEW i \in DOMAIN Sent(p), i % 2 = 1 PROVE i < Len(Sent(p))
    <2>1. SUFFICES ASSUME dispatcher = "open", job = <<Sent(p)[i].conn>> PROVE FALSE
      BY <1>2 DEF Pairs
    <2>2. from[job[1]] = <<p>>
      <3>1. job[1] = Sent(p)[i].conn
        BY <2>1
      <3> QED BY <3>1 DEF Pairs
    <2> QED BY <2>1, <2>2
  <1>3. Len(Sent(p)) % 2 # 1
    <2> SUFFICES ASSUME Len(Sent(p)) % 2 = 1 PROVE FALSE
      OBVIOUS
    <2>1. Len(Sent(p)) # 0
      OBVIOUS
    <2>2. Len(Sent(p)) \in DOMAIN Sent(p)
      BY <1>1, <2>1
    <2> QED BY <1>1, <1>2, <2>2
  <1> QED BY <1>2, <1>3

\* The first half: the session had only whole pairs.
LEMMA ConfirmsStep ==
    ASSUME TypeOK, OneStage, PairsAdjacent, DispatcherConfirms
    PROVE  OneStage' /\ PairsAdjacent'
  <1>1. PICK s \in Sock : job = <<s>> /\ job[1] = s /\ To \in Configured /\ from[s] = <<To>>
    BY JobTo DEF OneStage, DispatcherConfirms
  <1>2. PICK p \in Configured : p = To
    BY <1>1
  <1> DEFINE ev == Ev("TcpConnectionConfirmed", s)
  <1>3. /\ ev \in AdminEvent /\ ev.conn = s /\ ev.type = "TcpConnectionConfirmed"
    BY DEF Ev, AdminEvent
  <1>4. /\ dispatcher = "confirm" /\ dispatcher' = "open" /\ SendTo(p, ev)
        /\ UNCHANGED <<passive, from, open, job>>
    BY <1>1, <1>2 DEF DispatcherConfirms, inbound
  <1> HIDE DEF ev
  <1>5. /\ Sent(p)' = Append(Sent(p), ev)
        /\ \A q \in Configured : q # p => Sent(q)' = Sent(q)
        /\ \A q \in Configured : run'[q] = run[q]
    BY <1>3, <1>4, SendToSent
  <1>6. Waiting' /\ InOpen' /\ InJob'
    BY <1>4 DEF OneStage, Waiting, InOpen, InJob
  <1>7. passive[s] = "done" /\ \A i \in DOMAIN open : open[i] # s
    BY <1>1 DEF OneStage, InJob
  <1>8. ASSUME NEW q \in Configured, Live(q)'
        PROVE  /\ InSession(q) /\ Pairs(q, Sent(q))
               /\ \A i \in DOMAIN Sent(q) : job # <<Sent(q)[i].conn>>
               /\ \A i \in DOMAIN Sent(q) : i % 2 = 1 => i < Len(Sent(q))
               /\ Len(Sent(q)) % 2 # 1
    <2>1. InSession(q) /\ Pairs(q, Sent(q))
      BY <1>4, <1>5, <1>8, PairsOfSessions DEF OneStage, Live
    <2>2. \A i \in DOMAIN Sent(q) : job # <<Sent(q)[i].conn>>
      BY <1>4, <2>1 DEF InSession
    <2> QED BY <1>4, <2>1, <2>2, WholePairs
  <1>9. ASSUME NEW q \in Configured, q # p, Live(q)'
        PROVE  InSession(q)' /\ Pairs(q, Sent(q))'
    <2>1. Sent(q)' = Sent(q)
      BY <1>5, <1>9
    <2>2. from[job[1]] # <<q>>
      BY <1>1, <1>2, <1>9
    <2>3. InSession(q)'
      BY <1>4, <1>8, <1>9, <2>1, <2>2 DEF InSession
    <2>4. Pairs(q, Sent(q))'
      BY <1>4, <1>8, <1>9, <2>1 DEF Pairs
    <2> QED BY <2>3, <2>4
  <1>10. ASSUME Live(p)' PROVE InSession(p)' /\ Pairs(p, Sent(p))'
    <2> DEFINE e == Sent(p)  n == Len(e)
    <2>1. /\ e \in Seq(AdminEvent) /\ n \in Nat /\ DOMAIN e = 1 .. n
      BY SentType
    <2>2. /\ DOMAIN Sent(p)' = 1 .. n + 1 /\ Len(Sent(p))' = n + 1
          /\ \A i \in 1 .. n : Sent(p)'[i] = e[i]
          /\ Sent(p)'[n + 1] = ev
      <3> HIDE DEF e
      <3>1. Sent(p)' = Append(e, ev)
        BY <1>5 DEF e
      <3> QED BY <1>3, <2>1, <3>1, AppendProperties, LenProperties
    <2>3. /\ InSession(p) /\ Pairs(p, e) /\ n % 2 # 1
          /\ \A i \in 1 .. n : job # <<e[i].conn>> /\ (i % 2 = 1 => i < n)
      BY <1>8, <1>10, <2>1
    <2>4. \A i \in 1 .. n + 1 : i \in 1 .. n \/ i = n + 1
      BY <2>1
    <2>5. (n + 1) % 2 = 1
      BY <2>1, <2>3, Parity
    <2>6. InSession(p)'
      <3>1. \A i \in 1 .. n : /\ passive[e[i].conn] = "done"
                              /\ \A j \in DOMAIN open : open[j] # e[i].conn
        BY <2>1, <2>3 DEF InSession
      <3> HIDE DEF e, n
      <3>2. ASSUME NEW i \in 1 .. n + 1
            PROVE  /\ passive[Sent(p)'[i].conn] = "done"
                   /\ \A j \in DOMAIN open : open[j] # Sent(p)'[i].conn
                   /\ job = <<Sent(p)'[i].conn>> => i = n + 1
        <4>1. CASE i \in 1 .. n
          BY <2>2, <2>3, <3>1, <4>1
        <4>2. CASE i = n + 1
          BY <1>3, <1>7, <2>2, <4>2
        <4> QED BY <2>4, <4>1, <4>2
      <3> QED BY <1>4, <2>2, <2>5, <3>2 DEF InSession
    <2>7. Pairs(p, Sent(p))'
      <3>1. /\ \A i \in 1 .. n : from[e[i].conn] = <<p>>
            /\ \A i, j \in 1 .. n : i # j => e[i] # e[j]
            /\ \A i \in 1 .. n : i % 2 # 1 => e[i].type = "BGPOpen"
            /\ \A i \in 1 .. n : i % 2 = 1 =>
                  /\ e[i].type = "TcpConnectionConfirmed"
                  /\ i < n /\ e[i + 1] = Ev("BGPOpen", e[i].conn)
        BY <2>1, <2>3 DEF Pairs
      <3>2. \A i \in 1 .. n : e[i] # ev
        BY <1>1, <1>3, <2>3
      <3> HIDE DEF e, n
      <3>3. \A i \in 1 .. n + 1 : from[Sent(p)'[i].conn] = <<p>>
        BY <1>1, <1>2, <1>3, <2>2, <2>4, <3>1
      <3>4. \A i, j \in 1 .. n + 1 : i # j => Sent(p)'[i] # Sent(p)'[j]
        BY <2>2, <2>4, <3>1, <3>2
      <3>5. ASSUME NEW i \in 1 .. n + 1
            PROVE  IF i % 2 = 1
                   THEN /\ Sent(p)'[i].type = "TcpConnectionConfirmed"
                        /\ \/ i < n + 1 /\ Sent(p)'[i + 1] = Ev("BGPOpen", Sent(p)'[i].conn)
                           \/ i = n + 1 /\ job = <<Sent(p)'[i].conn>>
                   ELSE Sent(p)'[i].type = "BGPOpen"
        <4>1. CASE i = n + 1
          BY <1>1, <1>3, <2>2, <2>5, <4>1
        <4>2. CASE i \in 1 .. n /\ i % 2 = 1
          <5>1. i + 1 \in 1 .. n /\ i < n + 1
            BY <2>1, <3>1, <4>2
          <5> QED BY <2>2, <3>1, <4>2, <5>1
        <4>3. CASE i \in 1 .. n /\ i % 2 # 1
          BY <2>2, <3>1, <4>3
        <4> QED BY <2>4, <4>1, <4>2, <4>3
      <3> QED BY <1>4, <2>2, <3>3, <3>4, <3>5 DEF Pairs
    <2> QED BY <2>6, <2>7
  <1> QED BY <1>6, <1>9, <1>10, PairsOfSessionsNext DEF OneStage

\* The second half: the last event that the session was sent is the first
\* half, of this connection.
LEMMA OpensStep ==
    ASSUME TypeOK, OneStage, PairsAdjacent, DispatcherOpens
    PROVE  OneStage' /\ PairsAdjacent'
  <1>1. PICK s \in Sock : job = <<s>> /\ job[1] = s /\ To \in Configured /\ from[s] = <<To>>
    BY JobTo DEF OneStage, DispatcherOpens
  <1>2. PICK p \in Configured : p = To
    BY <1>1
  <1> DEFINE ev == Ev("BGPOpen", s)
  <1>3. ev \in AdminEvent /\ ev.conn = s /\ ev.type = "BGPOpen"
    BY DEF Ev, AdminEvent
  <1>4. /\ dispatcher = "open" /\ dispatcher' = "recv" /\ SendTo(p, ev)
        /\ job' = <<>> /\ run[p] # "gone"
        /\ UNCHANGED <<passive, from, open>>
    BY <1>1, <1>2 DEF DispatcherOpens, SendTo, inbound
  <1>5. /\ Sent(p)' = Append(Sent(p), ev)
        /\ \A q \in Configured : q # p => Sent(q)' = Sent(q)
        /\ \A q \in Configured : run'[q] = run[q]
    <2> HIDE DEF ev
    <2> QED BY <1>3, <1>4, SendToSent
  <1>6. Waiting' /\ InOpen' /\ InJob'
    BY <1>4 DEF OneStage, Waiting, InOpen, InJob
  <1>7. passive[s] = "done" /\ \A i \in DOMAIN open : open[i] # s
    BY <1>1 DEF OneStage, InJob
  <1>8. ASSUME NEW q \in Configured, Live(q)' PROVE InSession(q) /\ Pairs(q, Sent(q))
    BY <1>4, <1>5, <1>8, PairsOfSessions DEF OneStage, Live
  <1>9. ASSUME NEW q \in Configured, q # p, Live(q)'
        PROVE  InSession(q)' /\ Pairs(q, Sent(q))'
    <2>1. Sent(q)' = Sent(q)
      BY <1>5, <1>9
    <2>2. from[job[1]] # <<q>>
      BY <1>1, <1>2, <1>9
    <2>3. InSession(q)'
      BY <1>4, <1>8, <1>9, <2>1 DEF InSession
    <2>4. \A i \in DOMAIN Sent(q) : i % 2 = 1 => i < Len(Sent(q))
      BY <1>8, <1>9, <2>2, WholePairs
    <2>5. ASSUME NEW i \in DOMAIN Sent(q), i % 2 = 1
          PROVE  i # Len(Sent(q))
      <3>1. Len(Sent(q)) \in Nat
        BY SentType
      <3> QED BY <2>4, <2>5, <3>1
    <2>6. Pairs(q, Sent(q))'
      BY <1>4, <1>8, <1>9, <2>1, <2>5 DEF Pairs
    <2> QED BY <2>3, <2>6
  <1>10. ASSUME Live(p)' PROVE InSession(p)' /\ Pairs(p, Sent(p))'
    <2> DEFINE e == Sent(p)  n == Len(e)
    <2>1. /\ e \in Seq(AdminEvent) /\ n \in Nat /\ DOMAIN e = 1 .. n
      BY SentType
    <2>2. /\ DOMAIN Sent(p)' = 1 .. n + 1 /\ Len(Sent(p))' = n + 1
          /\ \A i \in 1 .. n : Sent(p)'[i] = e[i]
          /\ Sent(p)'[n + 1] = ev
      <3> HIDE DEF e, ev
      <3>1. Sent(p)' = Append(e, ev)
        BY <1>5 DEF e
      <3> QED BY <1>3, <2>1, <3>1, AppendProperties, LenProperties
    <2>3. /\ InSession(p) /\ Pairs(p, e) /\ n % 2 = 1
          /\ \A i \in 1 .. n : job = <<e[i].conn>> => i = n
      BY <1>1, <1>2, <1>4, <1>8, <1>10, <2>1 DEF InSession
    <2>4. \A i \in 1 .. n + 1 : i \in 1 .. n \/ i = n + 1
      BY <2>1
    <2>5. (n + 1) % 2 # 1 /\ n \in 1 .. n
      <3>1. n # 0
        BY <2>3
      <3>2. n \in Nat /\ n % 2 = 1
        BY <2>1, <2>3
      <3> HIDE DEF n
      <3>3. (n + 1) % 2 # 1
        BY <3>2, Parity
      <3>4. n \in 1 .. n
        BY <3>1, <3>2
      <3> QED BY <3>3, <3>4
    <2>6. InSession(p)'
      <3>1. \A i \in 1 .. n : /\ passive[e[i].conn] = "done"
                              /\ \A j \in DOMAIN open : open[j] # e[i].conn
        BY <2>1, <2>3 DEF InSession
      <3> HIDE DEF e, n, ev
      <3>2. ASSUME NEW i \in 1 .. n + 1
            PROVE  /\ passive[Sent(p)'[i].conn] = "done"
                   /\ \A j \in DOMAIN open : open[j] # Sent(p)'[i].conn
        <4>1. CASE i \in 1 .. n
          BY <2>2, <3>1, <4>1
        <4>2. CASE i = n + 1
          BY <1>3, <1>7, <2>2, <4>2
        <4> QED BY <2>4, <4>1, <4>2
      <3> QED BY <1>4, <2>2, <3>2 DEF InSession
    <2>7. Pairs(p, Sent(p))'
      <3>1. /\ \A i \in 1 .. n : from[e[i].conn] = <<p>>
            /\ \A i, j \in 1 .. n : i # j => e[i] # e[j]
            /\ \A i \in 1 .. n : i % 2 # 1 => e[i].type = "BGPOpen"
            /\ \A i \in 1 .. n : i % 2 = 1 => e[i].type = "TcpConnectionConfirmed"
            /\ \A i \in 1 .. n : i % 2 = 1 =>
                  i = n \/ (i < n /\ e[i + 1] = Ev("BGPOpen", e[i].conn))
            /\ job = <<e[n].conn>>
        <4>1. \A i \in 1 .. n :
                 IF i % 2 = 1
                 THEN /\ e[i].type = "TcpConnectionConfirmed"
                      /\ \/ i < n /\ e[i + 1] = Ev("BGPOpen", e[i].conn)
                         \/ i = n /\ job = <<e[i].conn>>
                 ELSE e[i].type = "BGPOpen"
          BY <2>1, <2>3 DEF Pairs
        <4>2. /\ \A i \in 1 .. n : from[e[i].conn] = <<p>>
              /\ \A i, j \in 1 .. n : i # j => e[i] # e[j]
          BY <2>1, <2>3 DEF Pairs
        <4>3. n \in Nat /\ n \in 1 .. n /\ n % 2 = 1
          BY <2>1, <2>3, <2>5
        <4> HIDE DEF e, n
        <4>4. job = <<e[n].conn>>
          BY <4>1, <4>3
        <4> QED BY <4>1, <4>2, <4>4
      <3>2. e[n].conn = s /\ e[n].type = "TcpConnectionConfirmed"
        BY <1>1, <2>3, <2>5, <3>1
      <3>3. \A i \in 1 .. n : e[i] # ev
        BY <1>1, <1>3, <2>3, <3>2
      <3> HIDE DEF e, n
      <3>4. \A i \in 1 .. n + 1 : from[Sent(p)'[i].conn] = <<p>>
        BY <1>1, <1>2, <1>3, <2>2, <2>4, <3>1
      <3>5. \A i, j \in 1 .. n + 1 : i # j => Sent(p)'[i] # Sent(p)'[j]
        <4> HIDE DEF ev
        <4> QED BY <2>2, <2>4, <3>1, <3>3
      <3>6. ASSUME NEW i \in 1 .. n + 1
            PROVE  IF i % 2 = 1
                   THEN /\ Sent(p)'[i].type = "TcpConnectionConfirmed"
                        /\ i < n + 1 /\ Sent(p)'[i + 1] = Ev("BGPOpen", Sent(p)'[i].conn)
                   ELSE Sent(p)'[i].type = "BGPOpen"
        <4>1. CASE i = n + 1
          BY <1>3, <2>2, <2>5, <4>1
        <4>2. CASE i = n
          BY <2>1, <2>2, <2>3, <2>5, <3>2, <4>2
        <4>3. CASE i \in 1 .. n /\ i # n /\ i % 2 = 1
          <5>1. i + 1 \in 1 .. n /\ i < n + 1
            BY <2>1, <4>3
          <5> QED BY <2>2, <3>1, <4>3, <5>1
        <4>4. CASE i \in 1 .. n /\ i % 2 # 1
          BY <2>2, <3>1, <4>4
        <4> QED BY <2>4, <4>1, <4>2, <4>3, <4>4
      <3> QED BY <2>2, <3>4, <3>5, <3>6, <1>4 DEF Pairs
    <2> QED BY <2>6, <2>7
  <1> QED BY <1>6, <1>9, <1>10, PairsOfSessionsNext DEF OneStage

(***************************************************************************)
(* The theorems                                                            *)
(***************************************************************************)
\* A session task that ends is sent nothing more.
LEMMA EndStep ==
    ASSUME TypeOK, OneStage, PairsAdjacent, NEW p \in Configured, End(p)
    PROVE  OneStage' /\ PairsAdjacent'
  <1>1. ASSUME NEW q \in Configured, Live(q)' PROVE Live(q) /\ Sent(q)' = Sent(q)
    <2>1. q # p
      BY <1>1 DEF End, Live, TypeOK
    <2> QED BY <1>1, <2>1 DEF End, Live, TypeOK, Sent
  <1>2. UNCHANGED <<passive, from, open, dispatcher, job>>
    BY DEF End, inbound
  <1> QED BY <1>1, <1>2, SessionStep

\* Every step keeps the connections apart and the pairs together.
LEMMA Step ==
    ASSUME TypeOK, OneStage, PairsAdjacent, [Next]_vars
    PROVE  OneStage' /\ PairsAdjacent'
  <1> USE DEF sessions, inbound
  <1>1. CASE Bind \/ UNCHANGED vars
    BY <1>1, SessionStep DEF Bind, vars, Live, Sent
  <1>2. CASE MainPanics
    <2>1. Waiting'
      BY <1>2 DEF MainPanics, Waiting
    <2> QED BY <1>2, <2>1, DispatcherGone DEF MainPanics
  <1>3. ASSUME NEW s \in Sock, Accept(s) PROVE OneStage' /\ PairsAdjacent'
    BY <1>3, PassiveStep DEF Accept
  <1>4. ASSUME NEW s \in Sock, PassiveReturns(s) \/ PassivePanics(s)
        PROVE  OneStage' /\ PairsAdjacent'
    BY <1>4, PassiveStep DEF PassiveReturns, PassivePanics
  <1>5. ASSUME NEW s \in Sock, PassiveSends(s) PROVE OneStage' /\ PairsAdjacent'
    BY <1>5, SendsStep
  <1>6. ASSUME NEW s \in Sock, PeerResets(s) PROVE OneStage' /\ PairsAdjacent'
    BY <1>6, SessionStep DEF PeerResets, Live, Sent
  <1>7. ASSUME NEW s \in Sock, NEW p \in Neighbor, PassiveReadsOpen(s, p)
        PROVE  OneStage' /\ PairsAdjacent'
    <2>1. /\ passive[s] # "done" /\ passive' = [passive EXCEPT ![s] = "sending"]
          /\ UNCHANGED <<open, dispatcher, job, run, admin, got>>
      BY <1>7 DEF PassiveReadsOpen
    <2>2. /\ \A t \in Sock : t # s => from'[t] = from[t]
          /\ from'[s] # <<>>
      BY <1>7 DEF PassiveReadsOpen, TypeOK
    <2> QED BY <2>1, <2>2, PassiveStep
  <1>8. CASE DispatcherTakes
    BY <1>8, TakesStep
  <1>9. CASE DispatcherPanics \/ DispatcherFindsNobody
    <2>1. DispatcherEnds
      BY <1>9 DEF DispatcherPanics, DispatcherFindsNobody
    <2>2. Waiting'
      BY <2>1 DEF DispatcherEnds, OneStage, Waiting
    <2> QED BY <2>1, <2>2, DispatcherGone DEF DispatcherEnds
  <1>10. CASE DispatcherConfirms
    BY <1>10, ConfirmsStep
  <1>11. CASE DispatcherOpens
    BY <1>11, OpensStep
  <1>12. ASSUME NEW p \in Configured, RunStarts(p) \/ RunStalls(p)
         PROVE  OneStage' /\ PairsAdjacent'
    <2>1. ASSUME NEW q \in Configured, Live(q)' PROVE Live(q) /\ Sent(q)' = Sent(q)
      BY <1>12, <2>1 DEF RunStarts, RunStalls, Live, Sent, TypeOK
    <2> QED BY <1>12, <2>1, SessionStep DEF RunStarts, RunStalls
  <1>13. ASSUME NEW p \in Configured, RunDropped(p) \/ RunPanics(p) \/ RunLosesAdmin(p)
         PROVE  OneStage' /\ PairsAdjacent'
    BY <1>13, EndStep DEF RunDropped, RunPanics, RunLosesAdmin
  <1>14. ASSUME NEW p \in Configured, RunReceives(p) PROVE OneStage' /\ PairsAdjacent'
    <2>1. \A q \in Configured : Live(q)' => Live(q) /\ Sent(q)' = Sent(q)
      BY <1>14, ReceivedIsSent DEF RunReceives, Live
    <2> QED BY <1>14, <2>1, SessionStep DEF RunReceives
  <1> QED
    BY <1>1, <1>2, <1>3, <1>4, <1>5, <1>6, <1>7, <1>8, <1>9, <1>10, <1>11, <1>12,
       <1>13, <1>14
    DEF Next

\* Nothing has been accepted when main starts.
LEMMA Initially == Init => IInv
  <1> SUFFICES ASSUME Init PROVE IInv
    OBVIOUS
  <1>1. TypeOK
    <2>1. /\ <<>> \in Seq(Sock) /\ <<>> \in Seq(AdminEvent) /\ Len(<<>>) = 0
          /\ AdminCap \in Nat /\ OpenCap \in Nat
      BY ListenerAssumption
    <2>2. open \in Seq(Sock) /\ Len(open) <= OpenCap
      BY <2>1 DEF Init
    <2>3. /\ admin \in [Configured -> Seq(AdminEvent)]
          /\ got \in [Configured -> Seq(AdminEvent)]
          /\ \A p \in Configured : Len(admin[p]) <= AdminCap
      BY <2>1 DEF Init
    <2> QED
      BY <2>2, <2>3 DEF Init, TypeOK, PassiveState, DispatcherState, RunState
  <1>2. DOMAIN <<>> = {}
    OBVIOUS
  <1>3. \A p \in Configured : Len(Sent(p)) = 0 /\ DOMAIN Sent(p) = {}
    <2>1. \A p \in Configured : Sent(p) = <<>> \o <<>>
      BY DEF Init, Sent
    <2>2. <<>> \o <<>> = <<>>
      OBVIOUS
    <2>3. Len(<<>>) = 0
      OBVIOUS
    <2> QED BY <1>2, <2>1, <2>2, <2>3
  <1>4. Waiting /\ InJob
    BY DEF Init, Waiting, InJob
  <1>5. InOpen
    <2>1. open = <<>>
      BY DEF Init
    <2> QED BY <1>2, <2>1, Zenon DEF InOpen
  <1>6. \A p \in Configured : InSession(p) /\ Pairs(p, Sent(p))
    <2>1. dispatcher = "recv"
      BY DEF Init
    <2> QED BY <1>3, <2>1, Zenon DEF InSession, Pairs
  <1> QED BY <1>1, <1>4, <1>5, <1>6, PairsOfSessions DEF IInv, OneStage

\* IInv is an invariant of main.
THEOREM Invariance == Spec => []IInv
  <1>1. IInv /\ [Next]_vars => IInv'
    BY TypeStep, Step DEF IInv, OneStage
  <1> QED BY Initially, <1>1, PTL DEF Spec

\* Every variable has its type, and no channel exceeds its capacity.
THEOREM TypeCorrect == Spec => []TypeOK
  <1>1. IInv => TypeOK
    BY DEF IInv
  <1> QED BY <1>1, Invariance, PTL

\* A session is sent the connections of its own peer only, each one once, and
\* the two events of a connection next to each other.
THEOREM PairsStayTogether == Spec => []PairsAdjacent
  <1>1. IInv => PairsAdjacent
    BY DEF IInv
  <1> QED BY <1>1, Invariance, PTL
=============================================================================
