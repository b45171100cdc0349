----------------------------- MODULE Listener -----------------------------
(***************************************************************************)
(* main of main.rs: a session task per configured neighbor, the listener,  *)
(* a process_passive task per inbound connection, and the one dispatcher   *)
(* that hands inbound connections to the sessions.                         *)
(*                                                                         *)
(*   accept -> process_passive(s) --open--> dispatcher --admin[p]--> run   *)
(*                                                                         *)
(* A neighbor is looked up by its address and the AS number of its OPEN.   *)
(* The dispatcher owns the only sender of every session's admin channel.   *)
(*                                                                         *)
(* The block that main spawns for a session builds the future of           *)
(* session::run and returns it: the future, and admin_rx in it, is dropped *)
(* without being polled.  polled = FALSE is that code; polled = TRUE is    *)
(* the program with an await there, which is what Session starts from.     *)
(***************************************************************************)
EXTENDS Naturals, Sequences

CONSTANTS
    Sock,       \* inbound connections
    Neighbor,   \* pairs of an address and an AS number
    Configured, \* those of conf.neighbors
    Polled,     \* the values of polled to consider
    OpenCap,    \* capacity of the channel to the dispatcher (32 in the code)
    AdminCap    \* capacity of an admin channel (32 in the code)

ASSUME ListenerAssumption ==
    /\ Configured \subseteq Neighbor
    /\ Polled \subseteq BOOLEAN
    /\ OpenCap \in Nat \ {0} /\ AdminCap \in Nat \ {0}

VARIABLES
    polled,     \* the block spawned for a session awaits session::run
    main,       \* what main does
    passive,    \* per connection: what its process_passive task does
    from,       \* per connection: the neighbor it is from, once its OPEN is read
    up,         \* the connections the peer has not reset
    open,       \* open_tx to open_rx
    dispatcher, \* what the dispatcher does
    job,        \* the connection the dispatcher has taken, or <<>>
    run,        \* per neighbor: what its session task does
    admin,      \* per neighbor: admin_tx to admin_rx
    got         \* history, per neighbor: the events run has received

vars == <<polled, main, passive, from, up, open, dispatcher, job, run, admin, got>>

inbound == <<polled, main, passive, from, up>>
sessions == <<run, admin, got>>

PassiveState == {"none", "reading", "sending", "done"}
DispatcherState == {"recv", "confirm", "open", "dead"}
RunState == {"spawned", "running", "stalled", "gone"}
AdminEvent == [type : {"TcpConnectionConfirmed", "BGPOpen"}, conn : Sock]

Ev(t, s) == [type |-> t, conn |-> s]

(***************************************************************************)
(* main and process_passive                                                *)
(***************************************************************************)
\* TcpListener::bind.
Bind ==
    /\ main = "bind"
    /\ main' = "accept"
    /\ UNCHANGED <<polled, passive, from, up, open, dispatcher, job, sessions>>

\* bind or accept fails: main panics, and the runtime drops every task.
MainPanics ==
    /\ main # "exited"
    /\ main' = "exited"
    /\ passive' = [s \in Sock |-> "done"]
    /\ dispatcher' = "dead" /\ job' = <<>> /\ open' = <<>>
    /\ run' = [p \in Configured |-> "gone"]
    /\ admin' = [p \in Configured |-> <<>>]
    /\ UNCHANGED <<polled, from, up, got>>

Accept(s) ==
    /\ main = "accept" /\ passive[s] = "none"
    /\ passive' = [passive EXCEPT ![s] = "reading"]
    /\ up' = up \cup {s}
    /\ UNCHANGED <<polled, main, from, open, dispatcher, job, sessions>>

\* The first message is an OPEN; s is from p.
PassiveReadsOpen(s, p) ==
    /\ passive[s] = "reading"
    /\ passive' = [passive EXCEPT ![s] = "sending"]
    /\ from' = [from EXCEPT ![s] = <<p>>]
    /\ UNCHANGED <<polled, main, up, open, dispatcher, job, sessions>>

\* Another message, or an error: the connection is dropped.
PassiveReturns(s) ==
    /\ passive[s] = "reading"
    /\ passive' = [passive EXCEPT ![s] = "done"]
    /\ UNCHANGED <<polled, main, from, up, open, dispatcher, job, sessions>>

\* Mutant: try_send, and the connection is lost if the channel is full.
PassiveTriesSend(s) ==
    /\ passive[s] = "sending" /\ dispatcher # "dead"
    /\ open' = IF Len(open) < OpenCap THEN Append(open, s) ELSE open
    /\ passive' = [passive EXCEPT ![s] = "done"]
    /\ UNCHANGED <<polled, main, from, up, dispatcher, job, sessions>>

\* bgp_tx.send(..).await waits while the channel is full.
PassiveSends(s) ==
    /\ passive[s] = "sending" /\ dispatcher # "dead"
    /\ Len(open) < OpenCap
    /\ open' = Append(open, s)
    /\ passive' = [passive EXCEPT ![s] = "done"]
    /\ UNCHANGED <<polled, main, from, up, dispatcher, job, sessions>>

\* The receiver is gone with the dispatcher: unwrap.
PassivePanics(s) ==
    /\ passive[s] = "sending" /\ dispatcher = "dead"
    /\ passive' = [passive EXCEPT ![s] = "done"]
    /\ UNCHANGED <<polled, main, from, up, open, dispatcher, job, sessions>>

\* The peer's end of s is reset; peer_addr then fails.
PeerResets(s) ==
    /\ s \in up
    /\ up' = up \ {s}
    /\ UNCHANGED <<polled, main, passive, from, open, dispatcher, job, sessions>>

(***************************************************************************)
(* The dispatcher                                                          *)
(***************************************************************************)
To == from[job[1]][1]

\* The dispatcher's task ends: its receiver goes, and with sessions the
\* senders of all admin channels; what they hold can still be received.
DispatcherEnds ==
    /\ dispatcher' = "dead" /\ job' = <<>> /\ open' = <<>>
    /\ UNCHANGED inbound
    /\ UNCHANGED sessions

Known(s) == s \in up /\ from[s][1] \in Configured

DispatcherTakes ==
    /\ dispatcher = "recv" /\ open # <<>>
    /\ Known(Head(open))
    /\ dispatcher' = "confirm"
    /\ job' = <<Head(open)>> /\ open' = Tail(open)
    /\ UNCHANGED inbound
    /\ UNCHANGED sessions

\* peer_sock().unwrap(), or the unwrap of the lookup.
DispatcherPanics ==
    /\ dispatcher = "recv" /\ open # <<>>
    /\ ~Known(Head(open))
    /\ DispatcherEnds

\* Mutant: the channel is unbounded.
SendToAtOnce(p, e) ==
    /\ run[p] # "gone"
    /\ admin' = [admin EXCEPT ![p] = Append(@, e)]
    /\ UNCHANGED <<run, got>>

\* session.send(..).await
SendTo(p, e) ==
    /\ run[p] # "gone" /\ Len(admin[p]) < AdminCap
    /\ admin' = [admin EXCEPT ![p] = Append(@, e)]
    /\ UNCHANGED <<run, got>>

DispatcherConfirms ==
    /\ dispatcher = "confirm"
    /\ SendTo(To, Ev("TcpConnectionConfirmed", job[1]))
    /\ dispatcher' = "open"
    /\ UNCHANGED <<open, job>>
    /\ UNCHANGED inbound

\* Mutant: try_send, and the OPEN is lost if the channel is full.
DispatcherTriesOpen ==
    /\ dispatcher = "open"
    /\ \/ SendTo(To, Ev("BGPOpen", job[1]))
       \/ Len(admin[To]) = AdminCap /\ UNCHANGED sessions
    /\ dispatcher' = "recv" /\ job' = <<>>
    /\ UNCHANGED open
    /\ UNCHANGED inbound

DispatcherOpens ==
    /\ dispatcher = "open"
    /\ SendTo(To, Ev("BGPOpen", job[1]))
    /\ dispatcher' = "recv" /\ job' = <<>>
    /\ UNCHANGED open
    /\ UNCHANGED inbound

\* Mutant: the connection is dropped and the loop goes on.
DispatcherPassesOver ==
    /\ dispatcher \in {"confirm", "open"} /\ run[To] = "gone"
    /\ dispatcher' = "recv" /\ job' = <<>>
    /\ UNCHANGED open
    /\ UNCHANGED inbound
    /\ UNCHANGED sessions

\* The session's receiver is gone: unwrap.
DispatcherFindsNobody ==
    /\ dispatcher \in {"confirm", "open"} /\ run[To] = "gone"
    /\ DispatcherEnds

(***************************************************************************)
(* The session tasks                                                       *)
(***************************************************************************)
\* The spawned block is polled for the first time.
RunStarts(p) ==
    /\ run[p] = "spawned" /\ polled
    /\ run' = [run EXCEPT ![p] = "running"]
    /\ UNCHANGED <<open, dispatcher, job, admin, got>>
    /\ UNCHANGED inbound

End(p) ==
    /\ run' = [run EXCEPT ![p] = "gone"]
    /\ admin' = [admin EXCEPT ![p] = <<>>]
    /\ UNCHANGED <<open, dispatcher, job, got>>
    /\ UNCHANGED inbound

RunDropped(p) == run[p] = "spawned" /\ ~polled /\ End(p)

RunReceives(p) ==
    /\ run[p] = "running" /\ admin[p] # <<>>
    /\ got' = [got EXCEPT ![p] = Append(@, Head(admin[p]))]
    /\ admin' = [admin EXCEPT ![p] = Tail(@)]
    /\ UNCHANGED <<open, dispatcher, job, run>>
    /\ UNCHANGED inbound

\* run waits for ever inside an arm: CircularWait of Connection.  Without an
\* event on its admin channel a session stays in Idle.
RunStalls(p) ==
    /\ run[p] = "running" /\ got[p] # <<>>
    /\ run' = [run EXCEPT ![p] = "stalled"]
    /\ UNCHANGED <<open, dispatcher, job, admin, got>>
    /\ UNCHANGED inbound

\* An arm of run panics.
RunPanics(p) == run[p] = "running" /\ got[p] # <<>> /\ End(p)

\* Mutant: the branch of select! that finds its channel closed is disabled.
RunLosesAdminUnnoticed(p) == FALSE

\* admin_rx.recv() returns None: unwrap.
RunLosesAdmin(p) ==
    /\ run[p] = "running" /\ dispatcher = "dead" /\ admin[p] = <<>>
    /\ End(p)

Init ==
    /\ polled \in Polled
    /\ main = "bind"
    /\ passive = [s \in Sock |-> "none"] /\ from = [s \in Sock |-> <<>>]
    /\ up = {} /\ open = <<>>
    /\ dispatcher = "recv" /\ job = <<>>
    /\ run = [p \in Configured |-> "spawned"]
    /\ admin = [p \in Configured |-> <<>>] /\ got = [p \in Configured |-> <<>>]

Next ==
    \/ Bind \/ MainPanics
    \/ \E s \in Sock :
          \/ Accept(s) \/ PassiveReturns(s) \/ PassiveSends(s)
          \/ PassivePanics(s) \/ PeerResets(s)
          \/ \E p \in Neighbor : PassiveReadsOpen(s, p)
    \/ DispatcherTakes \/ DispatcherPanics \/ DispatcherConfirms
    \/ DispatcherOpens \/ DispatcherFindsNobody
    \/ \E p \in Configured :
          \/ RunStarts(p) \/ RunDropped(p) \/ RunReceives(p) \/ RunStalls(p)
          \/ RunPanics(p) \/ RunLosesAdmin(p)

Spec == Init /\ [][Next]_vars

\* The runtime polls every task that can go on, a channel serves its senders
\* in the order they came, and the select! of run is at random.
Fairness ==
    /\ \A s \in Sock : SF_vars(PassiveSends(s)) /\ WF_vars(PassivePanics(s))
    /\ WF_vars(DispatcherTakes) /\ WF_vars(DispatcherPanics)
    /\ WF_vars(DispatcherConfirms) /\ WF_vars(DispatcherOpens)
    /\ WF_vars(DispatcherFindsNobody)
    /\ \A p \in Configured :
          /\ WF_vars(RunStarts(p)) /\ WF_vars(RunDropped(p))
          /\ WF_vars(RunReceives(p)) /\ WF_vars(RunLosesAdmin(p))

FairSpec == Spec /\ Fairness

(***************************************************************************)
(* Properties                                                              *)
(***************************************************************************)
\* Every variable has its type, and the bounded channels keep to their bounds.
TypeOK ==
    /\ polled \in Polled
    /\ main \in {"bind", "accept", "exited"}
    /\ passive \in [Sock -> PassiveState]
    /\ from \in [Sock -> {<<>>} \cup {<<p>> : p \in Neighbor}]
    /\ up \subseteq Sock
    /\ open \in Seq(Sock) /\ Len(open) <= OpenCap
    /\ dispatcher \in DispatcherState
    /\ job \in {<<>>} \cup {<<s>> : s \in Sock}
    /\ run \in [Configured -> RunState]
    /\ admin \in [Configured -> Seq(AdminEvent)]
    /\ \A p \in Configured : Len(admin[p]) <= AdminCap
    /\ got \in [Configured -> Seq(AdminEvent)]

\* Everything session p has been sent and may have received.
Sent(p) == got[p] \o admin[p]

\* Each session is sent the connections of its own peer, each one once, as a
\* pair that nothing comes between: only the second half of the last pair may
\* be missing, while the dispatcher waits to send it.  Session!ProcessPassive
\* sends such a pair in one step.
PairsAdjacent ==
    \A p \in Configured : run[p] # "gone" /\ dispatcher # "dead" =>
        LET e == Sent(p) IN
        /\ \A i \in DOMAIN e : from[e[i].conn] = <<p>>
        /\ \A i \in DOMAIN e :
              IF i % 2 = 1
              THEN /\ e[i].type = "TcpConnectionConfirmed"
                   /\ \/ i < Len(e) /\ e[i + 1] = Ev("BGPOpen", e[i].conn)
                      \/ i = Len(e) /\ dispatcher = "open" /\ job = <<e[i].conn>>
              ELSE e[i].type = "BGPOpen"
        /\ \A i, j \in DOMAIN e : i # j => e[i] # e[j]

Delivered(s) == \E p \in Configured : \E i \in DOMAIN got[p] : got[p][i] = Ev("BGPOpen", s)

\* The OPEN of a configured peer reaches its session, however many
\* connections compete for the dispatcher, unless the dispatcher has ended or
\* one session, be it another peer's, no longer takes events.
OpenReachesSession ==
    \A s \in Sock, p \in Configured :
        (passive[s] = "sending" /\ from[s] = <<p>>)
            ~> \/ Delivered(s)
               \/ dispatcher = "dead"
               \/ \E q \in Configured : run[q] \in {"stalled", "gone"}

\* A connection from a peer whose session task has ended, for whatever
\* reason, ends the dispatcher, unless a stalled session holds it up.
GoneSessionEndsDispatcher ==
    \A s \in Sock, p \in Configured :
        (passive[s] = "sending" /\ from[s] = <<p>> /\ run[p] = "gone")
            ~> \/ dispatcher = "dead"
               \/ \E q \in Configured : run[q] = "stalled"

\* The dispatcher takes every session with it: when it has ended, no session
\* that is not stalled goes on, and no inbound connection is waiting.
DispatcherDeathIsTotal ==
    (dispatcher = "dead")
        ~> /\ \A p \in Configured : run[p] \in {"stalled", "gone"}
           /\ \A s \in Sock : passive[s] # "sending"

(***************************************************************************)
(* What the comment at main.rs:53 says of the dispatcher                   *)
(***************************************************************************)
\* "In order for our implementation to handle multiple remote peers": what
\* one peer sends, or whether it stays, keeps no other from being served; the
\* dispatcher ends only with the program or because a session has ended.
DispatcherServesAllPeers ==
    dispatcher = "dead" =>
        main = "exited" \/ \E p \in Configured : run[p] = "gone"
=============================================================================
