# A verification development for amnesiaBGP

TLA+ modules that model amnesiaBGP (the session, its timers, its connections,
the message decoders and the listener), TLC configurations that check them on
small instances, and TLAPS proofs that hold for every instance.
Paths below are relative to the repository; the Rust sources are `src/*.rs`.

## 1. The system

amnesiaBGP is an asynchronous (tokio) BGP speaker in an early state. It has no
tests; its comments follow RFC 4271, section 8, and say what each piece of the
code is meant to do.

| Component | State it keeps | Operations |
|---|---|---|
| `session::run` (session.rs) | the typed state `State`/`Fsm<S>`, `SessionAttributes` with `cur_*_time`, five receivers | one match arm per (state, event, source), about seventy |
| typed FSM (fsm.rs) | per-state data: handles, outgoing channel, OPENs, `remote_syn`, `collision_conn` | `From` conversions between states |
| `timer_loop` (session.rs) | five tasks with one `Duration` each, a forwarder, a control channel and five operation channels | Update, Stop, Restart, expiry |
| `try_tcp_conn`, `process`, `process_one` (session.rs) | the socket they own, the buffer of `BgpConn` | connect; read and report; write; read one message and report |
| listener and dispatcher (main.rs) | map from (address, AS) to admin senders | accept, read the OPEN, hand both to the session |
| messages (message.rs), connection (connection.rs) | the read buffer | decode, encode, framing |
| config.rs, error.rs, table.rs | plain data | none that changes state |

**Interaction.** `run` waits with `select!` on five channels (admin, tcp, bgp,
coll, timer), takes one event and runs one arm to its end. The arm may spawn
tasks, abort them, send messages to a process task and send operations to the
timers. Everything else is concurrent with it: an attempt can succeed while its
retry timer expires, a timer can expire after `run` has decided to stop it, an
inbound connection can arrive in any state, and a connection and the OPEN read
from it reach `run` as two events between which others come.

**What is hard.** Stale events (the code never removes an event from a
channel); data that a conversion drops and a later arm unwraps; collisions of
outgoing and inbound connections in three states; timers kept twice, in the
task and in `cur_*_time`; boundary durations (`FAR_FUTURE`, zero); tasks that
are detached and must end by themselves; moves to Idle that leave timers
running. `PROJECT.json` lists these as hazards, at the line where each bites.

**What makes each part correct.**

* run: from OpenConfirm on it never lacks what its arms unwrap; its timers are
  those of the negotiated session; no connection gets two OPENs, none gets a
  KEEPALIVE before its OPEN; collisions are resolved by identifier; no state is
  a dead end; failures are counted.
* connection tasks: what a peer says is reported in its order; a superseded
  task writes what it was given and ends.
* timers: what `run` believes is what they do; a stopped timer stays stopped.
* listener: every connection of a known peer reaches its session; an unknown
  peer harms nobody.
* messages: decoding inverts encoding, consumes exactly a message, and fails
  with an error and not with a panic.

## 2. Modules

| Module | Models |
|---|---|
| `Fsm` | fsm.rs: events, timer kinds, attributes, state data, conversions |
| `Session` | session.rs: every arm of `run`, and the tasks around it as `run` sees them; its properties |
| `SessionClaims` | what comments and assertions of session.rs say and the code does not do |
| `AbstractSession` | what a session promises to the outside: Down, Opening, Confirming, Up, with a connection and a hold time |
| `SessionRefinement` | the mapping by which `Session` implements `AbstractSession` |
| `TimerService` | the contract between `run` and its timers |
| `TimerLoop` | `timer_loop`: the forwarder, the timer tasks and their channels; it implements `TimerService` |
| `TimedSession` | the arms of `Session` over the tasks and channels of `TimerLoop`; it implements `Session` |
| `Message` | message.rs and error.rs: the decoders, on octets |
| `MessageFormat` | a sender's side of the formats, the properties of the decoders, and what comments of message.rs say and the code does not do |
| `Connection` | `BgpConn` and the tasks that own one, with the decoders of `Message`, the buffer, both bounded channels, `run` at their other end, and the other connections that share `run`'s channel for events |
| `ConnectionStream` | what a stream says, as a recursive function, and the two properties of `Connection` that compare `run`'s events with it |
| `Listener` | main.rs: sessions, listener, `process_passive` and the dispatcher |
| `MC...` | constants for TLC |
| `SessionProofs` | the inductive invariant of the session's data and timers |
| `SessionSafetyProofs` | what a session does with its connections: OPENs, collisions, progress out of Connect |
| `SessionRefinementProofs` | `Session` implements `AbstractSession`, and `TimedSession` implements `Session` |
| `TimerLoopProofs` | no order is lost, and `TimerLoop` implements `TimerService` |
| `ListenerProofs` | a connection and its OPEN reach their session once, as a pair |
| `MessageProofs`, `MessageFormatProofs` | decoding does not depend on what follows a message and stays within the buffer; cuts, prefixes, OPENs and UPDATEs |
| `ConnectionProofs` | no octet of the stream and no message of `run` is lost, `run` is told what the stream says in its order, and `advance` never panics |

How they fit together:

```
Listener --(PairsAdjacent)--> Session!ProcessPassive
Message --EXTENDS--> Connection --(ToldInOrder)--> Session!ProcessReads
TimerLoop => TimerService
TimerLoop + arms of Session = TimedSession => Session => AbstractSession
Connection!CircularWait --> Session!Stall, Listener!RunStalls
```

### State of `Session`

| Variable | Code |
|---|---|
| `fsm` | the `State` value: state name and the fields of `Fsm<S>::state`; `bgp_conn` is `bgp_conn_handle` and `bgp_out_tx`, which are always assigned together |
| `attr` | `connect_retry_counter`, `hold_time`, `keepalive_time` |
| `cur` | `cur_connect_retry_time`, `cur_hold_time`, `cur_keepalive_time`, `cur_delay_open_time` |
| `dur` | the duration last ordered of each timer |
| `late` | the timers that may still expire for an earlier duration |
| `conn` | for each connection: who owns its socket, whether `BgpConn.peer` is set, its direction, how many OPENs were handed to its process task |
| `chan` | the five receivers of `run` |
| `owed` | the OPEN that `process_one` has read and will send after `ProcessOneDone` |

### Actions

`Run(src)` takes the head of a channel, `Adapt`s an OPEN from the listener as
the `select!` branch does, and performs `Handle`, the disjunction of the arms.
An arm `XxxYyy` is the arm of state `Xxx` for the events in its guard; the
catch-all arms `XxxOther` list the events of the arms above them. `RunAdmin`
is an operator command. The other actions are steps of other tasks:
`TryTcpConn`, `ProcessPassive`, `ProcessReads`, `ProcessReadFails`,
`ProcessOutClosed`, `ProcessOneReads`, `ProcessOneSendsOpen`, `TimerExpires`,
`TimerCatchesUp`.

### Abstractions, and why they keep what the properties need

* *An arm is atomic.* `run` awaits inside an arm only to send; it reads no event
  meanwhile. What other tasks do during an arm they may as well do before or
  after it. A send to a process task may never return, since that task may wait
  for `run` (`Connection`'s CircularWait): `Stall` is that outcome of an arm that
  sends from OpenConfirm on, and "Stalled" the state of a `run` that hears
  nothing any more. Before OpenConfirm a channel is sent two messages at most.
* *Timers.* Time is dropped: a timer whose duration is not `FAR_FUTURE` may
  expire at any moment and again, as its task's loop does. The code passes an
  operation through two more channels, so a timer can expire for a duration
  `run` has replaced. For the timers of `SlowTimer` the model has that: a timer
  that was running when it was ordered stays in `late` until its task has caught
  up. That this is enough is not taken for granted: `TimedSession` has the same
  arms over the real forwarder, tasks and channels, the orders of an arm given
  one by one, and implements `Session` with all timers slow (ImplementsSession).
  So what is proved of `Session`, for any `SlowTimer`, holds over `timer_loop`. In
  the runs, collision has ConnectRetry slow, liveness the other three; the others
  take `SlowTimer = {}` to keep to what they are about. `Restart` leaves a
  duration alone and so has no effect here. The IdleHold timer is left out: no
  arm arms it.
* *Durations* count thirds of a second, so that `hold_time / 3` is exact.
  `FarFuture` only has to exceed every u16 number of seconds.
* *Messages.* In `Session`, of an OPEN the identifier and the hold time remain; of an UPDATE,
  a NOTIFICATION or an error nothing does, since no arm reads their contents.
* *A failed unwrap* ends the task of `run`: state "Panicked", after which no
  action is enabled. That is why the configurations switch deadlock checking
  off: a session that has panicked really stops.
* *Operator commands* are handled when they are sent. They enter the admin
  channel behind the listener's events; every order of handling arises from
  commands sent at other moments.
* *Identities.* `Conn` bounds how many connections exist at a time, not how
  many there ever are: an identity is reused when nothing refers to it.
  `TcpConnectionFails`, the OPEN events and the errors that `process` reports
  carry the connection they come from as a history field; no arm reads it.
* *Events without a producer.* `process` discards KEEPALIVE and NOTIFICATION
  messages, so in the code as it stands nothing sends `KeepaliveMsg`, and
  Established is entered only if something offers that event. Its arms are
  written all the same. To check them, the runs that say so offer every plain
  event on the admin channel, whose type admits them; the proofs allow any set
  of them.
* *What ends a socket.* `read_message` never returns at end of stream
  (connection.rs:44), so no event follows from it, here as in the code.

### `TimerLoop`

`run` gives the orders of an arm one by one on `ctr`, waiting while it is full;
`Forward` moves an order to the unbounded `ops[k]`; the task of timer `k`
applies it, or lets its duration pass and waits for room in `out`. A task that
waits for room applies nothing meanwhile. When `run` ends, the forwarder drains
`ctr` and ends, a task that sends panics, and one that waits finds its channel
closed: `_ => ()` makes it loop without waiting, which the state "spinning"
stands for. `ordered` is a history variable, the `dur` of `TimerService`. Its
`late` is `Late`: the timers whose task waits on, or is about to be given, a
duration that an order behind it replaces.

### `TimedSession`

A step of `run` here is an arm of `Session` together with the orders it gives,
as the steps `RunTakesEvent`, `RunTakesExpiry` and `RunOrders` of `TimerLoop`.
`Gives` relates the two: every order but a Restart sets its timer to the new
duration, and every changed duration is ordered. A `run` that panics drops its
ends of the channels, as `RunEnds` does. The variables of `Session` are those of
`TimedSession`, `late` as a history variable: a timer leaves it when its task has
applied the last order that was on its way. The timer channel of `Session` is the
channel `out` of `TimerLoop`.

### `Message` and `MessageFormat`

A decoder is an operator from octets and an offset to a result, with `Then` for
the operator `?`. Loops are recursive functions. Arithmetic in u8 wraps, or
panics if the build checks for overflow (`OverflowChecks`). A 32-bit number is
kept as its four octets; the payloads of attributes are kept as the octets they
are read from, except where the decoder looks into them. A behaviour of
`MessageFormat` picks one input, put together by definitions that do not refer
to the decoders, and decodes it. OPENs and UPDATEs are whole messages and go
through `Message::decode`, with the window that it cuts for the body and with
what has arrived behind them. The formats are those of the comments and
diagrams: an OPEN has 29 octets (message.rs:234), AS numbers are as wide as the
peer's OPEN said. Where the decoders do not keep to them, a passing property
names the case it leaves out, and a statement of its own has that case (section 3).

### `Connection`

One connection from its first octet to the end of its task. `ReadBuf` is a read
of some of the octets on their way, taken only if `Decode` wants more; the other
steps of `process` may come first, as in `select!`. The first message is read by
`process_one` or `process_passive` (task "one"), which hands the connection over
("handed") together with its buffer. `told` records what `run` was sent, `taken`
how many octets `advance` has removed. The channel `bgp` is the one `run` has for
all its connections: `OthersTell` puts events of others into it, and once this
connection is not the session's, `run` may wait in a send to another one
(`RunSendsElsewhere`), from which it returns or not. `Breaks` collects what ends a task that
has read: an error in an UPDATE, a panic of a decoder, and `advance` beyond the
buffer, which panics (AdvanceNeverPanics shows that the last does not arise).

### `Listener`

The block that main spawns for a session returns the future of `session::run`,
which is dropped: `polled = FALSE`. The program with an `await` there, from
which `Session` starts, is `polled = TRUE`. `Polled` is the set of cases an
instance has; the run listener has both, since the properties must hold of
each.
A session that receives nothing stays in Idle, so a session stalls or panics only
after an event. The key of a connection (address and AS number) is chosen when
its OPEN is read.

## 3. Runs

| Run | Instance | Properties |
|---|---|---|
| shipped | attributes of `SessionAttributes::new` (no DelayOpen), 3 connections, operator commands | TypeOK, ConnectNeverStranded, RetryCounterBounded, NeverConfirmedWithoutDelayOpen |
| delay_open | DelayOpen, NOTIFICATION without OPEN, collision detection in Established, peer identifier higher, hold time lower, every plain event, 2 connections | ConfirmedIsWired, HoldTimerArmed, TimerBelief, HandshakeTimersOff, NoAttemptInActive, ImplementsAbstractSession |
| collision | DelayOpen, 3 connections, peer identifier lower, hold time zero, one kind of start, ConnectRetry slow | OneOpenPerConnection, ConnectNeverStranded, OpenPrecedesKeepalive, LocalWinnerKeepsConnection, HoldTimerArmed |
| liveness | DelayOpen, 2 connections, peer identifier higher, the other timers slow, fairness | PeerCannotEstablish, OneOpenPerConnection, OpenConfirmEnds |
| timed | 1 connection, DelayOpen, all timers slow, the orders of the arms, `timer_loop` with channels of capacity two and one | ImplementsSession |
| timer_loop | 2 timers, the five shapes of orders an arm gives, fairness | TypeOK, OrdersKept, ImplementsTimerService, OrdersAreGiven, OrdersTakeEffect, TimersOutliveRun |
| message_format | all prefix lengths; 150 OPENs; 35 messages with every cut; UPDATEs of up to two attributes and two withdrawn routes, peers of both widths, three continuations | PrefixDecodes, AcceptedOpenIsUsable, CutIsWaitedFor, UpdateBodyDecodes |
| connection | 6 streams in pieces of two sizes, other connections on the same channel, fairness | TypeOK, PiecesDoNotMatter, ToldInOrder, AllIsTold, DroppedChannelDrains |
| listener | 2 connections, 2 configured peers and a stranger, sessions awaited or dropped, fairness | TypeOK, PairsAdjacent, OpenReachesSession, DispatcherDeathIsTotal, GoneSessionEndsDispatcher |

**Bounds of the session.** Two connections let one collide with another; three
let two attempts and an inbound connection meet, or a connection be replaced
while a third is put aside. `ChanCap` bounds the channels. In full the admin,
tcp and coll channels hold two events, because a connection and its OPEN travel
as a pair and two attempts may end before `run` reads; the bgp and timer channels
hold one, which is enough for an event to be stale in every later state
(`MCChanCap`, run shipped). The run with every plain event halves tcp and coll
(`SmallChanCap`). The run collision lets the peer be silent on a connection the
session has taken (`SilentChanCap`): what is said there is the matter of
delay_open and liveness. The liveness run leaves out the OPEN of a second outgoing connection
(`InboundChanCap`). One OPEN per instance suffices, since its identifier is only
compared with the local one and each comparison has a run of its own.
Connections are symmetric: no arm orders them. Runs with fairness use no symmetry.

**Bounds of the others.** `TimedSession`: one connection, the peer silent once it
is taken, one timer event and two orders in their channels; what matters is where
an arm, its orders, the tasks and the expiries interleave. `TimerLoop`: channels of capacity two and one, so that
both fill and an arm of two orders waits; `MaxOps` keeps `run` from a new arm
while a task has an operation to apply (the orders still in the control channel
do not count). `Connection`: both channels of
capacity one, two messages of `run` (`MaxOut`), so that the circular wait is
reached; pieces shorter than a header, which cut every message, and all there is. `Listener`:
all capacities one, so that every send waits in some behaviour.

**Fairness.** `WF(Run(src))` for every channel: `select!` polls its branches in
random order, so a channel that has an event is read eventually; the arm may
end, or stall for ever. `SF` of the Hold timer's expiry in OpenConfirm: no arm
of OpenConfirm sends the Hold task an operation that moves its deadline, and
tokio's mpsc serves waiting senders in order, so its turn comes even if other
timers keep the channel full. In `TimerLoop`, `Connection` and `Listener` tasks
that can go on do (`WF`), and `SF` is used where another sender or another branch
of a `select!` may come first again and again. In `Connection` the octets of the
stream do arrive, senders that wait for room in the shared channel are served in
turn (`SF(ProcessTells)`), and a send of `run` to another connection need not
return. Nothing is assumed of the peer, the operator, or a timer other
than Hold; sockets may fail at any moment.

Deadlock checking is off throughout: a session that has panicked, a stream that
has been read, an input that has been decoded and a listener without sockets
really stop.

**Where the code and its comments part.** Each of these runs checks one
property taken from a comment or an assertion and finds a behaviour of the code
that violates it; `PROJECT.json` quotes the lines.

| Run | What TLC shows |
|---|---|
| claim_old_attempt | a stale success is used although its attempt was given up, and the new attempt is orphaned |
| claim_collider | `collision_conn` was overwritten between a connection and its OPEN: the wrong socket is installed |
| claim_length | a NOTIFICATION takes 19 octets more than its length from the buffer, and swallows the KEEPALIVE behind it |

The modules state further sentences of this kind that TLC refutes in the same
way. They have no configuration of their own: each is checked by naming it in
the place of the properties of the configuration given.

| Statement | With | What TLC shows |
|---|---|---|
| OpenDecodes (message.rs:234) | `MessageFormat.cfg` | an OPEN of 29 octets is read at the wrong offsets: padding that is only in the diagram is skipped |
| ConversionCannotFail (message.rs:346) | `MessageFormat.cfg` | a prefix length above 128 panics the task that decodes it |
| FourOctetPathsDecode (message.rs:125, 513) | `MessageFormat.cfg` | an AS_PATH with AS numbers of four octets is refused, although the peer announced them |
| AnnouncementDecodes (message.rs:584) | `MessageFormat.cfg` | the length of an announced prefix is read twice, and what follows the UPDATE is taken for prefixes |
| ZeroHoldTimeRestartsNoKeepalive (session.rs:1718) | `Collision.cfg`, `AdminEvent <- Establishing` | an established session with hold time zero restarts its Keepalive timer |
| DispatcherServesAllPeers (main.rs:53) | `Listener.cfg`, `Polled <- Awaited` | a stranger, or a peer that resets, ends the dispatcher |

Some things the passing runs show are worth knowing.

* `connect_retry_counter` never exceeds one (RetryCounterBounded), so the
  oscillation damping it is for could not work from it.
* OpenPrecedesKeepalive needs its hypothesis, because a connection that wins a
  collision in OpenConfirm is sent no OPEN.
* With the shipped attributes no session reaches OpenConfirm
  (NeverConfirmedWithoutDelayOpen), and with DelayOpen set none is established
  by what a peer sends (PeerCannotEstablish).
* OpenConfirm ends (OpenConfirmEnds), but for a `run` that is stalled in a send:
  then not even the Hold timer is heard.
* The Keepalive timer is outside HoldTimerArmed. The way into OpenConfirm from
  OpenSent sets it to `keepalive_time`, which an earlier negotiation of the same
  session may have changed (session.rs:1186).
* As the code stands, the first connection of a configured peer after the session
  futures are dropped ends the dispatcher (GoneSessionEndsDispatcher).
* The circle run, timer task, run is open only because the operation channels are
  unbounded: with bounded ones OrdersAreGiven fails.
* The circle run, process, run does close: CircularWait is the one exception that
  AllIsTold has to make. It also keeps the task of a connection that `run` has
  dropped, if `run` is stuck on another one (DroppedChannelDrains), and a stalled
  session holds up the dispatcher for all peers (OpenReachesSession).
* The TODO at session.rs:1133 doubts that a Cease gets out before its handle is
  dropped. DroppedChannelDrains: it does, unless reading ends the task first or
  `run` is stuck elsewhere. A
  NOTIFICATION followed by a conversion into Idle may not, since that aborts the
  task.
* A dead dispatcher ends every session (DispatcherDeathIsTotal), because it owns
  the only senders of their admin channels.

## 4. Proofs

All theorems hold for every value of the constants that the named assumptions
allow. The inductive invariants below were checked by TLC on the instances of the
runs, except for `Channels` and `Reports` of `ConnectionProofs`, of which the
first quantifies over all sets of events and the second over all natural numbers.

### The session

*Assumptions.* `None` is not a connection nor an OPEN; OPENs have natural
identifiers and hold times, and the peer's hold time is not one or two seconds,
since `OpenMsg::decode` refuses those; `FarFuture` exceeds every hold time; the
DelayOpen time is not `FarFuture`; capacities are natural numbers.

**Data and timers** (`SessionProofs`): `TypeOK`, `ConfirmedIsWired`,
`HoldTimerArmed`, `TimerBelief`, `HandshakeTimersOff`, `RetryCounterBounded`,
`NoAttemptInActive`. They follow from one inductive invariant,
`IInv == Control /\ Queues`. `Queues` types the channels, so that an arm knows
what its event carries. `Control` is the conjunction of the properties with two
strengthenings:

* `OpenSentWithOpenIsWired`. OpenSent may lack its channel: the conversion
  from Connect drops it (fsm.rs:219). So ConfirmedIsWired is not preserved by
  `OpenSentBGPOpen` by itself. The arm unwraps `local_open` first, and an
  OpenSent session that has a local OPEN came from Active and has its channel.
* `DelayOpenRecorded`. Entering OpenSent at once leaves DelayOpen alone, so
  HandshakeTimersOff needs that the timer can be armed only if the option is
  set, in which case OpenSent is not entered that way.

The proof has one lemma per effect (`Ignore`, `Panic`, `GoIdle`, `Stop`,
`TakeConnection`, `Confirm`, ...), one per group of arms, and one per other
task.

**Connections** (`SessionSafetyProofs`): `OneOpenPerConnection`,
`OpenPrecedesKeepalive`, `NeverConfirmedWithoutDelayOpen`,
`PeerCannotEstablish`, `ConnectNeverStranded`, and the action property
`LocalWinnerKeepsConnection`. The invariant `Safety` adds to these

* `Unsent`: in Connect and Active the connection in use has been sent no OPEN.
  Every arm that sends one starts from these two states and leaves them, which
  is why no connection gets two;
* `SentOnce` and `Undelayed`: which sessions know their local OPEN, and that
  these have sent it. OpenConfirm is entered only with a local OPEN, and that
  exists only after a DelayOpen;
* `Traffic`: the types of the events each channel can hold. No channel but the
  admin commands brings a KEEPALIVE, and an expiry of DelayOpen exists only if
  the option is set.

About seventy arms against six properties would be four hundred small proofs.
So the arms are first summarised: `Effect` is the disjunction of eleven things
an arm may do to the connection in use (rest, begin, fall back to Idle, wait,
adopt, open, send the OPEN, retreat, confirm, keep, replace), and
`HandleEffect` shows that every arm has one of them. Safety is then shown for
the eleven effects and for the steps of the other tasks.

**Refinement** (`SessionRefinementProofs`): every step of `Session` is a step of
`AbstractSession` or leaves its variables alone, so ImplementsAbstractSession
holds for any number of connections and any set of slow timers.

TimedSessionRefines is about the other side of `Session`: every step of
`TimedSession` is a step of `Session` or leaves its variables alone, for any
orders, any capacities and any number of connections, with `SlowTimer` all
timers. The steps of `run` and of the connections are those of `Session` as they
stand. What has to be shown is that a task sends an expiry only where `Session`
lets the timer expire: if it is ordered to a duration, or late. The invariant
`LoopInv` for that has the types of the loop (`LoopType`), that a sending task
waits on a duration other than FAR_FUTURE and that none has panicked while `run`
lives (`Tasks`), and for each timer `InForce`: the last order on its way, or the
duration its task waits on if there is none, is the one `Session` has in `dur`
(`Agrees`); and if that is FAR_FUTURE and the timer is not late, nothing on its
way, nor its task, can set it off (`Silent`). When the last order is applied, the
timer leaves `late`, which is `TimerCatchesUp`.

### The timer loop

*Assumptions.* Arms are sequences of orders, capacities are positive.

The invariant (`TimerLoopProofs`) is `TypeOK /\ OrdersKept /\ Running`.
`OrdersKept` is nearly inductive as it stands. It lacks that no task has
panicked while `run` lives, since then `Forward` would have nobody to pass an
order to, and, for the refinement, that a task that sends an expiry waits on a
duration other than FAR_FUTURE: that is `Running`. TimerLoopRefines maps `dur`
to `ordered` and `late` to `Late`; the steps that forward or apply an order
change neither or take a timer out of `Late`, which is TimerService's way of
catching up. How the session fares over these tasks is TimedSessionRefines, above.

### The listener

*Assumptions.* Configured peers are neighbors, capacities are positive.

`PairsAdjacent` says nothing of connections a session has not been sent yet. The
invariant (`ListenerProofs`) adds `OneStage`: a connection is with its
`process_passive` task, in the channel to the dispatcher, in the dispatcher's
hands, or with its session, and never at two of these stages; while the
dispatcher is between its two sends, the session has been sent an odd number of
events, the last of which is that connection's. TLC checked it with three
connections (316128 states) as well as with two.

### Messages and connections

*Assumptions.* Streams and messages are sequences of octets, pieces are not
empty, capacities are positive, prefix lengths are octets. The fields of an OPEN
are as wide as the format makes them. What UPDATEs are made of is a sender's:
withdrawn prefixes have at most 128 bits, attributes are `WellFormed` and `Fit`
the peer (each has the octets its type asks for, with AS numbers as wide as the
peer's), and an UPDATE is no longer than its u16 length can say.

* `DecodeStable` (`MessageProofs`): if `Message::decode` comes to a result other
  than "too short", it comes to the same result with any octets behind. The
  reason is in its order: the header is decided by 19 octets, and nothing is
  decoded before `header.length` octets can be sliced off behind it. What the
  decoders of the bodies compute does not matter for it.
* `DecodeWithin` (`MessageProofs`): a message that is decoded ends within the
  buffer and has at least its header, whatever the octets. Each decoder ends at
  or behind the place where it begins and within its window, if it ends well;
  there is one lemma for each decoder (`CidrEnds`, `PathAttributeEnds`,
  `OpenMsgEnds`, ...), and `ThenEnds` puts two together as `?` does.
* `CutIsWaitedFor` (`MessageFormatProofs`) follows from DecodeStable, for all
  messages and not only those of the run. `PrefixDecodes` rests on `Rounding`,
  that `(length + 7) / 8` in u8 is the number of octets up to 128 bits and beyond.
* `AcceptedOpenIsUsable` (`MessageFormatProofs`) holds of any octets: the checks
  of `OpenMsg::decode` are passed on every way to a result, wherever its fields
  are read from, and `Message::decode` returns an OPEN from nowhere else.
* `UpdateBodyDecodes` (`MessageFormatProofs`) is about lists of any length.
  `FlattenRows` lays the elements of a list out in rows, each with the offset at
  which it begins. `AllReads` then goes through the loop from the end back: if
  the element at each row's beginning is read as `v[k]` up to the beginning of
  the next row, the loop reads `v`. What remains are single elements: `CidrAt`,
  and `AttributeAt` over `ValueAt`, which has one case for each attribute type;
  the width of an AGGREGATOR's AS number depends on the peer's OPEN. `FramedIs`
  and `FramedDecodes` take this from the body to the whole message: the window is
  19 octets too long, `ListsLaid` has the lists in front of whatever these are,
  and `AllUnrefused` that reading them as prefixes refuses nothing.
* `PiecesDoNotMatter` (`ConnectionProofs`): what `process` decodes from its
  buffer is what it would decode had the rest of the stream already arrived. The
  invariant is `Kept`, that the buffer is the stream from `taken` to `arrived`,
  whatever `select!` cancels and whoever owns the connection; DecodeStable does
  the rest. `OutgoingKept` is the other direction: until the task is aborted or
  fails, what `run` has sent is what was written and what waits, in order.
* `ToldInOrder` (`ConnectionProofs`) compares `told` with `Says(stream)`, and by
  itself knows nothing of the message a task is at. The invariant `Reports`
  has it: the task has gone through the first n messages as `After` does, with
  the same place in the stream and the same peer, and what was told together
  with what is held is what these say, or the task is at an error (`Abreast`).
  A step that decodes goes from n to n + 1, by PiecesDoNotMatter. `Says` stops
  after as many messages as headers fit into the stream; DecodeWithin shows that
  no task gets further.
* `AdvanceNeverPanics` (`ConnectionProofs`) is DecodeWithin for the buffer of a
  connection.

*Induction over data.* The library's induction theorems are about operators,
which these backends do not instantiate. `SetInduction` is about a set of numbers
instead: one that has 0, and n + 1 with each n, has all of them. The values of a
recursive function come from its definition through `WFInductiveDef` and
`NatInductiveDef`, whose parameters are names of definitions that stay hidden.
That is why `All`, `OptParams` and `After` are functions of a number.

### Only model-checked

Liveness under fairness is out of the prover's reach: OpenConfirmEnds,
OrdersAreGiven, OrdersTakeEffect, TimersOutliveRun,
AllIsTold, DroppedChannelDrains, OpenReachesSession, DispatcherDeathIsTotal,
GoneSessionEndsDispatcher.

OPENs with optional parameters are decoded (`OptParams`), and DecodeStable and
DecodeWithin hold of them, as does AcceptedOpenIsUsable. The OPENs of the run have
none.

## 5. Not modelled

* config.rs: plain data and one constructor, whose map of neighbors is empty.
  `LocalOpen` and `Configured` are what the other parts read of it.
* table.rs declares types nothing uses; the YANG files are third-party models the
  program does not read.
* `encode` returns an empty buffer and `write_message` drops it, so what reaches
  the wire is not modelled; `Connection` says what would be written.
* `AsNum::to_two_octets` and the constructors of NOTIFICATIONs are pure and used
  by no decision.
* The end of a stream: `read_message` tries again for ever, a step that changes
  nothing in the model.

## 6. Plan

All components that keep state are modelled, and every invariant and action
property that the passing runs check is proved. What could follow:

1. The safety half of DispatcherDeathIsTotal and of DroppedChannelDrains: what a
   dead dispatcher or a dropped channel can no longer do.
2. What `encode` writes, once it writes something: that `Decode` inverts it.
