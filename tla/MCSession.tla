----------------------------- MODULE MCSession -----------------------------
(***************************************************************************)
(* Small instances of a session for TLC.                                   *)
(***************************************************************************)
EXTENDS SessionClaims, SessionRefinement, TLC

CONSTANTS c1, c2, c3    \* connections

\* The listener's and process_one's OPEN follows its connection, so these
\* channels hold two events; one queued expiry is enough to be stale.
MCChanCap ==
    [Admin |-> 2, Tcp |-> 2, Bgp |-> 1, Coll |-> 2, Timer |-> 1]

SmallChanCap == [MCChanCap EXCEPT !["Tcp"] = 1, !["Coll"] = 1]

\* The peer says nothing more on a connection once the session has taken it.
SilentChanCap == [MCChanCap EXCEPT !["Bgp"] = 0]

\* A second outgoing connection stays silent.
InboundChanCap == [SmallChanCap EXCEPT !["Coll"] = 0]

TwoConns == {c1, c2}
ThreeConns == {c1, c2, c3}
TwoSymmetry == Permutations(TwoConns)
ThreeSymmetry == Permutations(ThreeConns)

Local == [id |-> 2, hold |-> 9]
HighPeer == {[id |-> 3, hold |-> 6]}
HighPeerDefaultHold == {[id |-> 3, hold |-> 9]}
LowPeer == {[id |-> 1, hold |-> 0]}

\* What an operator would send on the admin channel.
Operator == {"ManualStart", "ManualStartWithPassiveTcpEstablishment",
             "ManualStop", "AutomaticStop"}
Started == {"ManualStart"}
Passive == {"ManualStartWithPassiveTcpEstablishment"}
\* The event OpenConfirm waits for is among those the admin channel may bring.
Establishing == {"ManualStart", "KeepaliveMsg"}
=============================================================================
