------------------------- MODULE SessionRefinement -------------------------
(***************************************************************************)
(* The session implements AbstractSession.  Connect, Active and OpenSent   *)
(* are one phase to the outside: the code moves between them in all        *)
(* directions.  What it keeps of a connection before OpenConfirm, and what *)
(* it leaves in its attributes afterwards, does not count.                 *)
(***************************************************************************)
EXTENDS Session

Phase == [Idle |-> "Down", Connect |-> "Opening", Active |-> "Opening",
          OpenSent |-> "Opening", OpenConfirm |-> "Confirming",
          Established |-> "Up", Panicked |-> "Dead", Stalled |-> "Dead"]

PhaseOf == Phase[fsm.state]
LinkOf == IF Confirmed THEN fsm.bgp_conn ELSE None
HoldOf == IF Confirmed THEN attr.hold_time ELSE None

Abstract == INSTANCE AbstractSession
              WITH phase <- PhaseOf, link <- LinkOf, hold <- HoldOf,
                   HoldTimes <- {HoldTime(m) : m \in PeerOpen}

\* Every step of run, whatever arm it takes, is a step of the abstract
\* session or invisible to it: no arm leads into Established but through
\* OpenConfirm, none changes the hold time of a confirmed session or leaves
\* it without a connection, and every loss of a connection is a fall.
ImplementsAbstractSession == Abstract!Spec
=============================================================================
