-------------------------- MODULE AbstractSession --------------------------
(***************************************************************************)
(* What a session promises to whoever only looks at whether it is up, over *)
(* which connection and with which hold time: it comes up in order, it     *)
(* always has a connection once it is confirmed, the hold time stays what  *)
(* was negotiated, and the only way to another connection, other than      *)
(* starting again from Down, is to swap one for another.                   *)
(***************************************************************************)
CONSTANTS Conn, None, HoldTimes

VARIABLES
    phase,  \* how far the session is
    link,   \* the connection in use, once confirmed
    hold    \* the hold time in force, once confirmed

abstractVars == <<phase, link, hold>>

Init == phase = "Down" /\ link = None /\ hold = None

Start ==
    /\ phase = "Down" /\ phase' = "Opening"
    /\ UNCHANGED <<link, hold>>

\* Both OPENs are exchanged, the hold time is agreed.
Confirm ==
    /\ phase = "Opening" /\ phase' = "Confirming"
    /\ link' \in Conn
    /\ hold' \in HoldTimes

Establish ==
    /\ phase = "Confirming" /\ phase' = "Up"
    /\ UNCHANGED <<link, hold>>

\* A collision is decided for the other connection.
Swap ==
    /\ phase \in {"Confirming", "Up"}
    /\ link' \in Conn
    /\ UNCHANGED <<phase, hold>>

\* The session falls back, or its task ends.
Fall ==
    /\ phase \in {"Opening", "Confirming", "Up"}
    /\ phase' \in {"Down", "Dead"}
    /\ link' = None /\ hold' = None

Next == Start \/ Confirm \/ Establish \/ Swap \/ Fall

Spec == Init /\ [][Next]_abstractVars
=============================================================================
