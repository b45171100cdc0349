---------------------------- MODULE MCListener ----------------------------
(***************************************************************************)
(* Small instances of the listener for TLC.                                *)
(***************************************************************************)
EXTENDS Listener

CONSTANTS s1, s2, s3, p1, p2, stranger

ThreeSocks == {s1, s2, s3}
TwoSocks == {s1, s2}
Neighbors == {p1, p2, stranger}
Peers == {p1, p2}

\* The code as it stands and the code with an await, or the latter only.
Both == BOOLEAN
Awaited == {TRUE}
=============================================================================
