---------------------------- MODULE MCConnection ----------------------------
(***************************************************************************)
(* Small instances of a connection for TLC.                                *)
(***************************************************************************)
EXTENDS ConnectionStream

Frame(t, body) ==
    MARKER \o <<0, MIN_MSG_LEN + Len(body)>> \o <<t>> \o body

Keepalive == Frame(4, <<>>)

Open(hold, n) ==
    Frame(1, <<4, 0, 0, 0, 253, 232, 0, 0, 0, hold, 0, 0, 192, 0, 2, n, 0, 0, 0, 0>>)

\* An UPDATE without routes, and one with a bad ORIGIN.
Update == Frame(2, <<0, 0, 0, 0>>)
BadUpdate == Frame(2, <<0, 0, 0, 4, 0, 1, 1, 9>>)

\* Two OPENs; one after a KEEPALIVE; one that is refused; a message of
\* another type; an UPDATE, of which the end is looked for in what follows;
\* and UPDATEs that end the task.
SomeStreams ==
    {Open(9, 1) \o Open(6, 2) \o Keepalive,
     Keepalive \o Open(9, 1) \o Keepalive \o Keepalive,
     Open(9, 1) \o Open(2, 1) \o Keepalive,
     Open(9, 1) \o Frame(5, <<>>) \o Keepalive,
     Open(9, 1) \o Update \o Keepalive \o Keepalive,
     Open(9, 1) \o BadUpdate \o Keepalive}

\* Less than a header, so that every message is cut, and all there is.
Pieces == {13, 200}

Messages == {"Keepalive", "Cease"}
=============================================================================
