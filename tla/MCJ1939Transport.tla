-------------------------- MODULE MCJ1939Transport --------------------------
(***************************************************************************)
(* A small instance of J1939Transport for TLC: messages of three packets,  *)
(* granted two at a time.                                                  *)
(***************************************************************************)
EXTENDS J1939Transport, TLC

CONSTANTS p1, p2

MCPackets == [x \in {p1, p2} |-> 3]

\* A hold, and a grant past the end of the message.
MCStray == {<<0, 1>>, <<1, 4>>}

Pgns == Permutations({p1, p2})
=============================================================================
