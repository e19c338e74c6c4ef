--------------------------- MODULE MCAddressClaim ---------------------------
(***************************************************************************)
(* A small instance of AddressClaim for TLC: nodes that all prefer         *)
(* address 10; the fallback range has one address beyond the contended one. *)
(***************************************************************************)
EXTENDS AddressClaim

AllPreferTen == [n \in Node |-> 10]
=============================================================================
