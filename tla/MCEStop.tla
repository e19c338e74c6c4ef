------------------------------ MODULE MCEStop ------------------------------
(***************************************************************************)
(* Small instances of EStop for TLC.                                       *)
(***************************************************************************)
EXTENDS EStop, TLC

CONSTANTS c1, c2

OneCaller == {c1}
TwoCallers == {c1, c2}
CallerSymmetry == Permutations({c1, c2})
=============================================================================
