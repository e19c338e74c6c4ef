------------------------------ MODULE MCTxRate ------------------------------
(***************************************************************************)
(* Small instances of TxRate for TLC.                                      *)
(***************************************************************************)
EXTENDS TxRate

CONSTANTS t1, t2

TwoThreads == {t1, t2}
ThreadSymmetry == Permutations(TwoThreads)
=============================================================================
