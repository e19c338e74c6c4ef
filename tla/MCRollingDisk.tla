--------------------------- MODULE MCRollingDisk ---------------------------
(***************************************************************************)
(* A small instance of RollingDisk for TLC.                                *)
(***************************************************************************)
EXTENDS RollingDisk

CONSTANTS t1, t2

TwoThreads == {t1, t2}
OneThread == {t2}
=============================================================================
