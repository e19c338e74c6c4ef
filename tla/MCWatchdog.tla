----------------------------- MODULE MCWatchdog -----------------------------
(***************************************************************************)
(* Small instances of Watchdog for TLC.                                    *)
(***************************************************************************)
EXTENDS Watchdog

CONSTANT c1

OneCaller == {c1}
=============================================================================
