------------------------------ MODULE MCFlasher ------------------------------
(* Values of the constants of Flasher for TLC.                             *)
EXTENDS Flasher

\* The application gives no key and no erase routine.
AsTheApp == {"identify", "seed", "key", "erase"}
=============================================================================
