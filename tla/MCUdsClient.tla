----------------------------- MODULE MCUdsClient -----------------------------
(***************************************************************************)
(* A small instance of UdsClient for TLC: "write" is a request of two      *)
(* Consecutive Frames, "read" has an answer of one.                        *)
(***************************************************************************)
EXTENDS UdsClient

MCRequestCFs == [s \in Service |-> IF s = "write" THEN 2 ELSE 0]
MCAnswerCFs == [s \in Service |-> IF s = "read" THEN 1 ELSE 0]
=============================================================================
