---------------------------- MODULE MCFrameRouter ----------------------------
(***************************************************************************)
(* Small instances of FrameRouter for TLC.                                 *)
(***************************************************************************)
EXTENDS FrameRouter, TLC

CONSTANTS t1, t2, r1, i1

OneRouter == {t1}
TwoRouters == {t1, t2}
OneReader == {r1}
OneId == {i1}
AllOrNone == {{}, {i1}}
RouterSymmetry == Permutations(TwoRouters)
=============================================================================
