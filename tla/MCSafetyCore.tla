---------------------------- MODULE MCSafetyCore ----------------------------
(***************************************************************************)
(* Small instances of SafetyCore for TLC.                                  *)
(***************************************************************************)
EXTENDS SafetyCore, TLC

CONSTANTS s1, s2, k1, wd, o1, o2, b1, b2, i1, i2

OneSender  == {s1}
TwoSenders == {s1, s2}
OneStopper == {k1}
OneOperator == {o1}
OneBus == {b1}
TwoBuses == {b1, b2}
OneId == {i1}
TwoIds == {i1, i2}
OneWhitelist == {{i1}}
TwoWhitelists == {{i1}, {i2}}
RebindSymmetry == Permutations(TwoBuses) \cup Permutations(TwoIds)

=============================================================================
