---------------------------- MODULE SafetyStates ----------------------------
(***************************************************************************)
(* The six operational states of SafetySupervisor and what                 *)
(* transition_to does with a request, as operators: every module that      *)
(* moves the supervisor uses these, so the transition table exists once.   *)
(***************************************************************************)

STARTUP  == "STARTUP"
SAFE     == "SAFE"
PASSIVE  == "PASSIVE"
ARMED_TX == "ARMED_TX"
ACTIVE   == "ACTIVE"
FAULT    == "FAULT"

SafetyState == {STARTUP, SAFE, PASSIVE, ARMED_TX, ACTIVE, FAULT}

\* SafetySupervisor.is_tx_permitted
TxPermitted(s) == s \in {ARMED_TX, ACTIVE}

\* The targets an engaged E-Stop refuses (transition_to raises ESTOP_ENGAGED).
EStopBlocked == {PASSIVE, ARMED_TX, ACTIVE}

\* ALLOWED_TRANSITIONS[s]
Allowed(s) ==
    CASE s = STARTUP  -> {SAFE, FAULT}
      [] s = SAFE     -> {PASSIVE, FAULT}
      [] s = PASSIVE  -> {ARMED_TX, SAFE, FAULT}
      [] s = ARMED_TX -> {ACTIVE, PASSIVE, FAULT}
      [] s = ACTIVE   -> {ARMED_TX, PASSIVE, FAULT}
      [] s = FAULT    -> {PASSIVE, SAFE}
      [] OTHER        -> {}

\* The state transition_to leaves behind once the E-Stop check has passed: a
\* request that is not in the table forces FAULT before the caller's exception.
Landing(s, target) == IF target \in Allowed(s) THEN target ELSE FAULT

\* The states in which the watchdog's callback pushes the lease into the past
\* and the gateway's callback drops a read-only session.
TxGone == {STARTUP, SAFE, PASSIVE, FAULT}
=============================================================================
