---------------------------- MODULE GatewayProofs ----------------------------
(***************************************************************************)
(* Proofs about the transmit gateway, for every set of threads.            *)
(*                                                                         *)
(* First SafetyCore, for every set of buses and ids: an E-Stop that is     *)
(* latched has revoked the arm, a frame that a trigger or a rebind has     *)
(* overtaken is not sent.  Then TxRate, for all windows, ceilings and      *)
(* budgets: the four bounds its run checks, from one inductive invariant   *)
(* of the meters.                                                          *)
(***************************************************************************)
EXTENDS SafetyCore, TxRate, TLAPS, FiniteSetTheorems, WellFoundedInduction

\* transition_to lands in a state of the table, and never back in STARTUP.
LEMMA LandingInTable ==
    ASSUME NEW s \in SafetyState, NEW target \in SafetyState
    PROVE  Landing(s, target) \in SafetyState \ {STARTUP}
BY DEF Landing, Allowed, SafetyState, STARTUP, SAFE, PASSIVE, ARMED_TX, ACTIVE, FAULT

\* A request that an engaged E-Stop does not refuse lands in FAULT or SAFE.
LEMMA UnblockedLanding ==
    ASSUME NEW s \in SafetyState, NEW target \in SafetyState, target \notin EStopBlocked
    PROVE  Landing(s, target) \in {FAULT, SAFE}
BY DEF Landing, Allowed, EStopBlocked, SafetyState, STARTUP, SAFE, PASSIVE, ARMED_TX,
       ACTIVE, FAULT

\* The variables of SafetyCore keep their types in every reachable state.
THEOREM TypeCorrect == Spec => []TypeOK
<1>1. Init => TypeOK
  <2> SUFFICES ASSUME Init PROVE TypeOK
    OBVIOUS
  <2>1. /\ state \in SafetyState /\ engaged \in BOOLEAN /\ lease \in BOOLEAN
        /\ fence = 0 /\ calls = 0
    BY Zenon DEF Init, SafetyState
  <2>2. /\ bus \in Buses /\ hook \in Buses \cup {Nobody} /\ whitelist \in SUBSET Ids
        /\ txq \in SUBSET (Buses \X Ids)
    BY CoreAssumption DEF Init
  <2>3. /\ supLock \in Operators \cup {Nobody} /\ gwLock \in Senders \cup {Nobody}
        /\ sendLock \in Senders \cup Operators \cup {Nobody}
    BY DEF Init
  <2>4. /\ spc \in [Senders -> SenderPc] /\ tpc \in [Trippers -> TripperPc]
        /\ opc \in [Operators -> OperatorPc]
    BY DEF Init, SenderPc, TripperPc, OperatorPc
  <2>5. /\ frame \in [Senders -> Ids \cup {Nobody}] /\ vbus \in [Senders -> Buses \cup {Nobody}]
        /\ snapE \in [Senders -> BOOLEAN] /\ struck \in [Senders -> BOOLEAN]
        /\ snapF \in [Senders -> Nat]
        /\ tgt \in [Operators -> SafetyState]
        /\ \A s \in Senders : spc[s] = "idle"
    BY DEF Init, SafetyState
  <2>6. fence \in Nat /\ calls \in 0..MaxCalls
    BY <2>1, CoreAssumption
  <2> QED
    BY <2>1, <2>2, <2>3, <2>4, <2>5, <2>6, Zenon DEF TypeOK
<1>2. TypeOK /\ [Next]_vars => TypeOK'
  <2> SUFFICES ASSUME TypeOK, [Next]_vars PROVE TypeOK'
    OBVIOUS
  <2> USE CoreAssumption DEF TypeOK
  <2>1. ASSUME NEW s \in Senders, SendPermit(s) PROVE TypeOK'
    BY <2>1 DEF SendPermit, supVars, SenderPc
  <2>2. ASSUME NEW s \in Senders, SendLease(s) PROVE TypeOK'
    <3>1. /\ spc[s] = "lease"
          /\ \/ /\ spc' = [spc EXCEPT ![s] = "estop"]
                /\ UNCHANGED <<frame, vbus, snapE, snapF, gwLock, struck>>
             \/ Idle(s) /\ gwLock' = Nobody
          /\ UNCHANGED <<supVars, engaged, fence, lease, bus, whitelist, hook, txq, sendLock,
                         tpc, opc, tgt, calls>>
      BY <2>2, Zenon DEF SendLease
    <3>2. CASE /\ spc' = [spc EXCEPT ![s] = "estop"]
               /\ UNCHANGED <<frame, vbus, snapE, snapF, gwLock, struck>>
      BY <3>1, <3>2 DEF supVars, SenderPc
    <3>3. CASE Idle(s) /\ gwLock' = Nobody
      BY <3>1, <3>3 DEF Idle, supVars, SenderPc
    <3> QED BY <3>1, <3>2, <3>3
  <2>3. ASSUME NEW s \in Senders, SendEStop(s) PROVE TypeOK'
    <3>1. /\ spc[s] = "estop"
          /\ \/ /\ spc' = [spc EXCEPT ![s] = "snapE"]
                /\ UNCHANGED <<frame, vbus, snapE, snapF, gwLock, struck>>
             \/ Idle(s) /\ gwLock' = Nobody
          /\ UNCHANGED <<supVars, engaged, fence, lease, bus, whitelist, hook, txq, sendLock,
                         tpc, opc, tgt, calls>>
      BY <2>3, Zenon DEF SendEStop
    <3>2. CASE /\ spc' = [spc EXCEPT ![s] = "snapE"]
               /\ UNCHANGED <<frame, vbus, snapE, snapF, gwLock, struck>>
      BY <3>1, <3>2 DEF supVars, SenderPc
    <3>3. CASE Idle(s) /\ gwLock' = Nobody
      BY <3>1, <3>3 DEF Idle, supVars, SenderPc
    <3> QED BY <3>1, <3>2, <3>3
  <2>4. ASSUME NEW s \in Senders, SnapEngaged(s) PROVE TypeOK'
    BY <2>4 DEF SnapEngaged, supVars, gwVars, SenderPc
  <2>5. ASSUME NEW s \in Senders, SnapFence(s) PROVE TypeOK'
    BY <2>5 DEF SnapFence, supVars, SenderPc
  <2>6. ASSUME NEW s \in Senders, Phase2(s) PROVE TypeOK'
    BY <2>6 DEF Phase2, supVars, gwVars, SenderPc
  <2>7. ASSUME NEW s \in Senders, Phase3Fence(s) PROVE TypeOK'
    BY <2>7 DEF Phase3Fence, supVars, SenderPc
  <2>8. ASSUME NEW s \in Senders, Phase3Engaged(s) PROVE TypeOK'
    BY <2>8 DEF Phase3Engaged, supVars, gwVars, SenderPc
  <2>9. ASSUME NEW s \in Senders, PrivilegedSend(s) PROVE TypeOK'
    BY <2>9 DEF PrivilegedSend, Idle, supVars, SenderPc
  <2>10. ASSUME NEW s \in Senders, Rollback(s) PROVE TypeOK'
    BY <2>10 DEF Rollback, Idle, supVars, SenderPc
  <2>11. ASSUME DriverTransmit PROVE TypeOK'
    BY <2>11 DEF DriverTransmit, supVars, sendVars
  <2>12. ASSUME MonitorExpired PROVE TypeOK'
    BY <2>12 DEF MonitorExpired, Goto, supVars, gwVars, sendVars, TripperPc, Trippers
  <2>13. ASSUME NEW t \in Trippers, StopRequested(t) PROVE TypeOK'
    BY <2>13 DEF StopRequested, Goto, supVars, gwVars, sendVars, TripperPc
  <2>14. ASSUME NEW t \in Trippers, TripperFault(t) PROVE TypeOK'
    BY <2>14 DEF TripperFault, Goto, supVars, gwVars, sendVars, TripperPc, SafetyState
  <2>15. ASSUME NEW t \in Trippers, TripperCbWatchdog(t) PROVE TypeOK'
    BY <2>15 DEF TripperCbWatchdog, Goto, supVars, gwVars, sendVars, TripperPc
  <2>16. ASSUME NEW t \in Trippers, TripperCbGateway(t) PROVE TypeOK'
    BY <2>16 DEF TripperCbGateway, Goto, supVars, gwVars, sendVars, TripperPc
  <2>17. ASSUME NEW t \in Trippers, Engage(t) PROVE TypeOK'
    BY <2>17 DEF Engage, Goto, supVars, gwVars, sendVars, TripperPc
  <2>18. ASSUME NEW t \in Trippers, Notify(t) PROVE TypeOK'
    BY <2>18 DEF Notify, Goto, supVars, gwVars, sendVars, TripperPc
  <2>19. ASSUME NEW t \in Trippers, ClearStreaks(t) PROVE TypeOK'
    BY <2>19 DEF ClearStreaks, Goto, supVars, gwVars, sendVars, TripperPc
  <2>20. ASSUME NEW t \in Trippers, AbortHook(t) PROVE TypeOK'
    BY <2>20 DEF AbortHook, Goto, supVars, gwVars, sendVars, TripperPc
  <2>21. ASSUME NEW o \in Operators, NEW target \in SafetyState, BeginTransition(o, target)
         PROVE  TypeOK'
    BY <2>21, LandingInTable DEF BeginTransition, OGoto, gwVars, sendVars, OperatorPc
  <2>22. ASSUME NEW o \in Operators, CommitTransition(o) PROVE TypeOK'
    BY <2>22 DEF CommitTransition, OGoto, supVars, gwVars, sendVars, OperatorPc, SafetyState
  <2>23. ASSUME NEW o \in Operators, OperatorCbWatchdog(o) PROVE TypeOK'
    BY <2>23 DEF OperatorCbWatchdog, OGoto, supVars, gwVars, sendVars, OperatorPc
  <2>24. ASSUME NEW o \in Operators, OperatorCbGateway(o) PROVE TypeOK'
    BY <2>24 DEF OperatorCbGateway, OGoto, supVars, gwVars, sendVars, OperatorPc
  <2>25. ASSUME NEW o \in Operators, AnchorLease(o) PROVE TypeOK'
    BY <2>25 DEF AnchorLease, OGoto, supVars, gwVars, sendVars, OperatorPc
  <2>26. ASSUME NEW o \in Operators, ResetVerify(o) PROVE TypeOK'
    <3>1. /\ calls < MaxCalls /\ calls' = calls + 1 /\ engaged' = FALSE /\ OGoto(o, "bump")
          /\ UNCHANGED <<supVars, fence, lease, gwVars, sendVars, tpc, tgt, struck>>
      BY <2>26, Zenon DEF ResetVerify
    <3>2. engaged' \in BOOLEAN /\ calls' \in 0..MaxCalls
      <4>1. calls \in 0..MaxCalls /\ MaxCalls \in Nat /\ calls < MaxCalls /\ calls' = calls + 1
        BY <3>1, Zenon DEF CoreAssumption
      <4>2. calls' \in 0..MaxCalls
        BY <4>1, SMT
      <4> QED BY <3>1, <4>2, Zenon
    <3>3. opc' \in [Operators -> OperatorPc]
      BY <3>1 DEF OGoto, OperatorPc
    <3>4. UNCHANGED <<supVars, fence, lease, gwVars, sendVars, tpc, tgt, struck>>
      BY <3>1
    <3> QED BY <3>2, <3>3, <3>4 DEF supVars, gwVars, sendVars
  <2>27. ASSUME NEW o \in Operators, ResetBump(o) PROVE TypeOK'
    BY <2>27 DEF ResetBump, OGoto, supVars, gwVars, sendVars, OperatorPc
  <2>28. ASSUME NEW o \in Operators, RebindBus(o) PROVE TypeOK'
    BY <2>28 DEF RebindBus, OGoto, supVars, gwVars, sendVars, OperatorPc
  <2>29. ASSUME NEW o \in Operators, RebindWhitelist(o) PROVE TypeOK'
    BY <2>29 DEF RebindWhitelist, OGoto, supVars, gwVars, sendVars, OperatorPc
  <2>30. ASSUME NEW o \in Operators, RebindWhitelistRefused(o) PROVE TypeOK'
    BY <2>30 DEF RebindWhitelistRefused, OGoto, supVars, gwVars, sendVars, OperatorPc
  <2>31. ASSUME NEW o \in Operators, AdvanceFence(o) PROVE TypeOK'
    BY <2>31 DEF AdvanceFence, OGoto, supVars, gwVars, sendVars, OperatorPc
  <2>32. ASSUME NEW o \in Operators, UnregisterHook(o) \/ RegisterHook(o) PROVE TypeOK'
    BY <2>32 DEF UnregisterHook, RegisterHook, OGoto, supVars, gwVars, sendVars, OperatorPc
  <2>33. ASSUME Heartbeat \/ LeaseRunsOut PROVE TypeOK'
    <3>1. /\ lease' \in BOOLEAN
          /\ UNCHANGED <<supVars, engaged, fence, gwVars, sendVars, tpc, opc, tgt, calls, struck>>
      BY <2>33, Zenon DEF Heartbeat, LeaseRunsOut
    <3> QED BY <3>1 DEF supVars, gwVars, sendVars
  <2>34. ASSUME UNCHANGED vars PROVE TypeOK'
    BY <2>34 DEF vars, supVars, gwVars, sendVars
  <2> QED
    BY <2>1, <2>2, <2>3, <2>4, <2>5, <2>6, <2>7, <2>8, <2>9, <2>10, <2>11, <2>12,
       <2>13, <2>14, <2>15, <2>16, <2>17, <2>18, <2>19, <2>20, <2>21, <2>22, <2>23,
       <2>24, <2>25, <2>26, <2>27, <2>28, <2>29, <2>30, <2>31, <2>32, <2>33, <2>34
       DEF Next, SenderStep, TripperStep, OperatorStep, OperatorCall
<1> QED BY <1>1, <1>2, PTL DEF Spec
-----------------------------------------------------------------------------
(* The E-Stop and the supervisor *)

\* The variables StopInv reads.
stopVars == <<state, supLock, engaged, tpc, opc, tgt>>

\* StopInv reads nothing else.
LEMMA StopInvStutter == StopInv /\ UNCHANGED stopVars => StopInv'
BY DEF StopInv, RevokedWhenStopped, stopVars

\* The steps of the senders, of the drivers and of the lease do not move the
\* latch, the supervisor or a thread that works on them.
LEMMA SendersLeaveStop ==
    ASSUME \/ \E s \in Senders : SendPermit(s) \/ SenderStep(s)
           \/ DriverTransmit \/ Heartbeat \/ LeaseRunsOut
    PROVE  UNCHANGED stopVars
BY DEF SenderStep, SendPermit, SendLease, SendEStop, SnapEngaged, SnapFence, Phase2, Phase3Fence,
       Phase3Engaged, PrivilegedSend, Rollback, DriverTransmit, Heartbeat, LeaseRunsOut,
       stopVars, supVars

\* No interleaving leaves a latched E-Stop over a supervisor that is neither in
\* FAULT nor in SAFE once every trigger() has looked at the supervisor.
THEOREM StoppedMeansRevoked == Spec => []RevokedWhenStopped
<1>1. Init => StopInv
  BY DEF Init, StopInv, RevokedWhenStopped
<1>2. TypeOK /\ StopInv /\ [Next]_vars => StopInv'
  <2> SUFFICES ASSUME TypeOK, StopInv, [Next]_vars PROVE StopInv'
    OBVIOUS
  <2>1. CASE \/ \E s \in Senders : SendPermit(s) \/ SenderStep(s)
             \/ DriverTransmit \/ Heartbeat \/ LeaseRunsOut
    BY <2>1, SendersLeaveStop, StopInvStutter
  <2>2. CASE UNCHANGED vars
    BY <2>2, StopInvStutter DEF vars, supVars, stopVars
  <2>3. CASE MonitorExpired
    BY <2>3 DEF MonitorExpired, Goto, StopInv, RevokedWhenStopped, TypeOK, supVars, Trippers
  <2>4. ASSUME NEW t \in Trippers, StopRequested(t) PROVE StopInv'
    BY <2>4 DEF StopRequested, Goto, StopInv, RevokedWhenStopped, TypeOK, supVars
  <2>5. ASSUME NEW t \in Trippers, TripperFault(t) PROVE StopInv'
    BY <2>5 DEF TripperFault, Goto, StopInv, RevokedWhenStopped, TypeOK
  <2>6. ASSUME NEW t \in Trippers, TripperCbWatchdog(t) PROVE StopInv'
    BY <2>6 DEF TripperCbWatchdog, Goto, StopInv, RevokedWhenStopped, TypeOK, supVars
  <2>7. ASSUME NEW t \in Trippers, TripperCbGateway(t) PROVE StopInv'
    BY <2>7 DEF TripperCbGateway, Goto, StopInv, RevokedWhenStopped, TypeOK, supVars
  <2>8. ASSUME NEW t \in Trippers, Engage(t) PROVE StopInv'
    BY <2>8 DEF Engage, Goto, StopInv, RevokedWhenStopped, TypeOK, supVars
  <2>9. ASSUME NEW t \in Trippers, Notify(t) PROVE StopInv'
    BY <2>9, CoreAssumption DEF Notify, Goto, StopInv, RevokedWhenStopped, TypeOK, supVars
  <2>10. ASSUME NEW t \in Trippers, ClearStreaks(t) \/ AbortHook(t) PROVE StopInv'
    BY <2>10 DEF ClearStreaks, AbortHook, Goto, StopInv, RevokedWhenStopped, TypeOK, supVars
  <2>11. ASSUME NEW o \in Operators, NEW target \in SafetyState, BeginTransition(o, target)
         PROVE  StopInv'
    BY <2>11, UnblockedLanding, CoreAssumption
       DEF BeginTransition, OGoto, StopInv, RevokedWhenStopped, TypeOK
  <2>12. ASSUME NEW o \in Operators, CommitTransition(o) PROVE StopInv'
    BY <2>12 DEF CommitTransition, OGoto, StopInv, RevokedWhenStopped, TypeOK
  <2>13. ASSUME NEW o \in Operators, ResetVerify(o) PROVE StopInv'
    BY <2>13 DEF ResetVerify, OGoto, StopInv, RevokedWhenStopped, TypeOK, supVars
  <2>14. ASSUME NEW o \in Operators,
                \/ OperatorCbWatchdog(o) \/ OperatorCbGateway(o) \/ AnchorLease(o)
                \/ ResetBump(o) \/ RebindBus(o) \/ RebindWhitelist(o)
                \/ RebindWhitelistRefused(o) \/ AdvanceFence(o) \/ UnregisterHook(o) \/ RegisterHook(o)
         PROVE  StopInv'
    <3>1. /\ UNCHANGED <<state, supLock, engaged, tpc, tgt>>
          /\ \A p \in Operators : opc'[p] = "commit" => opc[p] = "commit"
      BY <2>14 DEF OperatorCbWatchdog, OperatorCbGateway, AnchorLease, ResetBump, RebindBus,
         RebindWhitelist, RebindWhitelistRefused, AdvanceFence, UnregisterHook, RegisterHook, OGoto, TypeOK,
         supVars
    <3> QED BY <3>1 DEF StopInv, RevokedWhenStopped
  <2> QED
    BY <2>1, <2>2, <2>3, <2>4, <2>5, <2>6, <2>7, <2>8, <2>9, <2>10, <2>11, <2>12, <2>13, <2>14
       DEF Next, TripperStep, OperatorStep, OperatorCall
<1>3. StopInv => RevokedWhenStopped
  BY DEF StopInv
<1> QED BY <1>1, <1>2, <1>3, TypeCorrect, PTL DEF Spec
-----------------------------------------------------------------------------
(* The fence *)

\* What FenceInv reads: the fence, a sender's place, its snapshot and its
\* history bit.
fenceVars == <<fence, spc, snapF, struck>>

\* FenceInv reads nothing else.
LEMMA FenceInvStutter == FenceInv /\ UNCHANGED fenceVars => FenceInv'
BY DEF FenceInv, NoFrameSurvivesTrigger, InFlight, fenceVars

\* Every other step leaves the fence, the snapshots and the senders alone.
LEMMA OthersLeaveFence ==
    ASSUME \/ DriverTransmit \/ MonitorExpired \/ Heartbeat \/ LeaseRunsOut
           \/ \E t \in Trippers : \/ StopRequested(t) \/ TripperFault(t) \/ TripperCbWatchdog(t)
                                 \/ TripperCbGateway(t) \/ Notify(t) \/ ClearStreaks(t)
                                 \/ AbortHook(t)
           \/ \E o \in Operators :
                 \/ \E target \in SafetyState : BeginTransition(o, target)
                 \/ CommitTransition(o) \/ OperatorCbWatchdog(o) \/ OperatorCbGateway(o)
                 \/ AnchorLease(o) \/ ResetVerify(o) \/ RebindBus(o) \/ RebindWhitelist(o)
                 \/ RebindWhitelistRefused(o) \/ UnregisterHook(o) \/ RegisterHook(o)
    PROVE  UNCHANGED fenceVars
BY DEF DriverTransmit, MonitorExpired, Heartbeat, LeaseRunsOut, StopRequested, TripperFault,
       TripperCbWatchdog, TripperCbGateway, Notify, ClearStreaks, AbortHook, BeginTransition,
       CommitTransition, OperatorCbWatchdog, OperatorCbGateway, AnchorLease, ResetVerify,
       RebindBus, RebindWhitelist, RebindWhitelistRefused, UnregisterHook, RegisterHook, fenceVars, sendVars

\* A trigger() between a frame's validation and its fence comparison kills the
\* frame, whatever else ran in between, a completed reset included.
THEOREM TriggerKillsInFlight == Spec => []NoFrameSurvivesTrigger
<1>1. Init => FenceInv
  BY DEF Init, FenceInv, NoFrameSurvivesTrigger, InFlight
<1>2. TypeOK /\ FenceInv /\ [Next]_vars => FenceInv'
  <2> SUFFICES ASSUME TypeOK, FenceInv, [Next]_vars PROVE FenceInv'
    OBVIOUS
  <2> USE DEF FenceInv, NoFrameSurvivesTrigger, InFlight, TypeOK
  <2>1. ASSUME NEW s \in Senders, SendPermit(s) PROVE FenceInv'
    BY <2>1 DEF SendPermit
  <2>2. ASSUME NEW s \in Senders, SendLease(s) \/ SendEStop(s) PROVE FenceInv'
    <3>1. \/ spc' \in {[spc EXCEPT ![s] = "estop"], [spc EXCEPT ![s] = "snapE"]}
             /\ UNCHANGED <<fence, snapF, struck>>
          \/ Idle(s) /\ UNCHANGED fence
      BY <2>2 DEF SendLease, SendEStop
    <3> QED BY <3>1 DEF Idle
  <2>3. ASSUME NEW s \in Senders, SnapEngaged(s) \/ SnapFence(s) PROVE FenceInv'
    BY <2>3 DEF SnapEngaged, SnapFence
  <2>4. ASSUME NEW s \in Senders, Phase2(s) PROVE FenceInv'
    BY <2>4 DEF Phase2
  <2>5. ASSUME NEW s \in Senders, Phase3Fence(s) PROVE FenceInv'
    BY <2>5 DEF Phase3Fence
  <2>6. ASSUME NEW s \in Senders, Phase3Engaged(s) PROVE FenceInv'
    BY <2>6 DEF Phase3Engaged
  <2>7. ASSUME NEW s \in Senders, PrivilegedSend(s) \/ Rollback(s) PROVE FenceInv'
    BY <2>7 DEF PrivilegedSend, Rollback, Idle
  <2>8. ASSUME NEW t \in Trippers, Engage(t) PROVE FenceInv'
    BY <2>8 DEF Engage, sendVars
  <2>9. ASSUME NEW o \in Operators, ResetBump(o) \/ AdvanceFence(o) PROVE FenceInv'
    BY <2>9 DEF ResetBump, AdvanceFence, sendVars
  <2>10. CASE UNCHANGED vars
    BY <2>10, FenceInvStutter DEF vars, sendVars, fenceVars
  <2> QED
    BY <2>1, <2>2, <2>3, <2>4, <2>5, <2>6, <2>7, <2>8, <2>9, <2>10, OthersLeaveFence,
       FenceInvStutter
       DEF Next, SenderStep, TripperStep, OperatorStep, OperatorCall
<1>3. FenceInv => NoFrameSurvivesTrigger
  BY DEF FenceInv
<1> QED BY <1>1, <1>2, <1>3, TypeCorrect, PTL DEF Spec
-----------------------------------------------------------------------------
(* The policy a frame leaves under *)

\* The variables PolicyInv reads.
policyVars == <<fence, bus, whitelist, gwLock, sendLock, spc, frame, vbus, snapF, opc>>

\* PolicyInv reads nothing else.
LEMMA PolicyInvStutter == PolicyInv /\ UNCHANGED policyVars => PolicyInv'
BY DEF PolicyInv, InFlight, policyVars

\* The E-Stop's and the watchdog's threads touch none of it but the fence.
LEMMA TrippersLeavePolicy ==
    ASSUME \/ DriverTransmit \/ MonitorExpired \/ Heartbeat \/ LeaseRunsOut
           \/ \E t \in Trippers : \/ StopRequested(t) \/ TripperFault(t) \/ TripperCbWatchdog(t)
                                 \/ TripperCbGateway(t) \/ Notify(t) \/ ClearStreaks(t)
                                 \/ AbortHook(t)
    PROVE  UNCHANGED policyVars
BY DEF DriverTransmit, MonitorExpired, Heartbeat, LeaseRunsOut, StopRequested, TripperFault,
       TripperCbWatchdog, TripperCbGateway, Notify, ClearStreaks, AbortHook, policyVars,
       gwVars, sendVars

\* As long as no rebind is handed a mask that the breadth check refuses, a frame
\* past the fence goes out on the bus and under the whitelist it was validated
\* against, whatever rebinds ran since.
THEOREM RebindKillsInFlight == ~BroadRebinds /\ Spec => []DispatchUnderPolicy
<1> SUFFICES ASSUME ~BroadRebinds PROVE Spec => []DispatchUnderPolicy
  OBVIOUS
<1>1. Init => PolicyInv
  BY DEF Init, PolicyInv, InFlight
<1>2. TypeOK /\ PolicyInv /\ [Next]_vars => PolicyInv'
  <2> SUFFICES ASSUME TypeOK, PolicyInv, [Next]_vars PROVE PolicyInv'
    OBVIOUS
  <2> USE CoreAssumption DEF PolicyInv, InFlight, TypeOK
  <2>1. ASSUME NEW s \in Senders, SendPermit(s) PROVE PolicyInv'
    BY <2>1 DEF SendPermit
  <2>2. ASSUME NEW s \in Senders, SendLease(s) \/ SendEStop(s) PROVE PolicyInv'
    <3>1. /\ \/ /\ \/ spc' = [spc EXCEPT ![s] = "estop"] /\ spc[s] = "lease"
                   \/ /\ spc' = [spc EXCEPT ![s] = "snapE"] /\ spc[s] = "estop"
                      /\ frame[s] \in whitelist
                /\ UNCHANGED <<frame, vbus, snapF, gwLock>>
             \/ Idle(s) /\ gwLock' = Nobody /\ spc[s] \in {"lease", "estop"}
          /\ UNCHANGED <<fence, bus, whitelist, sendLock, opc>>
      BY <2>2 DEF SendLease, SendEStop
    <3> QED BY <3>1 DEF Idle
  <2>3. ASSUME NEW s \in Senders, SnapEngaged(s) PROVE PolicyInv'
    BY <2>3 DEF SnapEngaged, gwVars
  <2>4. ASSUME NEW s \in Senders, SnapFence(s) PROVE PolicyInv'
    BY <2>4 DEF SnapFence
  <2>5. ASSUME NEW s \in Senders, Phase2(s) PROVE PolicyInv'
    BY <2>5 DEF Phase2, gwVars
  <2>6. ASSUME NEW s \in Senders, Phase3Fence(s) PROVE PolicyInv'
    BY <2>6 DEF Phase3Fence
  <2>7. ASSUME NEW s \in Senders, Phase3Engaged(s) PROVE PolicyInv'
    BY <2>7 DEF Phase3Engaged, gwVars
  <2>8. ASSUME NEW s \in Senders, PrivilegedSend(s) PROVE PolicyInv'
    BY <2>8 DEF PrivilegedSend, Idle
  <2>9. ASSUME NEW s \in Senders, Rollback(s) PROVE PolicyInv'
    BY <2>9 DEF Rollback, Idle
  <2>10. ASSUME NEW t \in Trippers, Engage(t) PROVE PolicyInv'
    BY <2>10 DEF Engage, gwVars, sendVars
  <2>11. ASSUME NEW o \in Operators,
                \/ \E target \in SafetyState : BeginTransition(o, target)
                \/ CommitTransition(o) \/ OperatorCbWatchdog(o) \/ OperatorCbGateway(o)
                \/ AnchorLease(o) \/ ResetVerify(o) \/ UnregisterHook(o) \/ RegisterHook(o)
         PROVE  PolicyInv'
    <3>1. /\ UNCHANGED <<fence, bus, whitelist, gwLock, sendLock, spc, frame, vbus, snapF>>
          /\ \A p \in Operators : opc'[p] \in {"advBus", "advIds"} => opc'[p] = opc[p]
      BY <2>11 DEF BeginTransition, CommitTransition, OperatorCbWatchdog, OperatorCbGateway,
         AnchorLease, ResetVerify, UnregisterHook, RegisterHook, OGoto, gwVars, sendVars
    <3> QED BY <3>1
  <2>12. ASSUME NEW o \in Operators, ResetBump(o) PROVE PolicyInv'
    BY <2>12 DEF ResetBump, OGoto, gwVars, sendVars
  <2>13. ASSUME NEW o \in Operators, RebindBus(o) \/ RebindWhitelist(o) PROVE PolicyInv'
    BY <2>13 DEF RebindBus, RebindWhitelist, OGoto, sendVars
  <2>14. ASSUME NEW o \in Operators, RebindWhitelistRefused(o) PROVE PolicyInv'
    BY <2>14 DEF RebindWhitelistRefused
  <2>15. ASSUME NEW o \in Operators, AdvanceFence(o) PROVE PolicyInv'
    BY <2>15 DEF AdvanceFence, OGoto, sendVars
  <2>16. CASE UNCHANGED vars
    BY <2>16, PolicyInvStutter DEF vars, gwVars, sendVars, policyVars
  <2> QED
    BY <2>1, <2>2, <2>3, <2>4, <2>5, <2>6, <2>7, <2>8, <2>9, <2>10, <2>11, <2>12, <2>13, <2>14,
       <2>15, <2>16, TrippersLeavePolicy, PolicyInvStutter
       DEF Next, SenderStep, TripperStep, OperatorStep, OperatorCall
<1>3. PolicyInv => DispatchUnderPolicy
  BY DEF PolicyInv, DispatchUnderPolicy
<1> QED BY <1>1, <1>2, <1>3, TypeCorrect, PTL DEF Spec
-----------------------------------------------------------------------------
(***************************************************************************)
(* The rate limits.  First what the helpers of TxRate's windows do.        *)
(***************************************************************************)

\* A set of naturals that has a member has a least one.
LEMMA LeastOf ==
    ASSUME NEW S \in SUBSET Nat, S # {}
    PROVE  Min(S) \in S /\ \A y \in S : Min(S) <= y
<1>1. PICK m \in S : \A y \in S : ~(<<y, m>> \in OpToRel(<, Nat))
    BY NatLessThanWellFounded, WFMin
<1>2. \A y \in S : m <= y
    <2> SUFFICES ASSUME NEW y \in S, y < m PROVE FALSE
        OBVIOUS
    <2>1. <<y, m>> \in OpToRel(<, Nat)
        BY DEF OpToRel
    <2>2. QED
        BY <1>1, <2>1
<1>3. QED
    BY <1>2 DEF Min

\* The popleft loop stops at the first stamp inside the window.
LEMMA PrunedFrom ==
    ASSUME now \in Nat, Window \in Nat, NEW q \in Seq(Stamp)
    PROVE  \E first \in 1..Len(q) + 1 :
              /\ Pruned(q) = SubSeq(q, first, Len(q))
              /\ first <= Len(q) => Recent(q[first])
              /\ \A j \in 1..first - 1 : ~Recent(q[j])
<1> DEFINE Stop == {i \in 1..Len(q) : Recent(q[i])} \cup {Len(q) + 1}
           IsFirst(i) == /\ i <= Len(q) => Recent(q[i])
                         /\ \A j \in 1..i - 1 : ~Recent(q[j])
<1>0. Len(q) \in Nat
    OBVIOUS
<1>1. Stop \in SUBSET Nat /\ Stop # {}
    BY <1>0
<1>2. Min(Stop) \in Stop /\ \A y \in Stop : Min(Stop) <= y
    BY <1>1, LeastOf
<1>3. Min(Stop) \in 1..Len(q) + 1
    BY <1>0, <1>2
<1>4. Min(Stop) <= Len(q) => Recent(q[Min(Stop)])
    BY <1>0, <1>2
<1>5. ASSUME NEW j \in 1..Min(Stop) - 1, Recent(q[j]) PROVE FALSE
    <2>1. j \in 1..Len(q)
        BY <1>0, <1>3
    <2>2. j \in Stop
        BY <1>5, <2>1
    <2>3. QED
        BY <1>0, <1>2, <1>3, <2>2
<1>6. IsFirst(Min(Stop))
    BY <1>4, <1>5
<1>7. \E i \in 1..Len(q) + 1 : IsFirst(i)
    BY <1>3, <1>6
<1>8. PICK i \in 1..Len(q) + 1 : i = (CHOOSE k \in 1..Len(q) + 1 : IsFirst(k)) /\ IsFirst(i)
    BY <1>7
<1>9. Pruned(q) = SubSeq(q, i, Len(q))
    BY <1>8 DEF Pruned
<1>10. QED
    BY <1>8, <1>9

\* Pruning drops nothing that is in the window and invents nothing; if it
\* leaves anything, the oldest is in the window.
LEMMA PrunedFacts ==
    ASSUME now \in Nat, Window \in Nat, NEW q \in Seq(Stamp)
    PROVE  /\ Pruned(q) \in Seq(Stamp)
           /\ Len(Pruned(q)) <= Len(q)
           /\ Len(Pruned(q)) > 0 => \E x \in ToSet(q) : Recent(x)
           /\ ToSet(Pruned(q)) \subseteq ToSet(q)
           /\ \A x \in ToSet(q) : Recent(x) => x \in ToSet(Pruned(q))
<1>1. PICK first \in 1..Len(q) + 1 :
              /\ Pruned(q) = SubSeq(q, first, Len(q))
              /\ first <= Len(q) => Recent(q[first])
              /\ \A j \in 1..first - 1 : ~Recent(q[j])
    BY PrunedFrom
<1> DEFINE p == SubSeq(q, first, Len(q))
<1>2. /\ p \in Seq(Stamp) /\ Len(p) = Len(q) - first + 1
      /\ \A i \in 1..Len(p) : p[i] = q[first + i - 1]
    OBVIOUS
<1>q. Len(q) \in Nat
    OBVIOUS
<1> HIDE DEF p
<1>3. Len(p) <= Len(q)
    BY <1>q, <1>2
<1>4. Len(p) > 0 => \E x \in ToSet(q) : Recent(x)
    <2> SUFFICES ASSUME Len(p) > 0 PROVE \E x \in ToSet(q) : Recent(x)
        OBVIOUS
    <2>1. first \in 1..Len(q)
        BY <1>q, <1>2
    <2>2. q[first] \in ToSet(q)
        BY <2>1 DEF ToSet
    <2>3. QED
        BY <1>1, <2>1, <2>2
<1>5. ToSet(p) \subseteq ToSet(q)
    <2> SUFFICES ASSUME NEW i \in 1..Len(p) PROVE p[i] \in ToSet(q)
        BY <1>2 DEF ToSet
    <2>1. first + i - 1 \in 1..Len(q)
        BY <1>q, <1>2
    <2>2. QED
        BY <1>q, <1>2, <2>1 DEF ToSet
<1>6. ASSUME NEW i \in 1..Len(q), Recent(q[i]) PROVE q[i] \in ToSet(p)
    <2>1. i >= first
        BY <1>1, <1>6
    <2>2. i - first + 1 \in 1..Len(p)
        BY <1>q, <1>2, <2>1
    <2>3. p[i - first + 1] = q[i]
        BY <1>q, <1>2, <2>1, <2>2
    <2>4. p[i - first + 1] \in ToSet(p)
        BY <1>2, <2>2 DEF ToSet
    <2>5. QED
        BY <2>3, <2>4
<1>7. \A x \in ToSet(q) : Recent(x) => x \in ToSet(p)
    BY <1>6 DEF ToSet
<1>8. QED
    BY <1>1, <1>2, <1>3, <1>4, <1>5, <1>7 DEF p

\* deque.remove takes out no other element than the one it is given.
LEMMA RemoveFirstFacts ==
    ASSUME NEW S, NEW q \in Seq(S), NEW e
    PROVE  /\ RemoveFirst(q, e) \in Seq(S)
           /\ Len(RemoveFirst(q, e)) <= Len(q)
           /\ ToSet(RemoveFirst(q, e)) \subseteq ToSet(q)
           /\ \A x \in ToSet(q) : x # e => x \in ToSet(RemoveFirst(q, e))
<1>1. CASE ~\E i \in 1..Len(q) : q[i] = e
    BY <1>1 DEF RemoveFirst
<1>2. CASE \E i \in 1..Len(q) : q[i] = e
    <2> DEFINE At == {i \in 1..Len(q) : q[i] = e}
               k == Min(At)
               r == SubSeq(q, 1, k - 1) \o SubSeq(q, k + 1, Len(q))
    <2>1. At \in SUBSET Nat /\ At # {}
        BY <1>2
    <2>2. k \in 1..Len(q) /\ q[k] = e
        BY <2>1, LeastOf
    <2>3. SelectInSeq(q, LAMBDA v : v = e) = k
        BY <2>1 DEF SelectInSeq
    <2>4. RemoveFirst(q, e) = r
        BY <1>2, <2>3 DEF RemoveFirst, RemoveAt
    <2> HIDE DEF k
    <2>5. /\ r \in Seq(S) /\ Len(r) = Len(q) - 1
          /\ \A i \in 1..Len(r) : r[i] = IF i < k THEN q[i] ELSE q[i + 1]
        <3> DEFINE a == SubSeq(q, 1, k - 1)
                   b == SubSeq(q, k + 1, Len(q))
        <3>1. /\ a \in Seq(S) /\ Len(a) = k - 1
              /\ \A i \in 1..k - 1 : a[i] = q[i]
            BY <2>2
        <3>2. /\ b \in Seq(S) /\ Len(b) = Len(q) - k
              /\ \A i \in 1..Len(q) - k : b[i] = q[k + i]
            BY <2>2
        <3>3. r = a \o b
            OBVIOUS
        <3> HIDE DEF a, b, r
        <3>4. /\ r \in Seq(S) /\ Len(r) = Len(a) + Len(b)
              /\ \A i \in 1..Len(r) : r[i] = IF i <= Len(a) THEN a[i] ELSE b[i - Len(a)]
            <4>1. a \in Seq(S) /\ b \in Seq(S)
                BY <3>1, <3>2
            <4>2. a \o b \in Seq(S) /\ Len(a \o b) = Len(a) + Len(b)
                BY <4>1
            <4>3. \A i \in 1..Len(a) + Len(b) :
                      (a \o b)[i] = IF i <= Len(a) THEN a[i] ELSE b[i - Len(a)]
                BY <4>1
            <4>4. QED
                BY <3>3, <4>2, <4>3, Zenon
        <3>5. Len(r) = Len(q) - 1
            BY <2>2, <3>1, <3>2, <3>4
        <3> HIDE DEF k
        <3>e. k \in Nat /\ k > 0 /\ Len(q) \in Nat
            BY <2>2
        <3>6. ASSUME NEW i \in 1..Len(r), i < k PROVE r[i] = q[i]
            <4>1. i \in 1..k - 1 /\ i <= Len(a)
                BY <3>1, <3>5, <3>6, <3>e
            <4>2. r[i] = a[i]
                BY <3>4, <4>1
            <4>3. QED
                BY <3>1, <4>1, <4>2
        <3>7. ASSUME NEW i \in 1..Len(r), ~(i < k) PROVE r[i] = q[i + 1]
            <4> DEFINE j == i - (k - 1)
            <4>1. j \in 1..Len(q) - k /\ ~(i <= Len(a)) /\ j = i - Len(a) /\ k + j = i + 1
                BY <3>1, <3>5, <3>7, <3>e
            <4> HIDE DEF j
            <4>2. r[i] = b[j]
                BY <3>4, <4>1
            <4>3. b[j] = q[k + j]
                BY <3>2, <4>1
            <4>4. QED
                BY <4>1, <4>2, <4>3
        <3>8. QED
            BY <3>4, <3>5, <3>6, <3>7
    <2> HIDE DEF r
    <2>6. ToSet(r) \subseteq ToSet(q)
        BY <2>5 DEF ToSet
    <2>7. ASSUME NEW i \in 1..Len(q), q[i] # e PROVE q[i] \in ToSet(r)
        <3>1. CASE i < k
            BY <2>2, <2>5, <3>1 DEF ToSet
        <3>2. CASE i > k
            <4>1. i - 1 \in 1..Len(r) /\ r[i - 1] = q[i]
                BY <2>2, <2>5, <3>2
            <4>2. QED
                BY <2>5, <4>1 DEF ToSet
        <3>3. QED
            BY <2>2, <2>7, <3>1, <3>2
    <2>8. \A x \in ToSet(q) : x # e => x \in ToSet(r)
        BY <2>7 DEF ToSet
    <2>9. QED
        BY <2>4, <2>5, <2>6, <2>8
<1>3. QED
    BY <1>1, <1>2

\* A new stamp joins the others.
LEMMA AppendedSet ==
    ASSUME NEW S, NEW q \in Seq(S), NEW e \in S
    PROVE  ToSet(Append(q, e)) = ToSet(q) \cup {e}
<1> DEFINE a == Append(q, e)
<1>1. a \in Seq(S) /\ Len(a) = Len(q) + 1 /\ a[Len(q) + 1] = e
      /\ \A i \in 1..Len(q) : a[i] = q[i]
    OBVIOUS
<1> HIDE DEF a
<1>2. ToSet(a) \subseteq ToSet(q) \cup {e}
    BY <1>1 DEF ToSet
<1>3. ToSet(q) \subseteq ToSet(a)
    BY <1>1 DEF ToSet
<1>4. e \in ToSet(a)
    BY <1>1 DEF ToSet
<1>5. QED
    BY <1>2, <1>3, <1>4 DEF a

\* A sequence has no more values than places.
LEMMA ValuesOf ==
    ASSUME NEW S, NEW q \in Seq(S)
    PROVE  IsFiniteSet(ToSet(q)) /\ Cardinality(ToSet(q)) <= Len(q)
<1> DEFINE f == [i \in 1..Len(q) |-> q[i]]
<1>1. f \in Surjection(1..Len(q), ToSet(q))
    BY DEF Surjection, ToSet
<1>2. Len(q) \in Nat
    OBVIOUS
<1>3. IsFiniteSet(1..Len(q)) /\ Cardinality(1..Len(q)) = IF 1 > Len(q) THEN 0 ELSE Len(q) - 1 + 1
    BY <1>2, FS_Interval
<1>4. Cardinality(1..Len(q)) = Len(q)
    BY <1>2, <1>3
<1>5. QED
    BY <1>1, <1>3, <1>4, FS_Surjection

\* Whose reservation may still be given back.
Holding(t) == pc[t] \in {"flight", "stale"}

\* A reservation names a bucket that exists, or none, and its own stamp.
HeldInv ==
    \A t \in Threads :
        /\ held[t].bucket \in 0..Len(buckets)
        /\ Holding(t) => held[t].total \in Stamp

\* At a moment of the clock, a bucket has not paid out, together with what it
\* still has, more than its burst and what it has earned up to its last use.
Accounted(b, time) ==
    /\ b.born <= b.last /\ b.last <= time
    /\ b.tokens + b.spent <= Capacity + (b.last - b.born) * Refill

BucketInv == \A i \in 1..Len(buckets) : Accounted(buckets[i], now)

RateShape == RateTypeOK /\ HeldInv /\ BucketInv

LEMMA RateConstants ==
    /\ {Window, MaxRate, MaxTotal, EstopAfter, MissAfter, Capacity} \subseteq Nat
    /\ Window > 0 /\ MaxRate > 0 /\ MaxTotal > 0 /\ MissAfter > 0 /\ Refill \in Nat
BY RateAssumption

LEMMA Distribute ==
    ASSUME NEW x \in Int, NEW y \in Int, NEW z \in Int
    PROVE  x * z + y * z = (x + y) * z
OBVIOUS

LEMMA ProductInNat ==
    ASSUME NEW x \in Nat, NEW y \in Nat
    PROVE  x * y \in Nat
OBVIOUS

\* What a function on the names of a bucket's fields is as a record.
LEMMA BucketRecord ==
    ASSUME NEW c, c = [f \in {"tokens", "last", "born", "spent"} |-> c[f]]
    PROVE  c = [tokens |-> c.tokens, last |-> c.last, born |-> c.born, spent |-> c.spent]
OBVIOUS

\* Paying in what the clock has earned keeps a bucket's account.
LEMMA RefilledFacts ==
    ASSUME now \in Nat, NEW b \in Bucket, Accounted(b, now)
    PROVE  Refilled(b) \in Bucket /\ Accounted(Refilled(b), now)
<1> DEFINE gain == (now - b.last) * Refill
           earned == b.tokens + gain
           r == Refilled(b)
<1>1. /\ b.tokens \in Nat /\ b.tokens <= Capacity /\ b.last \in Nat /\ b.born \in Nat
      /\ b.spent \in Int /\ b.born <= b.last /\ b.last <= now
      /\ Capacity \in Nat /\ Refill \in Nat
    BY RateConstants DEF Bucket, Accounted
<1>2. gain \in Nat
    BY <1>1, ProductInNat
<1> HIDE DEF gain
<1>3. /\ r.tokens = (IF earned < Capacity THEN earned ELSE Capacity)
      /\ r.last = now /\ r.born = b.born /\ r.spent = b.spent
    BY DEF Refilled, Bucket, gain
<1>4. r = [tokens |-> r.tokens, last |-> now, born |-> b.born, spent |-> b.spent]
    <2>1. r = [f \in {"tokens", "last", "born", "spent"} |-> r[f]]
        BY DEF Refilled, Bucket
    <2> HIDE DEF r
    <2>2. r = [tokens |-> r.tokens, last |-> r.last, born |-> r.born, spent |-> r.spent]
        BY <2>1, BucketRecord
    <2>3. QED
        BY <1>3, <2>2
<1>5. r.tokens \in 0..Capacity /\ r.tokens <= b.tokens + gain
    BY <1>1, <1>2, <1>3
<1>6. r \in Bucket
    BY <1>1, <1>4, <1>5 DEF Bucket
<1>7. gain + (b.last - b.born) * Refill = (now - b.born) * Refill
    <2>1. gain + (b.last - b.born) * Refill = ((now - b.last) + (b.last - b.born)) * Refill
        BY <1>1, Distribute DEF gain
    <2>2. (now - b.last) + (b.last - b.born) = now - b.born
        BY <1>1
    <2>3. QED
        BY <2>1, <2>2
<1>8. b.tokens + b.spent <= Capacity + (b.last - b.born) * Refill
    BY DEF Accounted
<1>9. (b.last - b.born) * Refill \in Nat /\ (now - b.born) * Refill \in Nat
    BY <1>1, ProductInNat
<1>10. r.tokens + r.spent <= Capacity + (now - b.born) * Refill
    BY <1>1, <1>2, <1>3, <1>5, <1>7, <1>8, <1>9
<1>11. Accounted(r, now)
    BY <1>1, <1>3, <1>10 DEF Accounted
<1>12. QED
    BY <1>6, <1>11

\* A token that goes out is entered as spent.
LEMMA ConsumedFacts ==
    ASSUME now \in Nat, NEW b \in Bucket, Accounted(b, now), Refilled(b).tokens >= 1
    PROVE  Consumed(b) \in Bucket /\ Accounted(Consumed(b), now)
<1> DEFINE r == Refilled(b)
           c == Consumed(b)
<1>1. r \in Bucket /\ Accounted(r, now) /\ r.tokens >= 1 /\ Capacity \in Nat
    BY RefilledFacts, RateConstants
<1>2. c = [r EXCEPT !.tokens = @ - 1, !.spent = @ + 1]
    BY DEF Consumed
<1> HIDE DEF r, c
<1>3. c = [tokens |-> r.tokens - 1, last |-> r.last, born |-> r.born, spent |-> r.spent + 1]
    BY <1>1, <1>2 DEF Bucket
<1>4. r.tokens \in 0..Capacity /\ r.spent \in Int /\ r.last \in Nat /\ r.born \in Nat
    BY <1>1 DEF Bucket
<1>5. r.tokens - 1 \in 0..Capacity
    BY <1>1, <1>4
<1>6. c \in Bucket
    BY <1>3, <1>4, <1>5 DEF Bucket
<1>7. (r.tokens - 1) + (r.spent + 1) = r.tokens + r.spent
    BY <1>4
<1>8. Accounted(c, now)
    BY <1>1, <1>3, <1>7 DEF Accounted
<1>9. QED
    BY <1>6, <1>8 DEF c

\* A refund never adds more than it takes off what was spent.
LEMMA RefundedFacts ==
    ASSUME now \in Nat, NEW b \in Bucket, Accounted(b, now)
    PROVE  Refunded(b) \in Bucket /\ Accounted(Refunded(b), now)
<1> DEFINE c == Refunded(b)
           more == IF b.tokens < Capacity THEN b.tokens + 1 ELSE Capacity
<1>1. c = [tokens |-> more, last |-> b.last, born |-> b.born, spent |-> b.spent - 1]
    <2>1. c = [f \in {"tokens", "last", "born", "spent"} |-> c[f]]
        BY DEF Refunded, Bucket
    <2>2. c.tokens = more /\ c.last = b.last /\ c.born = b.born /\ c.spent = b.spent - 1
        BY DEF Refunded, Bucket
    <2> HIDE DEF more, c
    <2>3. c = [tokens |-> c.tokens, last |-> c.last, born |-> c.born, spent |-> c.spent]
        BY <2>1, BucketRecord
    <2>4. QED
        BY <2>2, <2>3
<1>2. /\ b.tokens \in 0..Capacity /\ b.spent \in Int /\ b.last \in Nat /\ b.born \in Nat
      /\ Capacity \in Nat /\ Refill \in Nat
    BY RateConstants DEF Bucket
<1>3. more \in 0..Capacity /\ more <= b.tokens + 1
    BY <1>2
<1> HIDE DEF more, c
<1>4. c \in Bucket
    BY <1>1, <1>2, <1>3 DEF Bucket
<1>5. b.born <= b.last /\ (b.last - b.born) * Refill \in Nat
    <2>1. b.born <= b.last
        BY DEF Accounted
    <2>2. QED
        BY <1>2, <2>1, ProductInNat
<1>6. more + (b.spent - 1) <= Capacity + (b.last - b.born) * Refill
    BY <1>2, <1>3, <1>5 DEF Accounted
<1>7. Accounted(c, now)
    BY <1>1, <1>6 DEF Accounted
<1>8. QED
    BY <1>4, <1>7 DEF c

\* A new bucket owes nothing.
LEMMA FullBucketFacts ==
    ASSUME now \in Nat
    PROVE  FullBucket \in Bucket /\ Accounted(FullBucket, now)
<1>1. Capacity \in Nat /\ Refill \in Nat /\ (now - now) * Refill = 0
    BY RateConstants
<1>2. FullBucket \in Bucket
    BY <1>1 DEF FullBucket, Bucket
<1>3. Accounted(FullBucket, now)
    BY <1>1 DEF FullBucket, Accounted
<1>4. QED
    BY <1>2, <1>3

\* One bucket changes and keeps its account: so do they all.
LEMMA BucketUpdated ==
    ASSUME RateShape, NEW i \in 1..Len(buckets), NEW e \in Bucket, Accounted(e, now),
           buckets' = [buckets EXCEPT ![i] = e], now' = now
    PROVE  buckets' \in Seq(Bucket) /\ Len(buckets') = Len(buckets) /\ BucketInv'
<1>1. buckets \in Seq(Bucket)
    BY DEF RateShape, RateTypeOK
<1>2. /\ buckets' \in Seq(Bucket) /\ Len(buckets') = Len(buckets)
      /\ \A j \in 1..Len(buckets) : buckets'[j] = IF j = i THEN e ELSE buckets[j]
    BY <1>1
<1>3. ASSUME NEW j \in 1..Len(buckets') PROVE Accounted(buckets'[j], now')
    <2>1. Accounted(buckets[j], now)
        BY <1>2 DEF RateShape, BucketInv
    <2>2. CASE j = i
        BY <1>2, <2>2
    <2>3. CASE j # i
        BY <1>2, <2>1, <2>3
    <2>4. QED
        BY <2>2, <2>3
<1>4. QED
    BY <1>2, <1>3 DEF BucketInv

\* Time only passes, and a bucket earns as it does.
LEMMA BucketsKept ==
    ASSUME RateShape, buckets' = buckets, now' \in Nat, now' >= now
    PROVE  BucketInv'
<1> SUFFICES ASSUME NEW i \in 1..Len(buckets) PROVE Accounted(buckets[i], now')
    BY DEF BucketInv
<1>1. buckets[i] \in Bucket /\ now \in Nat /\ Accounted(buckets[i], now)
    <2>1. buckets \in Seq(Bucket) /\ now \in Nat
        BY DEF RateShape, RateTypeOK
    <2>2. buckets[i] \in Bucket
        BY <2>1
    <2>3. Accounted(buckets[i], now)
        BY DEF RateShape, BucketInv
    <2>4. QED
        BY <2>1, <2>2, <2>3
<1>2. buckets[i].last \in Nat
    BY <1>1 DEF Bucket
<1>3. QED
    BY <1>1, <1>2 DEF Accounted

\* What the windows become keeps its type.
LEMMA WindowTypes ==
    ASSUME RateShape, NEW x
    PROVE  /\ now \in Nat /\ seq \in Nat
           /\ total \in Seq(Stamp) /\ lane \in Seq(Stamp)
           /\ Pruned(total) \in Seq(Stamp) /\ Pruned(lane) \in Seq(Stamp)
           /\ NewStamp(1) \in Stamp /\ NewStamp(2) \in Stamp
           /\ Append(Pruned(total), NewStamp(1)) \in Seq(Stamp)
           /\ Append(Pruned(lane), NewStamp(2)) \in Seq(Stamp)
           /\ RemoveFirst(total, x) \in Seq(Stamp) /\ RemoveFirst(lane, x) \in Seq(Stamp)
<1>1. now \in Nat /\ seq \in Nat /\ total \in Seq(Stamp) /\ lane \in Seq(Stamp)
    BY DEF RateShape, RateTypeOK
<1>2. Pruned(total) \in Seq(Stamp) /\ Pruned(lane) \in Seq(Stamp)
    BY <1>1, RateConstants, PrunedFacts
<1>3. NewStamp(1) \in Stamp /\ NewStamp(2) \in Stamp
    BY <1>1 DEF NewStamp, Stamp
<1>4. /\ Append(Pruned(total), NewStamp(1)) \in Seq(Stamp)
      /\ Append(Pruned(lane), NewStamp(2)) \in Seq(Stamp)
    BY <1>2, <1>3
<1>5. RemoveFirst(total, x) \in Seq(Stamp) /\ RemoveFirst(lane, x) \in Seq(Stamp)
    BY <1>1, RemoveFirstFacts
<1>6. QED
    BY <1>1, <1>2, <1>3, <1>4, <1>5

\* Fenced takes frames out of flight and leaves every other place alone.
LEMMA FencedFacts ==
    ASSUME RateShape
    PROVE  /\ Fenced(pc) \in [Threads -> {"idle", "flight", "stale", "trip", "notify"}]
           /\ \A t \in Threads : /\ Fenced(pc)[t] # "flight"
                                 /\ Fenced(pc)[t] = "stale" => Holding(t)
                                 /\ pc[t] \in {"trip", "notify"} => Fenced(pc)[t] = pc[t]
                                 /\ Fenced(pc)[t] \in {"trip", "notify"} => Fenced(pc)[t] = pc[t]
BY DEF RateShape, RateTypeOK, Fenced, Holding

\* The counters of a state, apart from its queues, buckets and places.
Counters == {totalStreak, rateStreak, misses, lastMiss, missRun, seq, attempts, stops,
             firstRej, lastRej, since}

LEMMA RateShapeInit == RateInit => RateShape
<1> SUFFICES ASSUME RateInit PROVE RateShape
    OBVIOUS
<1>1. FullBucket \in Bucket /\ Accounted(FullBucket, now) /\ now \in Nat
    BY FullBucketFacts DEF RateInit
<1>2. /\ buckets \in Seq(Bucket) /\ Len(buckets) = 1 /\ current = 1 /\ buckets[1] = FullBucket
    BY <1>1 DEF RateInit
<1>3. BucketInv
    BY <1>1, <1>2 DEF BucketInv
<1>4. HeldInv
    BY <1>2 DEF RateInit, HeldInv, Holding, Free
<1>5. RateTypeOK
    <2>1. total \in Seq(Stamp) /\ lane \in Seq(Stamp)
        BY DEF RateInit
    <2>2. Counters \subseteq Nat
        BY DEF RateInit, Counters
    <2>3. pc \in [Threads -> {"idle", "flight", "stale", "trip", "notify"}]
        BY DEF RateInit
    <2>4. held \in [Threads -> Reservation]
        BY DEF RateInit, Reservation, Free
    <2>5. isEngaged \in BOOLEAN /\ sent \in SUBSET Stamp
        BY DEF RateInit
    <2>6. {totalStreak, rateStreak, misses, lastMiss, missRun, seq, attempts, stops,
           firstRej, lastRej, since} \subseteq Nat
        BY <2>2 DEF Counters
    <2>7. buckets \in Seq(Bucket) /\ current = Len(buckets) /\ current > 0
        BY <1>2
    <2>8. QED
        BY <1>1, <2>1, <2>3, <2>4, <2>5, <2>6, <2>7, Zenon DEF RateTypeOK
<1>6. QED
    BY <1>3, <1>4, <1>5 DEF RateShape

\* A step that leaves the buckets and the reservations alone has little to show.
LEMMA ShapeKept ==
    ASSUME RateShape, UNCHANGED <<buckets, current, held>>, now' \in Nat, now' >= now,
           total' \in Seq(Stamp), lane' \in Seq(Stamp), Counters' \subseteq Nat,
           isEngaged' \in BOOLEAN, sent' \in SUBSET Stamp,
           pc' \in [Threads -> {"idle", "flight", "stale", "trip", "notify"}],
           \A t \in Threads : Holding(t)' => Holding(t)
    PROVE  RateShape'
<1>1. BucketInv'
    BY BucketsKept
<1>2. HeldInv'
    BY DEF RateShape, HeldInv
<1>3. RateTypeOK'
    BY DEF RateShape, RateTypeOK, Counters
<1>4. QED
    BY <1>1, <1>2, <1>3 DEF RateShape

\* The values a step starts from.
LEMMA ShapeOf ==
    ASSUME RateShape
    PROVE  /\ now \in Nat /\ totalStreak \in Nat /\ rateStreak \in Nat /\ misses \in Nat
           /\ lastMiss \in Nat /\ missRun \in Nat /\ seq \in Nat /\ attempts \in Nat
           /\ stops \in Nat /\ firstRej \in Nat /\ lastRej \in Nat /\ since \in Nat
           /\ total \in Seq(Stamp) /\ lane \in Seq(Stamp) /\ sent \in SUBSET Stamp
           /\ isEngaged \in BOOLEAN
           /\ pc \in [Threads -> {"idle", "flight", "stale", "trip", "notify"}]
           /\ held \in [Threads -> Reservation]
<1>1. /\ now \in Nat /\ totalStreak \in Nat /\ rateStreak \in Nat /\ misses \in Nat
      /\ lastMiss \in Nat /\ missRun \in Nat /\ seq \in Nat /\ attempts \in Nat
      /\ stops \in Nat /\ firstRej \in Nat /\ lastRej \in Nat /\ since \in Nat
    BY DEF RateShape, RateTypeOK
<1>2. /\ total \in Seq(Stamp) /\ lane \in Seq(Stamp) /\ sent \in SUBSET Stamp
      /\ isEngaged \in BOOLEAN
      /\ pc \in [Threads -> {"idle", "flight", "stale", "trip", "notify"}]
      /\ held \in [Threads -> Reservation]
    BY DEF RateShape, RateTypeOK
<1>3. QED
    BY <1>1, <1>2

\* The bound bucket is the last, and paying in keeps its account.
LEMMA BucketsOf ==
    ASSUME RateShape
    PROVE  /\ buckets \in Seq(Bucket) /\ current = Len(buckets) /\ current \in 1..Len(buckets)
           /\ Len(buckets) \in Nat
           /\ Refilled(buckets[current]) \in Bucket
           /\ Accounted(Refilled(buckets[current]), now)
<1>1. buckets \in Seq(Bucket) /\ current = Len(buckets) /\ current > 0
    BY DEF RateShape, RateTypeOK
<1>2. current \in 1..Len(buckets) /\ Len(buckets) \in Nat
    BY <1>1
<1>3. now \in Nat /\ buckets[current] \in Bucket
    BY <1>1, <1>2, ShapeOf
<1>4. Accounted(buckets[current], now)
    BY <1>2 DEF RateShape, BucketInv
<1>5. /\ Refilled(buckets[current]) \in Bucket
      /\ Accounted(Refilled(buckets[current]), now)
    BY <1>3, <1>4, RefilledFacts
<1>6. QED
    BY <1>1, <1>2, <1>5

\* A step that moves a reservation or a bucket, on the same clock.
LEMMA ShapeMoved ==
    ASSUME RateShape, now' = now, isEngaged' = isEngaged,
           buckets' \in Seq(Bucket), Len(buckets') >= Len(buckets), current' = Len(buckets'),
           BucketInv', total' \in Seq(Stamp), lane' \in Seq(Stamp), Counters' \subseteq Nat,
           sent' \in SUBSET Stamp,
           pc' \in [Threads -> {"idle", "flight", "stale", "trip", "notify"}],
           held' \in [Threads -> Reservation],
           \A t \in Threads : /\ held'[t].bucket \in 0..Len(buckets')
                              /\ Holding(t)' => held'[t].total \in Stamp
    PROVE  RateShape'
<1>1. current' > 0
    BY BucketsOf
<1>2. RateTypeOK'
    BY <1>1 DEF RateShape, RateTypeOK, Counters
<1>3. HeldInv'
    BY DEF HeldInv
<1>4. QED
    BY <1>2, <1>3 DEF RateShape

\* A call that reserves something holds it afterwards.
LEMMA ReservationMade ==
    ASSUME RateShape, NEW t \in Threads, NEW r \in Reservation, r.total \in Stamp,
           NEW n \in Nat, n >= Len(buckets), r.bucket <= n,
           held' = [held EXCEPT ![t] = r], pc' = [pc EXCEPT ![t] = "flight"]
    PROVE  /\ held' \in [Threads -> Reservation]
           /\ pc' \in [Threads -> {"idle", "flight", "stale", "trip", "notify"}]
           /\ \A u \in Threads : /\ held'[u].bucket \in 0..n
                                 /\ Holding(u)' => held'[u].total \in Stamp
<1>1. /\ held \in [Threads -> Reservation]
      /\ pc \in [Threads -> {"idle", "flight", "stale", "trip", "notify"}]
    BY ShapeOf
<1>2. /\ held' \in [Threads -> Reservation]
      /\ pc' \in [Threads -> {"idle", "flight", "stale", "trip", "notify"}]
    BY <1>1
<1>3. r.bucket \in 0..n
    BY DEF Reservation
<1>4. ASSUME NEW u \in Threads
      PROVE  held'[u].bucket \in 0..n /\ (Holding(u)' => held'[u].total \in Stamp)
    <2>1. Len(buckets) \in Nat
        BY BucketsOf
    <2>2. held[u].bucket \in 0..n /\ (Holding(u) => held[u].total \in Stamp)
        BY <2>1 DEF RateShape, HeldInv
    <2>3. CASE u = t
        BY <1>1, <1>3, <2>3
    <2>4. CASE u # t
        BY <1>1, <2>2, <2>4 DEF Holding
    <2>5. QED
        BY <2>3, <2>4
<1>5. QED
    BY <1>2, <1>4

\* A finished call holds nothing.
LEMMA FinishFacts ==
    ASSUME RateShape, NEW t \in Threads, Finish(t)
    PROVE  /\ held' \in [Threads -> Reservation]
           /\ pc' \in [Threads -> {"idle", "flight", "stale", "trip", "notify"}]
           /\ \A u \in Threads : /\ held'[u].bucket \in 0..Len(buckets)
                                 /\ Holding(u)' => /\ u # t /\ Holding(u)
                                                   /\ held'[u] = held[u]
                                                   /\ pc'[u] = pc[u]
                                 /\ Holding(u)' => held'[u].total \in Stamp
<1>1. /\ held \in [Threads -> Reservation]
      /\ pc \in [Threads -> {"idle", "flight", "stale", "trip", "notify"}]
      /\ Len(buckets) \in Nat
    BY ShapeOf, BucketsOf
<1>2. Free \in Reservation /\ Free.bucket = 0
    BY DEF Free, Reservation
<1>3. /\ held' \in [Threads -> Reservation]
      /\ pc' \in [Threads -> {"idle", "flight", "stale", "trip", "notify"}]
    BY <1>1, <1>2 DEF Finish
<1>4. ASSUME NEW u \in Threads
      PROVE  /\ held'[u].bucket \in 0..Len(buckets)
             /\ Holding(u)' => /\ u # t /\ Holding(u)
                               /\ held'[u] = held[u] /\ pc'[u] = pc[u]
             /\ Holding(u)' => held'[u].total \in Stamp
    <2>1. held[u].bucket \in 0..Len(buckets) /\ (Holding(u) => held[u].total \in Stamp)
        BY DEF RateShape, HeldInv
    <2>2. CASE u = t
        BY <1>1, <1>2, <2>2 DEF Finish, Holding
    <2>3. CASE u # t
        BY <1>1, <2>1, <2>3 DEF Finish, Holding
    <2>4. QED
        BY <2>2, <2>3
<1>5. QED
    BY <1>3, <1>4

\* The type and account of every meter survive every step.
LEMMA RateShapeStep == RateShape /\ [RateNext]_rateVars => RateShape'
<1> SUFFICES ASSUME RateShape, [RateNext]_rateVars PROVE RateShape'
    OBVIOUS
<1> DEFINE Places == {"idle", "flight", "stale", "trip", "notify"}
<1>a. /\ now \in Nat /\ totalStreak \in Nat /\ rateStreak \in Nat /\ misses \in Nat
      /\ lastMiss \in Nat /\ missRun \in Nat /\ seq \in Nat /\ attempts \in Nat
      /\ stops \in Nat /\ firstRej \in Nat /\ lastRej \in Nat /\ since \in Nat
      /\ total \in Seq(Stamp) /\ lane \in Seq(Stamp) /\ sent \in SUBSET Stamp
      /\ isEngaged \in BOOLEAN
      /\ pc \in [Threads -> Places] /\ held \in [Threads -> Reservation]
    BY ShapeOf
<1>b. /\ buckets \in Seq(Bucket) /\ current = Len(buckets) /\ current \in 1..Len(buckets)
      /\ Refilled(buckets[current]) \in Bucket
      /\ Accounted(Refilled(buckets[current]), now)
    BY BucketsOf
<1>c. /\ Pruned(total) \in Seq(Stamp) /\ Pruned(lane) \in Seq(Stamp)
      /\ NewStamp(1) \in Stamp /\ NewStamp(2) \in Stamp
      /\ Append(Pruned(total), NewStamp(1)) \in Seq(Stamp)
      /\ Append(Pruned(lane), NewStamp(2)) \in Seq(Stamp)
    BY WindowTypes
<1>1. ASSUME NEW t \in Threads, WhitelistMiss(t) PROVE RateShape'
    <2>1. UNCHANGED <<now, total, totalStreak, lane, rateStreak, buckets, current, seq,
                      isEngaged, held, stops, sent, firstRej, lastRej, since>>
        BY <1>1 DEF WhitelistMiss, windowVars, rejVars
    <2>2. misses' \in Nat /\ missRun' \in Nat /\ lastMiss' \in Nat /\ attempts' \in Nat
        BY <1>1, <1>a DEF WhitelistMiss, Calling
    <2>3. Counters' \subseteq Nat
        BY <1>a, <2>1, <2>2 DEF Counters
    <2>4. pc' \in [Threads -> Places] /\ \A u \in Threads : Holding(u)' => Holding(u)
        BY <1>1, <1>a DEF WhitelistMiss, Reject, Holding
    <2>5. QED
        BY <1>a, <2>1, <2>3, <2>4, ShapeKept
<1>2. ASSUME NEW t \in Threads, NEW inbound \in BOOLEAN, TotalRefused(t, inbound)
      PROVE  RateShape'
    <2>1. UNCHANGED <<now, lane, rateStreak, misses, lastMiss, missRun, buckets, current, seq,
                      isEngaged, held, stops, sent, firstRej, lastRej>>
        BY <1>2 DEF TotalRefused, missVars
    <2>2. total' = Pruned(total) /\ totalStreak' \in Nat /\ since' \in Nat /\ attempts' \in Nat
        BY <1>2, <1>a DEF TotalRefused, Calling
    <2>3. Counters' \subseteq Nat
        BY <1>a, <2>1, <2>2 DEF Counters
    <2>4. pc' \in [Threads -> Places] /\ \A u \in Threads : Holding(u)' => Holding(u)
        BY <1>2, <1>a DEF TotalRefused, Reject, Holding
    <2>5. QED
        BY <1>a, <1>c, <2>1, <2>2, <2>3, <2>4, ShapeKept
<1>3. ASSUME NEW t \in Threads, SimulationRefused(t) PROVE RateShape'
    <2>1. UNCHANGED <<now, lane, rateStreak, misses, lastMiss, missRun, buckets, current, seq,
                      isEngaged, pc, held, stops, sent, firstRej, lastRej, since>>
        BY <1>3 DEF SimulationRefused, missVars, rejVars
    <2>2. total' = Pruned(total) /\ totalStreak' = 0 /\ attempts' \in Nat
        BY <1>3, <1>a DEF SimulationRefused, Calling
    <2>3. Counters' \subseteq Nat
        BY <1>a, <2>1, <2>2 DEF Counters
    <2>4. \A u \in Threads : Holding(u)' => Holding(u)
        BY <2>1 DEF Holding
    <2>5. QED
        BY <1>a, <1>c, <2>1, <2>2, <2>3, <2>4, ShapeKept
<1>4. ASSUME NEW t \in Threads, EnterEnvelope(t)
      PROVE  /\ UNCHANGED <<now, misses, lastMiss, missRun, current, isEngaged, stops, sent,
                            since>>
             /\ total' \in Seq(Stamp) /\ totalStreak' = 0 /\ attempts' \in Nat
    BY <1>4, <1>a, <1>c DEF EnterEnvelope, Calling, missVars
<1>5. ASSUME NEW t \in Threads, NEW inbound \in BOOLEAN, LaneRefused(t, inbound)
      PROVE  RateShape'
    <2>1. /\ UNCHANGED <<now, misses, lastMiss, missRun, current, isEngaged, stops, sent,
                         since>>
          /\ total' \in Seq(Stamp) /\ totalStreak' = 0 /\ attempts' \in Nat
        BY <1>4, <1>5 DEF LaneRefused
    <2>2. /\ lane' = Pruned(lane) /\ UNCHANGED <<buckets, held>>
          /\ rateStreak' \in Nat /\ firstRej' \in Nat /\ lastRej' \in Nat /\ seq' \in Nat
        BY <1>5, <1>a DEF LaneRefused
    <2>3. Counters' \subseteq Nat
        BY <1>a, <2>1, <2>2 DEF Counters
    <2>4. pc' \in [Threads -> Places] /\ \A u \in Threads : Holding(u)' => Holding(u)
        BY <1>5, <1>a DEF LaneRefused, Reject, Holding
    <2>5. QED
        BY <1>a, <1>c, <2>1, <2>2, <2>3, <2>4, ShapeKept
<1>6. ASSUME NEW t \in Threads, LaneAdmitted(t) PROVE RateShape'
    <2> DEFINE r == [total |-> NewStamp(1), lane |-> NewStamp(2), bucket |-> 0]
    <2>1. /\ UNCHANGED <<now, misses, lastMiss, missRun, current, isEngaged, stops, sent,
                         since>>
          /\ total' \in Seq(Stamp) /\ totalStreak' = 0 /\ attempts' \in Nat
        BY <1>4, <1>6 DEF LaneAdmitted
    <2>2. /\ lane' \in Seq(Stamp) /\ buckets' = buckets
          /\ rateStreak' = 0 /\ firstRej' = 0 /\ lastRej' = 0 /\ seq' \in Nat
        BY <1>6, <1>a, <1>c DEF LaneAdmitted
    <2>3. Counters' \subseteq Nat
        BY <1>a, <2>1, <2>2 DEF Counters
    <2>4. r \in Reservation /\ r.total \in Stamp /\ r.bucket = 0
        BY <1>c DEF Reservation
    <2>5. held' = [held EXCEPT ![t] = r] /\ pc' = [pc EXCEPT ![t] = "flight"]
        BY <1>6 DEF LaneAdmitted
    <2> HIDE DEF r
    <2>6. /\ held' \in [Threads -> Reservation] /\ pc' \in [Threads -> Places]
          /\ \A u \in Threads : /\ held'[u].bucket \in 0..Len(buckets)
                                /\ Holding(u)' => held'[u].total \in Stamp
        <3>1. Len(buckets) \in Nat /\ Len(buckets) >= Len(buckets) /\ r.bucket <= Len(buckets)
            BY <1>b, <2>4
        <3>2. QED
            BY <2>4, <2>5, <3>1, ReservationMade
    <2>7. BucketInv'
        BY <1>a, <2>1, <2>2, BucketsKept
    <2>8. QED
        BY <1>a, <1>b, <2>1, <2>2, <2>3, <2>6, <2>7, ShapeMoved
<1>7. ASSUME NEW t \in Threads, BudgetRefused(t) PROVE RateShape'
    <2>1. /\ UNCHANGED <<now, misses, lastMiss, missRun, current, isEngaged, stops, sent,
                         since>>
          /\ total' \in Seq(Stamp) /\ totalStreak' = 0 /\ attempts' \in Nat
        BY <1>4, <1>7 DEF BudgetRefused
    <2>2. /\ UNCHANGED <<lane, rateStreak, pc, held, firstRej, lastRej>> /\ seq' \in Nat
          /\ buckets' = [buckets EXCEPT ![current] = Refilled(buckets[current])]
        BY <1>7, <1>a DEF BudgetRefused
    <2>3. Counters' \subseteq Nat
        BY <1>a, <2>1, <2>2 DEF Counters
    <2>4. buckets' \in Seq(Bucket) /\ Len(buckets') = Len(buckets) /\ BucketInv'
        BY <1>b, <2>1, <2>2, BucketUpdated
    <2>5. \A u \in Threads : /\ held'[u].bucket \in 0..Len(buckets')
                             /\ Holding(u)' => held'[u].total \in Stamp
        BY <2>2, <2>4 DEF RateShape, HeldInv, Holding
    <2>6. Len(buckets') >= Len(buckets) /\ current' = Len(buckets')
        BY <1>b, <2>1, <2>4
    <2>7. QED
        BY <1>a, <2>1, <2>2, <2>3, <2>4, <2>5, <2>6, ShapeMoved
<1>8. ASSUME NEW t \in Threads, BudgetAdmitted(t) PROVE RateShape'
    <2> DEFINE r == [total |-> NewStamp(1), lane |-> NoStamp, bucket |-> current]
    <2>1. /\ UNCHANGED <<now, misses, lastMiss, missRun, current, isEngaged, stops, sent,
                         since>>
          /\ total' \in Seq(Stamp) /\ totalStreak' = 0 /\ attempts' \in Nat
        BY <1>4, <1>8 DEF BudgetAdmitted
    <2>2. /\ UNCHANGED <<lane, rateStreak, firstRej, lastRej>> /\ seq' \in Nat
          /\ buckets' = [buckets EXCEPT ![current] = Consumed(buckets[current])]
          /\ Refilled(buckets[current]).tokens >= 1
        BY <1>8, <1>a DEF BudgetAdmitted
    <2>3. Counters' \subseteq Nat
        BY <1>a, <2>1, <2>2 DEF Counters
    <2>4. buckets[current] \in Bucket /\ Accounted(buckets[current], now)
        BY <1>b DEF RateShape, BucketInv
    <2>5. Consumed(buckets[current]) \in Bucket /\ Accounted(Consumed(buckets[current]), now)
        BY <1>a, <2>2, <2>4, ConsumedFacts
    <2>6. buckets' \in Seq(Bucket) /\ Len(buckets') = Len(buckets) /\ BucketInv'
        BY <1>b, <2>1, <2>2, <2>5, BucketUpdated
    <2>7. r \in Reservation /\ r.total \in Stamp /\ r.bucket = current
        BY <1>b, <1>c DEF Reservation
    <2>8. held' = [held EXCEPT ![t] = r] /\ pc' = [pc EXCEPT ![t] = "flight"]
        BY <1>8 DEF BudgetAdmitted
    <2> HIDE DEF r
    <2>9. /\ held' \in [Threads -> Reservation] /\ pc' \in [Threads -> Places]
          /\ \A u \in Threads : /\ held'[u].bucket \in 0..Len(buckets)
                                /\ Holding(u)' => held'[u].total \in Stamp
        <3>1. Len(buckets) \in Nat /\ Len(buckets) >= Len(buckets) /\ r.bucket <= Len(buckets)
            BY <1>b, <2>7
        <3>2. QED
            BY <2>7, <2>8, <3>1, ReservationMade
    <2>10. /\ Len(buckets') >= Len(buckets) /\ current' = Len(buckets')
           /\ lane' \in Seq(Stamp) /\ sent' \in SUBSET Stamp
        BY <1>a, <1>b, <2>1, <2>2, <2>6
    <2>11. QED
        BY <2>1, <2>3, <2>6, <2>9, <2>10, ShapeMoved
<1>9. ASSUME NEW t \in Threads, Dispatch(t) PROVE RateShape'
    <2>1. UNCHANGED <<attempts, now, total, totalStreak, lane, rateStreak, misses, lastMiss,
                      missRun, buckets, current, seq, isEngaged, stops, firstRej, lastRej,
                      since>>
        BY <1>9 DEF Dispatch, windowVars, missVars, rejVars
    <2>2. Counters' \subseteq Nat
        BY <1>a, <2>1 DEF Counters
    <2>3. /\ held' \in [Threads -> Reservation] /\ pc' \in [Threads -> Places]
          /\ \A u \in Threads : /\ held'[u].bucket \in 0..Len(buckets)
                                /\ Holding(u)' => held'[u].total \in Stamp
        BY <1>9, FinishFacts DEF Dispatch
    <2>4. sent' \in SUBSET Stamp
        BY <1>9, <1>a DEF Dispatch, RateShape, HeldInv, Holding
    <2>5. BucketInv'
        BY <1>a, <2>1, BucketsKept
    <2>6. /\ Len(buckets') >= Len(buckets) /\ current' = Len(buckets')
          /\ buckets' \in Seq(Bucket) /\ lane' \in Seq(Stamp) /\ total' \in Seq(Stamp)
        BY <1>a, <1>b, <2>1
    <2>7. QED
        BY <2>1, <2>2, <2>3, <2>4, <2>5, <2>6, ShapeMoved
<1>10. ASSUME NEW t \in Threads, RollbackReservation(t) PROVE RateShape'
    <2>1. UNCHANGED <<attempts, now, totalStreak, rateStreak, misses, lastMiss, missRun,
                      current, seq, isEngaged, stops, sent, firstRej, lastRej, since>>
        BY <1>10 DEF RollbackReservation, missVars, rejVars
    <2>2. Counters' \subseteq Nat
        BY <1>a, <2>1 DEF Counters
    <2>3. /\ held' \in [Threads -> Reservation] /\ pc' \in [Threads -> Places]
          /\ \A u \in Threads : /\ held'[u].bucket \in 0..Len(buckets)
                                /\ Holding(u)' => held'[u].total \in Stamp
        BY <1>10, FinishFacts DEF RollbackReservation
    <2>4. total' \in Seq(Stamp) /\ lane' \in Seq(Stamp)
        BY <1>10, WindowTypes DEF RollbackReservation
    <2>5. buckets' \in Seq(Bucket) /\ Len(buckets') = Len(buckets) /\ BucketInv'
        <3>1. CASE held[t].bucket = 0
            <4>1. buckets' = buckets
                BY <1>10, <3>1 DEF RollbackReservation
            <4>2. QED
                BY <1>a, <1>b, <2>1, <4>1, BucketsKept
        <3>2. CASE held[t].bucket # 0
            <4> DEFINE i == held[t].bucket
            <4>1. i \in 1..Len(buckets)
                BY <1>b, <3>2 DEF RateShape, HeldInv
            <4>2. buckets' = [buckets EXCEPT ![i] = Refunded(buckets[i])]
                BY <1>10, <3>2 DEF RollbackReservation
            <4>3. buckets[i] \in Bucket /\ Accounted(buckets[i], now)
                BY <1>b, <4>1 DEF RateShape, BucketInv
            <4> HIDE DEF i
            <4>4. Refunded(buckets[i]) \in Bucket /\ Accounted(Refunded(buckets[i]), now)
                BY <1>a, <4>3, RefundedFacts
            <4>5. QED
                BY <2>1, <4>1, <4>2, <4>4, BucketUpdated
        <3>3. QED
            BY <3>1, <3>2
    <2>6. /\ Len(buckets') >= Len(buckets) /\ current' = Len(buckets') /\ sent' \in SUBSET Stamp
        BY <1>a, <1>b, <2>1, <2>5
    <2>7. QED
        BY <2>1, <2>2, <2>3, <2>4, <2>5, <2>6, ShapeMoved
<1>11. ASSUME NEW t \in Threads, StopPressed(t) PROVE RateShape'
    <2>1. UNCHANGED <<attempts, now, total, totalStreak, lane, rateStreak, misses, lastMiss,
                      missRun, buckets, current, seq, isEngaged, held, stops, sent, firstRej,
                      lastRej, since>>
        BY <1>11 DEF StopPressed, windowVars, missVars, rejVars
    <2>2. pc' \in [Threads -> Places] /\ \A u \in Threads : Holding(u)' => Holding(u)
        BY <1>11, <1>a DEF StopPressed, Holding
    <2>3. Counters' \subseteq Nat
        BY <1>a, <2>1 DEF Counters
    <2>4. QED
        BY <1>a, <2>1, <2>2, <2>3, ShapeKept
<1>12. ASSUME NEW t \in Threads, FireStop(t) PROVE RateShape'
    <2>1. UNCHANGED <<attempts, now, total, totalStreak, lane, rateStreak, misses, lastMiss,
                      missRun, buckets, current, seq, held, sent, firstRej, lastRej, since>>
        BY <1>12 DEF FireStop, windowVars, missVars, rejVars
    <2>2. stops' \in Nat /\ isEngaged' \in BOOLEAN
        BY <1>12, <1>a DEF FireStop
    <2>3. pc' \in [Threads -> Places] /\ \A u \in Threads : Holding(u)' => Holding(u)
        <3>1. pc' = [Fenced(pc) EXCEPT ![t] = "notify"]
            BY <1>12 DEF FireStop
        <3>2. /\ Fenced(pc) \in [Threads -> Places]
              /\ \A u \in Threads : /\ Fenced(pc)[u] # "flight"
                                    /\ Fenced(pc)[u] = "stale" => Holding(u)
            BY FencedFacts
        <3>3. QED
            BY <3>1, <3>2 DEF Holding
    <2>4. Counters' \subseteq Nat
        BY <1>a, <2>1, <2>2 DEF Counters
    <2>5. QED
        BY <1>a, <2>1, <2>2, <2>3, <2>4, ShapeKept
<1>13. ASSUME NEW t \in Threads, OnEstopTriggered(t) PROVE RateShape'
    <2>1. UNCHANGED <<attempts, now, total, totalStreak, buckets, current, seq, isEngaged,
                      held, stops, sent>>
        BY <1>13 DEF OnEstopTriggered
    <2>2. /\ lane' = <<>> /\ rateStreak' = 0 /\ firstRej' = 0 /\ lastRej' = 0
          /\ misses' = 0 /\ lastMiss' = 0 /\ missRun' = 0 /\ since' = 0
        BY <1>13 DEF OnEstopTriggered
    <2>3. pc' \in [Threads -> Places] /\ \A u \in Threads : Holding(u)' => Holding(u)
        BY <1>13, <1>a DEF OnEstopTriggered, Holding
    <2>4. Counters' \subseteq Nat
        BY <1>a, <2>1, <2>2 DEF Counters
    <2>5. QED
        BY <1>a, <2>1, <2>2, <2>3, <2>4, ShapeKept
<1>14. ASSUME Reset PROVE RateShape'
    <2>1. UNCHANGED <<attempts, now, total, totalStreak, lane, rateStreak, misses, lastMiss,
                      missRun, buckets, current, seq, held, stops, sent, firstRej, lastRej,
                      since>>
        BY <1>14 DEF Reset, windowVars, missVars, rejVars
    <2>2. pc' = Fenced(pc) /\ isEngaged' \in BOOLEAN
        BY <1>14 DEF Reset
    <2>3. pc' \in [Threads -> Places] /\ \A u \in Threads : Holding(u)' => Holding(u)
        BY <2>2, FencedFacts DEF Holding
    <2>4. Counters' \subseteq Nat
        BY <1>a, <2>1 DEF Counters
    <2>5. QED
        BY <1>a, <2>1, <2>2, <2>3, <2>4, ShapeKept
<1>15. ASSUME FaultCallback PROVE RateShape'
    <2>1. UNCHANGED <<attempts, now, total, totalStreak, rateStreak, misses, lastMiss, missRun,
                      buckets, current, seq, isEngaged, pc, held, stops, sent, firstRej,
                      lastRej, since>>
        BY <1>15 DEF FaultCallback, missVars, rejVars
    <2>2. lane' = <<>>
        BY <1>15 DEF FaultCallback
    <2>3. Counters' \subseteq Nat /\ \A u \in Threads : Holding(u)' => Holding(u)
        BY <1>a, <2>1 DEF Counters, Holding
    <2>4. QED
        BY <1>a, <2>1, <2>2, <2>3, ShapeKept
<1>16. ASSUME Rebind PROVE RateShape'
    <2>1. UNCHANGED <<attempts, now, seq, isEngaged, held, stops, since>>
        BY <1>16 DEF Rebind
    <2>2. /\ total' = <<>> /\ totalStreak' = 0 /\ lane' = <<>> /\ rateStreak' = 0
          /\ firstRej' = 0 /\ lastRej' = 0 /\ misses' = 0 /\ lastMiss' = 0 /\ missRun' = 0
          /\ sent' = {} /\ current' = current + 1 /\ pc' = Fenced(pc)
          /\ buckets' = Append(buckets, FullBucket)
        BY <1>16 DEF Rebind
    <2>3. Counters' \subseteq Nat
        BY <1>a, <2>1, <2>2 DEF Counters
    <2>4. FullBucket \in Bucket /\ Accounted(FullBucket, now)
        BY <1>a, FullBucketFacts
    <2>5. /\ buckets' \in Seq(Bucket) /\ Len(buckets') = Len(buckets) + 1
          /\ \A i \in 1..Len(buckets) : buckets'[i] = buckets[i]
          /\ buckets'[Len(buckets) + 1] = FullBucket
        BY <1>b, <2>2, <2>4
    <2>6. BucketInv'
        <3> SUFFICES ASSUME NEW i \in 1..Len(buckets) + 1 PROVE Accounted(buckets'[i], now)
            BY <2>1, <2>5 DEF BucketInv
        <3>1. CASE i \in 1..Len(buckets)
            BY <2>5, <3>1 DEF RateShape, BucketInv
        <3>2. CASE i = Len(buckets) + 1
            BY <2>4, <2>5, <3>2
        <3>3. QED
            BY <1>b, <3>1, <3>2
    <2>7. pc' \in [Threads -> Places] /\ \A u \in Threads : Holding(u)' => Holding(u)
        BY <2>2, FencedFacts DEF Holding
    <2>8. \A u \in Threads : /\ held'[u].bucket \in 0..Len(buckets')
                             /\ Holding(u)' => held'[u].total \in Stamp
        BY <1>b, <2>1, <2>5, <2>7 DEF RateShape, HeldInv
    <2>9. QED
        BY <1>a, <1>b, <2>1, <2>2, <2>3, <2>5, <2>6, <2>7, <2>8, ShapeMoved
<1>17. ASSUME Tick PROVE RateShape'
    <2>1. UNCHANGED <<attempts, total, totalStreak, lane, rateStreak, misses, lastMiss,
                      missRun, buckets, current, seq, isEngaged, pc, held, stops, firstRej,
                      lastRej, since>>
        BY <1>17 DEF Tick, windowVars, missVars, rejVars
    <2>2. now' \in Nat /\ now' >= now /\ sent' \in SUBSET Stamp
        BY <1>17, <1>a DEF Tick
    <2>3. Counters' \subseteq Nat /\ \A u \in Threads : Holding(u)' => Holding(u)
        BY <1>a, <2>1 DEF Counters, Holding
    <2>4. QED
        BY <1>a, <2>1, <2>2, <2>3, ShapeKept
<1>18. CASE UNCHANGED rateVars
    <2>1. UNCHANGED <<now, total, totalStreak, lane, rateStreak, misses, lastMiss, missRun,
                      buckets, current, seq, isEngaged, pc, held, attempts, stops, sent,
                      firstRej, lastRej, since>>
        BY <1>18 DEF rateVars, windowVars, missVars, rejVars
    <2>2. Counters' \subseteq Nat /\ \A u \in Threads : Holding(u)' => Holding(u)
        BY <1>a, <2>1 DEF Counters, Holding
    <2>3. QED
        BY <1>a, <2>1, <2>2, ShapeKept
<1>19. QED
    BY <1>1, <1>2, <1>3, <1>5, <1>6, <1>7, <1>8, <1>9, <1>10, <1>11, <1>12, <1>13, <1>14,
       <1>15, <1>16, <1>17, <1>18 DEF RateNext, Call

\* A bucket's account bounds what it has let through, whenever it is asked.
LEMMA ShapeBoundsBuckets == RateShape => BucketBound
<1> SUFFICES ASSUME RateShape, NEW i \in 1..Len(buckets)
             PROVE  buckets[i].spent <= Capacity + (now - buckets[i].born) * Refill
    BY DEF BucketBound
<1> DEFINE b == buckets[i]
<1>1. b \in Bucket /\ now \in Nat /\ Accounted(b, now)
    <2>1. buckets \in Seq(Bucket) /\ now \in Nat
        BY DEF RateShape, RateTypeOK
    <2>2. b \in Bucket
        BY <2>1
    <2>3. Accounted(b, now)
        BY DEF RateShape, BucketInv
    <2>4. QED
        BY <2>1, <2>2, <2>3
<1> HIDE DEF b
<1>2. /\ b.tokens \in Nat /\ b.last \in Nat /\ b.born \in Nat /\ b.spent \in Int
      /\ b.born <= b.last /\ b.last <= now /\ Capacity \in Nat /\ Refill \in Nat
    BY <1>1, RateConstants DEF Bucket, Accounted
<1>3. (now - b.last) * Refill \in Nat /\ (b.last - b.born) * Refill \in Nat
    <2>1. now - b.last \in Nat /\ b.last - b.born \in Nat
        BY <1>1, <1>2
    <2>2. QED
        BY <1>2, <2>1, ProductInNat
<1>4. (now - b.last) * Refill + (b.last - b.born) * Refill = (now - b.born) * Refill
    <2>1. (now - b.last) * Refill + (b.last - b.born) * Refill
              = ((now - b.last) + (b.last - b.born)) * Refill
        BY <1>1, <1>2, Distribute
    <2>2. (now - b.last) + (b.last - b.born) = now - b.born
        BY <1>1, <1>2
    <2>3. QED
        BY <2>1, <2>2
<1>5. b.tokens + b.spent <= Capacity + (b.last - b.born) * Refill
    BY <1>1 DEF Accounted
<1>6. b.spent <= Capacity + (now - b.born) * Refill
    <2> DEFINE late == (now - b.last) * Refill
               early == (b.last - b.born) * Refill
    <2>1. late \in Nat /\ early \in Nat /\ late + early = (now - b.born) * Refill
        BY <1>3, <1>4
    <2> HIDE DEF late, early
    <2>2. b.spent <= Capacity + (late + early)
        <3>1. b.tokens + b.spent <= Capacity + early
            BY <1>5 DEF early
        <3>2. QED
            BY <1>2, <2>1, <3>1
    <2>3. QED
        BY <2>1, <2>2
<1>7. QED
    BY <1>6 DEF b

\* The counter of misses is the run of misses the property counts.
MissInv == misses = missRun /\ MissesLatch

LEMMA MissInit == RateInit => MissInv
BY RateConstants DEF RateInit, MissInv, MissesLatch

\* Some thread that has an E-Stop to engage or to handle still has it.
LEMMA LatchKept ==
    ASSUME MissInv, UNCHANGED <<misses, missRun>>,
           \A t \in Threads : pc[t] \in {"trip", "notify"} => pc'[t] \in {"trip", "notify"}
    PROVE  MissInv'
BY DEF MissInv, MissesLatch

LEMMA MissStep == RateShape /\ MissInv /\ [RateNext]_rateVars => MissInv'
<1> SUFFICES ASSUME RateShape, MissInv, [RateNext]_rateVars PROVE MissInv'
    OBVIOUS
<1>a. /\ pc \in [Threads -> {"idle", "flight", "stale", "trip", "notify"}]
      /\ misses \in Nat /\ missRun \in Nat
    BY ShapeOf
<1>b. MissAfter \in Nat /\ MissAfter > 0
    BY RateConstants
<1>1. ASSUME NEW t \in Threads, WhitelistMiss(t) PROVE MissInv'
    <2>1. misses' = missRun'
        BY <1>1 DEF WhitelistMiss, MissInv
    <2>2. pc[t] = "idle" /\ pc' = [pc EXCEPT ![t] = IF misses' >= MissAfter THEN "trip" ELSE "idle"]
        BY <1>1 DEF WhitelistMiss, Calling, Reject
    <2>3. ASSUME missRun' >= MissAfter PROVE \E u \in Threads : pc'[u] \in {"trip", "notify"}
        <3>1. pc'[t] = "trip"
            BY <1>a, <2>1, <2>2, <2>3
        <3>2. QED
            BY <3>1
    <2>4. QED
        BY <2>1, <2>3 DEF MissInv, MissesLatch
<1>2. ASSUME NEW t \in Threads, NEW inbound \in BOOLEAN, TotalRefused(t, inbound)
      PROVE  MissInv'
    BY <1>2, <1>a, LatchKept DEF TotalRefused, Calling, Reject, missVars
<1>3. ASSUME NEW t \in Threads, NEW inbound \in BOOLEAN, LaneRefused(t, inbound)
      PROVE  MissInv'
    BY <1>3, <1>a, LatchKept DEF LaneRefused, EnterEnvelope, Calling, Reject, missVars
<1>4. ASSUME NEW t \in Threads, SimulationRefused(t) PROVE MissInv'
    BY <1>4, LatchKept DEF SimulationRefused, missVars
<1>5. ASSUME NEW t \in Threads, LaneAdmitted(t) PROVE MissInv'
    BY <1>5, <1>a, LatchKept DEF LaneAdmitted, EnterEnvelope, Calling, missVars
<1>6. ASSUME NEW t \in Threads, BudgetAdmitted(t) PROVE MissInv'
    BY <1>6, <1>a, LatchKept DEF BudgetAdmitted, EnterEnvelope, Calling, missVars
<1>7. ASSUME NEW t \in Threads, BudgetRefused(t) PROVE MissInv'
    BY <1>7, LatchKept DEF BudgetRefused, EnterEnvelope, missVars
<1>8. ASSUME NEW t \in Threads, Dispatch(t) PROVE MissInv'
    BY <1>8, <1>a, LatchKept DEF Dispatch, Finish, missVars
<1>9. ASSUME NEW t \in Threads, RollbackReservation(t) PROVE MissInv'
    BY <1>9, <1>a, LatchKept DEF RollbackReservation, Finish, missVars
<1>10. ASSUME NEW t \in Threads, StopPressed(t) PROVE MissInv'
    BY <1>10, <1>a, LatchKept DEF StopPressed, missVars
<1>11. ASSUME NEW t \in Threads, FireStop(t) PROVE MissInv'
    BY <1>11, <1>a, FencedFacts, LatchKept DEF FireStop, missVars
<1>12. ASSUME NEW t \in Threads, OnEstopTriggered(t) PROVE MissInv'
    BY <1>12, <1>b DEF OnEstopTriggered, MissInv, MissesLatch
<1>13. ASSUME Reset PROVE MissInv'
    BY <1>13, FencedFacts, LatchKept DEF Reset, missVars
<1>14. ASSUME FaultCallback PROVE MissInv'
    BY <1>14, LatchKept DEF FaultCallback, missVars
<1>15. ASSUME Rebind PROVE MissInv'
    BY <1>15, <1>b DEF Rebind, MissInv, MissesLatch
<1>16. ASSUME Tick PROVE MissInv'
    BY <1>16, LatchKept DEF Tick, missVars
<1>17. CASE UNCHANGED rateVars
    BY <1>17, LatchKept DEF rateVars, missVars
<1>18. QED
    BY <1>1, <1>2, <1>3, <1>4, <1>5, <1>6, <1>7, <1>8, <1>9, <1>10, <1>11, <1>12, <1>13,
       <1>14, <1>15, <1>16, <1>17 DEF RateNext, Call

\* Every stamp of the default lane is older than the run of rejections: the
\* run can only go on while the one that fills the window is still in it.
LaneInv ==
    /\ \A x \in ToSet(lane) : x.at <= now
    /\ firstRej <= lastRej /\ lastRej <= now
    /\ rateStreak > 0 => /\ \A x \in ToSet(lane) : x.at <= firstRej
                         /\ lastRej - firstRej < Window

\* The lane loses stamps, or nothing, while the run of rejections stands.
LEMMA LaneShrinks ==
    ASSUME RateShape, LaneInv, ToSet(lane') \subseteq ToSet(lane),
           UNCHANGED <<rateStreak, firstRej, lastRej>>, now' \in Nat, now' >= now
    PROVE  LaneInv'
<1>1. \A x \in ToSet(lane) : x \in Stamp
    <2>1. lane \in Seq(Stamp)
        BY ShapeOf
    <2>2. QED
        BY <2>1 DEF ToSet
<1>2. now \in Nat /\ lastRej \in Nat
    BY ShapeOf
<1>3. \A x \in ToSet(lane') : x.at <= now'
    BY <1>1, <1>2 DEF LaneInv, Stamp
<1>4. lastRej' <= now'
    BY <1>2 DEF LaneInv
<1>5. QED
    BY <1>3, <1>4 DEF LaneInv

\* The run of rejections ends.
LEMMA LaneRestarts ==
    ASSUME RateShape, now' = now, rateStreak' = 0, firstRej' = 0, lastRej' = 0,
           \A x \in ToSet(lane') : x.at <= now
    PROVE  LaneInv'
BY ShapeOf DEF LaneInv

LEMMA EmptySet == ToSet(<<>>) = {}
BY DEF ToSet

LEMMA LaneInit == RateInit => LaneInv
BY EmptySet DEF RateInit, LaneInv

LEMMA LaneStep == RateShape /\ LaneInv /\ [RateNext]_rateVars => LaneInv'
<1> SUFFICES ASSUME RateShape, LaneInv, [RateNext]_rateVars PROVE LaneInv'
    OBVIOUS
<1>a. /\ now \in Nat /\ firstRej \in Nat /\ lastRej \in Nat /\ rateStreak \in Nat
      /\ lane \in Seq(Stamp)
    BY ShapeOf
<1>b. /\ ToSet(Pruned(lane)) \subseteq ToSet(lane) /\ Pruned(lane) \in Seq(Stamp)
      /\ Len(Pruned(lane)) > 0 => \E x \in ToSet(lane) : Recent(x)
    BY <1>a, RateConstants, PrunedFacts
<1>1. ASSUME lane' = lane, UNCHANGED <<now, rateStreak, firstRej, lastRej>> PROVE LaneInv'
    BY <1>1, <1>a, LaneShrinks
<1>2. ASSUME NEW t \in Threads, NEW inbound \in BOOLEAN, LaneRefused(t, inbound)
      PROVE  LaneInv'
    <2>1. /\ now' = now /\ lane' = Pruned(lane) /\ rateStreak' = rateStreak + 1
          /\ firstRej' = (IF rateStreak = 0 THEN now ELSE firstRej) /\ lastRej' = now
          /\ Len(Pruned(lane)) >= MaxRate
        BY <1>2 DEF LaneRefused, EnterEnvelope
    <2>2. \A x \in ToSet(lane') : x.at <= now'
        BY <1>b, <2>1 DEF LaneInv
    <2>3. \A x \in ToSet(lane') : x.at <= firstRej'
        BY <1>a, <1>b, <2>1 DEF LaneInv
    <2>4. firstRej' <= lastRej' /\ lastRej' <= now'
        BY <1>a, <2>1 DEF LaneInv
    <2>5. lastRej' - firstRej' < Window
        <3>1. CASE rateStreak = 0
            BY <1>a, <2>1, <3>1, RateConstants
        <3>2. CASE rateStreak > 0
            <4>1. Len(Pruned(lane)) > 0
                BY <1>b, <2>1, RateConstants
            <4>2. PICK x \in ToSet(lane) : Recent(x)
                BY <1>b, <4>1
            <4>3. x \in Stamp
                BY <1>a DEF ToSet
            <4>4. x.at \in Nat /\ now - x.at < Window
                BY <4>2, <4>3 DEF Recent, Stamp
            <4>5. x.at <= firstRej
                BY <3>2 DEF LaneInv
            <4>6. QED
                BY <1>a, <2>1, <3>2, <4>4, <4>5, RateConstants
        <3>3. QED
            BY <1>a, <3>1, <3>2
    <2>6. QED
        BY <2>2, <2>3, <2>4, <2>5 DEF LaneInv
<1>3. ASSUME NEW t \in Threads, LaneAdmitted(t) PROVE LaneInv'
    <2>1. /\ now' = now /\ lane' = Append(Pruned(lane), NewStamp(2))
          /\ rateStreak' = 0 /\ firstRej' = 0 /\ lastRej' = 0
        BY <1>3 DEF LaneAdmitted, EnterEnvelope
    <2>2. NewStamp(2) \in Stamp /\ NewStamp(2).at = now
        BY WindowTypes DEF NewStamp
    <2>3. ToSet(lane') = ToSet(Pruned(lane)) \cup {NewStamp(2)}
        BY <1>b, <2>1, <2>2, AppendedSet
    <2>4. \A x \in ToSet(lane') : x.at <= now
        BY <1>a, <1>b, <2>2, <2>3 DEF LaneInv
    <2>5. QED
        BY <2>1, <2>4, LaneRestarts
<1>4. ASSUME NEW t \in Threads, WhitelistMiss(t) PROVE LaneInv'
    BY <1>1, <1>4 DEF WhitelistMiss, windowVars, rejVars
<1>5. ASSUME NEW t \in Threads, NEW inbound \in BOOLEAN, TotalRefused(t, inbound)
      PROVE  LaneInv'
    BY <1>1, <1>5 DEF TotalRefused
<1>6. ASSUME NEW t \in Threads, SimulationRefused(t) PROVE LaneInv'
    BY <1>1, <1>6 DEF SimulationRefused, rejVars
<1>7. ASSUME NEW t \in Threads, BudgetAdmitted(t) PROVE LaneInv'
    BY <1>1, <1>7 DEF BudgetAdmitted, EnterEnvelope
<1>8. ASSUME NEW t \in Threads, BudgetRefused(t) PROVE LaneInv'
    BY <1>1, <1>8 DEF BudgetRefused, EnterEnvelope
<1>9. ASSUME NEW t \in Threads, Dispatch(t) PROVE LaneInv'
    BY <1>1, <1>9 DEF Dispatch, windowVars, rejVars
<1>10. ASSUME NEW t \in Threads, RollbackReservation(t) PROVE LaneInv'
    <2>1. /\ now' = now /\ lane' = RemoveFirst(lane, held[t].lane)
          /\ UNCHANGED <<rateStreak, firstRej, lastRej>>
        BY <1>10 DEF RollbackReservation, rejVars
    <2>2. ToSet(lane') \subseteq ToSet(lane)
        BY <1>a, <2>1, RemoveFirstFacts
    <2>3. QED
        BY <1>a, <2>1, <2>2, LaneShrinks
<1>11. ASSUME NEW t \in Threads, StopPressed(t) PROVE LaneInv'
    BY <1>1, <1>11 DEF StopPressed, windowVars, rejVars
<1>12. ASSUME NEW t \in Threads, FireStop(t) PROVE LaneInv'
    BY <1>1, <1>12 DEF FireStop, windowVars, rejVars
<1>13. ASSUME NEW t \in Threads, OnEstopTriggered(t) PROVE LaneInv'
    BY <1>13, EmptySet, LaneRestarts DEF OnEstopTriggered
<1>14. ASSUME Reset PROVE LaneInv'
    BY <1>1, <1>14 DEF Reset, windowVars, rejVars
<1>15. ASSUME FaultCallback PROVE LaneInv'
    <2>1. lane' = <<>> /\ UNCHANGED <<now, rateStreak, firstRej, lastRej>>
        BY <1>15 DEF FaultCallback, rejVars
    <2>2. QED
        BY <1>a, <2>1, EmptySet, LaneShrinks
<1>16. ASSUME Rebind PROVE LaneInv'
    BY <1>16, EmptySet, LaneRestarts DEF Rebind
<1>17. ASSUME Tick PROVE LaneInv'
    <2>1. lane' = lane /\ now' = now + 1 /\ UNCHANGED <<rateStreak, firstRej, lastRej>>
        BY <1>17 DEF Tick, windowVars, rejVars
    <2>2. QED
        BY <1>a, <2>1, LaneShrinks
<1>18. CASE UNCHANGED rateVars
    BY <1>1, <1>18 DEF rateVars, windowVars, rejVars
<1>19. QED
    BY <1>2, <1>3, <1>4, <1>5, <1>6, <1>7, <1>8, <1>9, <1>10, <1>11, <1>12, <1>13, <1>14,
       <1>15, <1>16, <1>17, <1>18 DEF RateNext, Call

\* The stamps of the envelope.  Each frame that was sent in the window or is
\* cleared to be has a stamp of its own in the queue, no two share one, and a
\* frame that is given back has not been sent: taking its stamp out uncovers
\* no other.
StampInv ==
    /\ Len(total) <= MaxTotal
    /\ \A x \in sent : x.seq <= seq /\ (Recent(x) => x \in ToSet(total))
    /\ \A t \in Threads : Holding(t) => /\ held[t].total.seq <= seq
                                        /\ held[t].total \notin sent
    /\ \A t, u \in Threads :
          Holding(t) /\ Holding(u) /\ t # u => held[t].total # held[u].total
    /\ \A t \in Threads :
          pc[t] = "flight" /\ Recent(held[t].total) => held[t].total \in ToSet(total)

\* What the envelope's queue becomes in a call.
LEMMA EnvelopeFacts ==
    ASSUME RateShape, StampInv
    PROVE  /\ Len(Pruned(total)) <= MaxTotal
           /\ \A x \in ToSet(total) : Recent(x) => x \in ToSet(Pruned(total))
           /\ EnvelopeOpen => Len(Append(Pruned(total), NewStamp(1))) <= MaxTotal
           /\ \A x \in ToSet(total) :
                 Recent(x) => x \in ToSet(Append(Pruned(total), NewStamp(1)))
           /\ NewStamp(1) \in ToSet(Append(Pruned(total), NewStamp(1)))
<1>1. /\ now \in Nat /\ total \in Seq(Stamp) /\ Pruned(total) \in Seq(Stamp)
      /\ NewStamp(1) \in Stamp /\ MaxTotal \in Nat
    BY WindowTypes, RateConstants
<1>2. /\ Len(Pruned(total)) <= Len(total)
      /\ \A x \in ToSet(total) : Recent(x) => x \in ToSet(Pruned(total))
    BY <1>1, RateConstants, PrunedFacts
<1>3. Len(Pruned(total)) <= MaxTotal
    <2>1. Len(Pruned(total)) \in Nat /\ Len(total) \in Nat /\ Len(total) <= MaxTotal
        BY <1>1 DEF StampInv
    <2>2. QED
        BY <1>1, <1>2, <2>1
<1>4. ToSet(Append(Pruned(total), NewStamp(1))) = ToSet(Pruned(total)) \cup {NewStamp(1)}
    BY <1>1, AppendedSet
<1>5. EnvelopeOpen => Len(Append(Pruned(total), NewStamp(1))) <= MaxTotal
    <2> DEFINE p == Pruned(total)
    <2>1. p \in Seq(Stamp)
        BY <1>1
    <2> HIDE DEF p
    <2>2. Len(Append(p, NewStamp(1))) = Len(p) + 1 /\ Len(p) \in Nat
        BY <1>1, <2>1
    <2>3. EnvelopeOpen => Len(p) < MaxTotal
        BY DEF EnvelopeOpen, p
    <2>4. EnvelopeOpen => Len(Append(p, NewStamp(1))) <= MaxTotal
        BY <1>1, <2>2, <2>3
    <2>5. QED
        BY <2>4 DEF p
<1>6. QED
    BY <1>2, <1>3, <1>4, <1>5

\* A step that reserves nothing and keeps every recent stamp.
LEMMA StampKept ==
    ASSUME RateShape, StampInv, held' = held, seq' \in Nat, seq' >= seq,
           now' \in Nat, now' >= now, sent' \subseteq sent, Len(total') <= MaxTotal,
           \A x \in ToSet(total) : Recent(x) => x \in ToSet(total'),
           \A t \in Threads : /\ Holding(t)' => Holding(t)
                              /\ pc'[t] = "flight" => pc[t] = "flight"
    PROVE  StampInv'
<1>1. now \in Nat /\ seq \in Nat /\ sent \subseteq Stamp /\ Window \in Nat
    BY ShapeOf, RateConstants
<1>2. \A x \in Stamp : x.at \in Nat /\ x.seq \in Nat
    BY DEF Stamp
<1>3. \A x \in Stamp : Recent(x)' => Recent(x)
    BY <1>1, <1>2 DEF Recent
<1>4. \A x \in sent' : x.seq <= seq' /\ (Recent(x)' => x \in ToSet(total'))
    <2> SUFFICES ASSUME NEW x \in sent' PROVE x.seq <= seq' /\ (Recent(x)' => x \in ToSet(total'))
        OBVIOUS
    <2>1. x \in sent /\ x \in Stamp /\ x.seq \in Nat
        BY <1>1, <1>2
    <2>2. x.seq <= seq /\ (Recent(x) => x \in ToSet(total))
        BY <2>1 DEF StampInv
    <2>3. x.seq <= seq'
        BY <1>1, <2>1, <2>2
    <2>4. QED
        BY <1>3, <2>1, <2>2, <2>3
<1>5. ASSUME NEW t \in Threads, Holding(t)'
      PROVE  held'[t].total.seq <= seq' /\ held'[t].total \notin sent'
    <2>1. Holding(t) /\ held[t].total \in Stamp
        BY <1>5 DEF RateShape, HeldInv
    <2>2. held[t].total.seq <= seq /\ held[t].total \notin sent
        BY <2>1 DEF StampInv
    <2>3. held[t].total.seq \in Nat
        BY <1>2, <2>1
    <2>4. QED
        BY <1>1, <2>2, <2>3
<1>6. \A t, u \in Threads :
         Holding(t)' /\ Holding(u)' /\ t # u => held'[t].total # held'[u].total
    BY DEF StampInv
<1>7. ASSUME NEW t \in Threads, pc'[t] = "flight", now' - held'[t].total.at < Window
      PROVE  held'[t].total \in ToSet(total')
    <2>1. pc[t] = "flight" /\ held'[t] = held[t]
        BY <1>7
    <2>2. held[t].total \in Stamp
        BY <2>1 DEF RateShape, HeldInv, Holding
    <2>3. Recent(held[t].total)
        <3>1. now' - held[t].total.at < Window
            BY <1>7, <2>1
        <3>2. held[t].total.at \in Nat
            BY <1>2, <2>2
        <3>3. QED
            BY <1>1, <3>1, <3>2 DEF Recent
    <2>4. QED
        BY <2>1, <2>3 DEF StampInv
<1>8. Len(total') <= MaxTotal
    OBVIOUS
<1>9. \A t \in Threads : pc'[t] = "flight" /\ now' - held'[t].total.at < Window
                            => held'[t].total \in ToSet(total')
    BY <1>7
<1>10. \A t \in Threads : pc'[t] = "flight" /\ Recent(held[t].total)'
                             => held'[t].total \in ToSet(total')
    BY <1>9 DEF Recent
<1>11. QED
    BY <1>4, <1>5, <1>6, <1>8, <1>10 DEF StampInv

\* A call that the envelope and its lane admit holds the stamp it has made.
LEMMA StampAdmitted ==
    ASSUME RateShape, StampInv, NEW t \in Threads, EnterEnvelope(t), NEW r \in Reservation,
           r.total = NewStamp(1), held' = [held EXCEPT ![t] = r],
           pc' = [pc EXCEPT ![t] = "flight"], seq' \in Nat, seq' >= seq + 1
    PROVE  StampInv'
<1>1. /\ pc[t] = "idle" /\ EnvelopeOpen /\ total' = Append(Pruned(total), NewStamp(1))
      /\ now' = now /\ sent' = sent
    BY DEF EnterEnvelope, Calling
<1>2. /\ now \in Nat /\ seq \in Nat /\ sent \subseteq Stamp /\ held \in [Threads -> Reservation]
      /\ pc \in [Threads -> {"idle", "flight", "stale", "trip", "notify"}]
    BY ShapeOf
<1>3. NewStamp(1).seq = seq + 1 /\ \A x \in Stamp : x.seq \in Nat
    BY DEF NewStamp, Stamp
<1>4. \A x \in Stamp : Recent(x)' <=> Recent(x)
    BY <1>1 DEF Recent
<1>5. /\ Len(total') <= MaxTotal /\ NewStamp(1) \in ToSet(total')
      /\ \A x \in ToSet(total) : Recent(x) => x \in ToSet(total')
    BY <1>1, EnvelopeFacts
<1>6. held'[t].total = NewStamp(1) /\ pc'[t] = "flight" /\ ~Holding(t)
    BY <1>1, <1>2 DEF Holding
<1>7. ASSUME NEW u \in Threads, u # t
      PROVE  held'[u] = held[u] /\ pc'[u] = pc[u] /\ (Holding(u)' <=> Holding(u))
    BY <1>2, <1>7 DEF Holding
<1>8. ASSUME NEW u \in Threads, Holding(u)
      PROVE  /\ held[u].total \in Stamp /\ held[u].total.seq \in Nat
             /\ held[u].total.seq <= seq /\ held[u].total \notin sent
             /\ held[u].total # NewStamp(1)
    <2>1. held[u].total \in Stamp /\ held[u].total.seq <= seq /\ held[u].total \notin sent
        BY <1>8 DEF StampInv, RateShape, HeldInv
    <2>2. QED
        BY <1>2, <1>3, <2>1
<1>9. \A x \in sent' : x.seq <= seq' /\ (Recent(x)' => x \in ToSet(total'))
    <2> SUFFICES ASSUME NEW x \in sent PROVE x.seq <= seq' /\ (Recent(x)' => x \in ToSet(total'))
        BY <1>1
    <2>1. x \in Stamp /\ x.seq \in Nat /\ x.seq <= seq /\ (Recent(x) => x \in ToSet(total))
        BY <1>2, <1>3 DEF StampInv
    <2>2. x.seq <= seq'
        BY <1>2, <2>1
    <2>3. QED
        BY <1>4, <1>5, <2>1, <2>2
<1>10. ASSUME NEW u \in Threads, Holding(u)'
       PROVE  held'[u].total.seq <= seq' /\ held'[u].total \notin sent'
    <2>1. CASE u = t
        <3>1. \A x \in sent : x.seq <= seq /\ x.seq \in Nat
            BY <1>2, <1>3 DEF StampInv
        <3>2. NewStamp(1) \notin sent
            BY <1>2, <1>3, <3>1
        <3>3. QED
            BY <1>1, <1>2, <1>3, <1>6, <2>1, <3>2
    <2>2. CASE u # t
        <3>1. Holding(u) /\ held'[u] = held[u]
            BY <1>7, <1>10, <2>2
        <3>2. QED
            BY <1>1, <1>2, <1>8, <3>1
    <2>3. QED
        BY <2>1, <2>2
<1>11. ASSUME NEW u \in Threads, NEW v \in Threads, Holding(u)', Holding(v)', u # v
       PROVE  held'[u].total # held'[v].total
    <2>1. CASE u = t
        BY <1>6, <1>7, <1>8, <1>11, <2>1
    <2>2. CASE v = t
        BY <1>6, <1>7, <1>8, <1>11, <2>2
    <2>3. CASE u # t /\ v # t
        <3>1. /\ Holding(u) /\ held'[u] = held[u]
              /\ Holding(v) /\ held'[v] = held[v]
            BY <1>7, <1>11, <2>3
        <3>2. QED
            BY <1>11, <3>1 DEF StampInv
    <2>4. QED
        BY <2>1, <2>2, <2>3
<1>12. ASSUME NEW u \in Threads, pc'[u] = "flight", Recent(held[u].total)'
       PROVE  held'[u].total \in ToSet(total')
    <2>1. CASE u = t
        BY <1>5, <1>6, <2>1
    <2>2. CASE u # t
        <3>1. pc[u] = "flight" /\ held'[u] = held[u]
            BY <1>7, <1>12, <2>2
        <3>2. Recent(held[u].total)
            BY <1>1, <1>12, <3>1 DEF Recent
        <3>3. held[u].total \in ToSet(total)
            BY <3>1, <3>2 DEF StampInv
        <3>4. QED
            BY <1>5, <3>1, <3>2, <3>3
    <2>3. QED
        BY <2>1, <2>2
<1>13. QED
    BY <1>5, <1>9, <1>10, <1>11, <1>12 DEF StampInv

\* A frame goes out: its stamp was there for it as long as it was in flight.
LEMMA StampDispatched ==
    ASSUME RateShape, StampInv, NEW t \in Threads, Dispatch(t)
    PROVE  StampInv'
<1>1. /\ pc[t] = "flight" /\ sent' = sent \cup {held[t].total} /\ Finish(t)
      /\ UNCHANGED <<now, total, seq>>
    BY DEF Dispatch, windowVars
<1>2. Holding(t)
    BY <1>1 DEF Holding
<1>3. \A u \in Threads : Holding(u)' => /\ u # t /\ Holding(u)
                                        /\ held'[u] = held[u] /\ pc'[u] = pc[u]
    BY <1>1, FinishFacts
<1>4. \A x \in sent' : x.seq <= seq' /\ (Recent(x)' => x \in ToSet(total'))
    <2>1. /\ held[t].total.seq <= seq
          /\ Recent(held[t].total) => held[t].total \in ToSet(total)
        BY <1>1, <1>2 DEF StampInv
    <2>2. \A x \in sent : x.seq <= seq /\ (Recent(x) => x \in ToSet(total))
        BY DEF StampInv
    <2>3. \A x \in sent' : x.seq <= seq /\ (Recent(x) => x \in ToSet(total))
        BY <1>1, <2>1, <2>2
    <2>4. QED
        BY <1>1, <2>3 DEF Recent
<1>5. \A u \in Threads : Holding(u)' => /\ held'[u].total.seq <= seq'
                                        /\ held'[u].total \notin sent'
    BY <1>1, <1>2, <1>3 DEF StampInv
<1>6. \A u, v \in Threads :
         Holding(u)' /\ Holding(v)' /\ u # v => held'[u].total # held'[v].total
    BY <1>3 DEF StampInv
<1>7. ASSUME NEW u \in Threads, pc'[u] = "flight", Recent(held[u].total)'
      PROVE  held'[u].total \in ToSet(total')
    <2>1. Holding(u)'
        BY <1>7 DEF Holding
    <2>2. pc[u] = "flight" /\ held'[u] = held[u]
        BY <1>3, <1>7, <2>1
    <2>3. Recent(held[u].total)
        BY <1>1, <1>7, <2>2 DEF Recent
    <2>4. QED
        BY <1>1, <2>2, <2>3 DEF StampInv
<1>8. Len(total') <= MaxTotal
    BY <1>1 DEF StampInv
<1>9. QED
    BY <1>4, <1>5, <1>6, <1>7, <1>8 DEF StampInv

\* A reservation is given back: the stamp that goes belongs to no other frame.
LEMMA StampRolledBack ==
    ASSUME RateShape, StampInv, NEW t \in Threads, RollbackReservation(t)
    PROVE  StampInv'
<1>1. /\ Holding(t) /\ total' = RemoveFirst(total, held[t].total) /\ Finish(t)
      /\ UNCHANGED <<now, seq, sent>>
    BY DEF RollbackReservation, Holding
<1>2. total \in Seq(Stamp) /\ MaxTotal \in Nat /\ Len(total) <= MaxTotal
    BY ShapeOf, RateConstants DEF StampInv
<1>3. /\ total' \in Seq(Stamp) /\ Len(total') <= Len(total)
      /\ \A x \in ToSet(total) : x # held[t].total => x \in ToSet(total')
    BY <1>1, <1>2, RemoveFirstFacts
<1>4. Len(total') <= MaxTotal
    <2>1. Len(total') \in Nat /\ Len(total) \in Nat
        BY <1>2, <1>3
    <2>2. QED
        BY <1>2, <1>3, <2>1
<1>5. \A u \in Threads : Holding(u)' => /\ u # t /\ Holding(u)
                                        /\ held'[u] = held[u] /\ pc'[u] = pc[u]
    BY <1>1, FinishFacts
<1>6. held[t].total \notin sent
    BY <1>1 DEF StampInv
<1>7. \A x \in sent' : x.seq <= seq' /\ (Recent(x)' => x \in ToSet(total'))
    <2>1. \A x \in sent : x.seq <= seq /\ (Recent(x) => x \in ToSet(total)) /\ x # held[t].total
        BY <1>6 DEF StampInv
    <2>2. \A x \in sent : x.seq <= seq /\ (Recent(x) => x \in ToSet(total'))
        BY <1>3, <2>1
    <2>3. QED
        BY <1>1, <2>2 DEF Recent
<1>8. \A u \in Threads : Holding(u)' => /\ held'[u].total.seq <= seq'
                                        /\ held'[u].total \notin sent'
    BY <1>1, <1>5 DEF StampInv
<1>9. \A u, v \in Threads :
         Holding(u)' /\ Holding(v)' /\ u # v => held'[u].total # held'[v].total
    BY <1>5 DEF StampInv
<1>10. ASSUME NEW u \in Threads, pc'[u] = "flight", Recent(held[u].total)'
       PROVE  held'[u].total \in ToSet(total')
    <2>1. Holding(u)'
        BY <1>10 DEF Holding
    <2>2. pc[u] = "flight" /\ held'[u] = held[u] /\ u # t /\ Holding(u)
        BY <1>5, <1>10, <2>1
    <2>3. Recent(held[u].total)
        BY <1>1, <1>10, <2>2 DEF Recent
    <2>4. held[u].total \in ToSet(total) /\ held[u].total # held[t].total
        BY <1>1, <2>2, <2>3 DEF StampInv
    <2>5. QED
        BY <1>3, <2>2, <2>4
<1>11. QED
    BY <1>4, <1>7, <1>8, <1>9, <1>10 DEF StampInv

\* A rebind starts a queue for a channel on which nothing is in flight.
LEMMA StampRebound ==
    ASSUME RateShape, StampInv, Rebind
    PROVE  StampInv'
<1>1. total' = <<>> /\ sent' = {} /\ pc' = Fenced(pc) /\ UNCHANGED <<held, seq>>
    BY DEF Rebind
<1>2. \A t \in Threads : pc'[t] # "flight" /\ (Holding(t)' => Holding(t))
    BY <1>1, FencedFacts DEF Holding
<1>3. Len(total') <= MaxTotal
    BY <1>1, RateConstants
<1>4. \A t \in Threads : Holding(t)' => /\ held'[t].total.seq <= seq'
                                        /\ held'[t].total \notin sent'
    BY <1>1, <1>2 DEF StampInv
<1>5. \A t, u \in Threads :
         Holding(t)' /\ Holding(u)' /\ t # u => held'[t].total # held'[u].total
    BY <1>1, <1>2 DEF StampInv
<1>6. QED
    BY <1>1, <1>2, <1>3, <1>4, <1>5 DEF StampInv

LEMMA StampInit == RateInit => StampInv
BY RateConstants, EmptySet DEF RateInit, StampInv, Holding

LEMMA StampStep == RateShape /\ StampInv /\ [RateNext]_rateVars => StampInv'
<1> SUFFICES ASSUME RateShape, StampInv, [RateNext]_rateVars PROVE StampInv'
    OBVIOUS
<1>a. /\ now \in Nat /\ seq \in Nat
      /\ pc \in [Threads -> {"idle", "flight", "stale", "trip", "notify"}]
    BY ShapeOf
<1> DEFINE Quiet == \A t \in Threads : /\ Holding(t)' => Holding(t)
                                       /\ pc'[t] = "flight" => pc[t] = "flight"
\* A step that leaves the envelope's queue alone, or prunes or extends it.
<1>1. ASSUME UNCHANGED <<now, total, held, seq, sent>>, Quiet PROVE StampInv'
    BY <1>1, <1>a, StampKept DEF StampInv
<1>2. ASSUME total' = Pruned(total), UNCHANGED <<now, held, seq, sent>>, Quiet PROVE StampInv'
    BY <1>2, <1>a, EnvelopeFacts, StampKept
<1>3. ASSUME NEW t \in Threads, EnterEnvelope(t), held' = held, seq' = seq + 1, Quiet
      PROVE  StampInv'
    <2>1. /\ EnvelopeOpen /\ total' = Append(Pruned(total), NewStamp(1))
          /\ now' = now /\ sent' = sent
        BY <1>3 DEF EnterEnvelope
    <2>2. seq' \in Nat /\ seq' >= seq
        BY <1>3, <1>a
    <2>3. /\ Len(total') <= MaxTotal
          /\ \A x \in ToSet(total) : Recent(x) => x \in ToSet(total')
        BY <2>1, EnvelopeFacts
    <2>4. QED
        BY <1>3, <1>a, <2>1, <2>2, <2>3, StampKept
<1>4. ASSUME NEW t \in Threads, NEW trips \in BOOLEAN, Calling(t), Reject(t, trips)
      PROVE  Quiet
    BY <1>4, <1>a DEF Calling, Reject, Holding
<1>5. ASSUME pc' = pc PROVE Quiet
    BY <1>5 DEF Holding
<1> HIDE DEF Quiet
<1>6. ASSUME NEW t \in Threads, WhitelistMiss(t) PROVE StampInv'
    <2>1. Calling(t) /\ Reject(t, misses' >= MissAfter) /\ (misses' >= MissAfter) \in BOOLEAN
        BY <1>6 DEF WhitelistMiss
    <2>2. UNCHANGED <<now, total, held, seq, sent>>
        BY <1>6 DEF WhitelistMiss, windowVars
    <2>3. QED
        BY <1>1, <1>4, <2>1, <2>2
<1>7. ASSUME NEW t \in Threads, NEW inbound \in BOOLEAN, TotalRefused(t, inbound)
      PROVE  StampInv'
    <2> DEFINE trips == totalStreak' >= EstopAfter /\ ~inbound
    <2>1. Calling(t) /\ Reject(t, trips) /\ trips \in BOOLEAN
        BY <1>7 DEF TotalRefused
    <2>2. total' = Pruned(total) /\ UNCHANGED <<now, held, seq, sent>>
        BY <1>7 DEF TotalRefused
    <2> HIDE DEF trips
    <2>3. QED
        BY <1>2, <1>4, <2>1, <2>2
<1>8. ASSUME NEW t \in Threads, SimulationRefused(t) PROVE StampInv'
    <2>1. total' = Pruned(total) /\ UNCHANGED <<now, held, seq, sent, pc>>
        BY <1>8 DEF SimulationRefused
    <2>2. QED
        BY <1>2, <1>5, <2>1
<1>9. ASSUME NEW t \in Threads, NEW inbound \in BOOLEAN, LaneRefused(t, inbound)
      PROVE  StampInv'
    <2> DEFINE trips == rateStreak' >= EstopAfter /\ ~inbound
    <2>1. EnterEnvelope(t) /\ Reject(t, trips) /\ trips \in BOOLEAN /\ held' = held
          /\ seq' = seq + 1
        BY <1>9 DEF LaneRefused
    <2>2. Calling(t)
        BY <2>1 DEF EnterEnvelope
    <2> HIDE DEF trips
    <2>3. QED
        BY <1>3, <1>4, <2>1, <2>2
<1>10. ASSUME NEW t \in Threads, LaneAdmitted(t) PROVE StampInv'
    <2> DEFINE r == [total |-> NewStamp(1), lane |-> NewStamp(2), bucket |-> 0]
    <2>1. /\ EnterEnvelope(t) /\ seq' = seq + 2
          /\ held' = [held EXCEPT ![t] = r] /\ pc' = [pc EXCEPT ![t] = "flight"]
        BY <1>10 DEF LaneAdmitted
    <2>2. r \in Reservation /\ r.total = NewStamp(1)
        BY WindowTypes DEF Reservation
    <2>3. seq' \in Nat /\ seq' >= seq + 1
        BY <1>a, <2>1
    <2> HIDE DEF r
    <2>4. QED
        BY <2>1, <2>2, <2>3, StampAdmitted
<1>11. ASSUME NEW t \in Threads, BudgetRefused(t) PROVE StampInv'
    <2>1. EnterEnvelope(t) /\ seq' = seq + 1 /\ held' = held /\ pc' = pc
        BY <1>11 DEF BudgetRefused
    <2>2. QED
        BY <1>3, <1>5, <2>1
<1>12. ASSUME NEW t \in Threads, BudgetAdmitted(t) PROVE StampInv'
    <2> DEFINE r == [total |-> NewStamp(1), lane |-> NoStamp, bucket |-> current]
    <2>1. /\ EnterEnvelope(t) /\ seq' = seq + 1
          /\ held' = [held EXCEPT ![t] = r] /\ pc' = [pc EXCEPT ![t] = "flight"]
        BY <1>12 DEF BudgetAdmitted
    <2>2. r \in Reservation /\ r.total = NewStamp(1)
        BY WindowTypes, BucketsOf DEF Reservation
    <2>3. seq' \in Nat /\ seq' >= seq + 1
        BY <1>a, <2>1
    <2> HIDE DEF r
    <2>4. QED
        BY <2>1, <2>2, <2>3, StampAdmitted
<1>13. ASSUME NEW t \in Threads, Dispatch(t) PROVE StampInv'
    BY <1>13, StampDispatched
<1>14. ASSUME NEW t \in Threads, RollbackReservation(t) PROVE StampInv'
    BY <1>14, StampRolledBack
<1>15. ASSUME NEW t \in Threads, StopPressed(t) PROVE StampInv'
    <2>1. UNCHANGED <<now, total, held, seq, sent>>
        BY <1>15 DEF StopPressed, windowVars
    <2>2. Quiet
        BY <1>15, <1>a DEF StopPressed, Quiet, Holding
    <2>3. QED
        BY <1>1, <2>1, <2>2
<1>16. ASSUME NEW t \in Threads, FireStop(t) PROVE StampInv'
    <2>1. UNCHANGED <<now, total, held, seq, sent>> /\ pc' = [Fenced(pc) EXCEPT ![t] = "notify"]
        BY <1>16 DEF FireStop, windowVars
    <2>2. Quiet
        BY <2>1, FencedFacts DEF Quiet, Holding
    <2>3. QED
        BY <1>1, <2>1, <2>2
<1>17. ASSUME NEW t \in Threads, OnEstopTriggered(t) PROVE StampInv'
    <2>1. UNCHANGED <<now, total, held, seq, sent>>
        BY <1>17 DEF OnEstopTriggered
    <2>2. Quiet
        BY <1>17, <1>a DEF OnEstopTriggered, Quiet, Holding
    <2>3. QED
        BY <1>1, <2>1, <2>2
<1>18. ASSUME Reset PROVE StampInv'
    <2>1. UNCHANGED <<now, total, held, seq, sent>> /\ pc' = Fenced(pc)
        BY <1>18 DEF Reset, windowVars
    <2>2. Quiet
        BY <2>1, FencedFacts DEF Quiet, Holding
    <2>3. QED
        BY <1>1, <2>1, <2>2
<1>19. ASSUME FaultCallback PROVE StampInv'
    <2>1. UNCHANGED <<now, total, held, seq, sent, pc>>
        BY <1>19 DEF FaultCallback
    <2>2. QED
        BY <1>1, <1>5, <2>1
<1>20. ASSUME Rebind PROVE StampInv'
    BY <1>20, StampRebound
<1>21. ASSUME Tick PROVE StampInv'
    <2>1. /\ UNCHANGED <<total, held, seq, pc>> /\ sent' \subseteq sent
          /\ now' \in Nat /\ now' >= now
        BY <1>21, <1>a DEF Tick, windowVars
    <2>2. Len(total') <= MaxTotal /\ \A x \in ToSet(total) : Recent(x) => x \in ToSet(total')
        BY <2>1 DEF StampInv
    <2>3. QED
        BY <1>5, <1>a, <2>1, <2>2, StampKept DEF Quiet
<1>22. CASE UNCHANGED rateVars
    <2>1. UNCHANGED <<now, total, held, seq, sent, pc>>
        BY <1>22 DEF rateVars, windowVars
    <2>2. QED
        BY <1>1, <1>5, <2>1
<1>23. QED
    BY <1>6, <1>7, <1>8, <1>9, <1>10, <1>11, <1>12, <1>13, <1>14, <1>15, <1>16, <1>17,
       <1>18, <1>19, <1>20, <1>21, <1>22 DEF RateNext, Call

\* The queue of the envelope holds every stamp the bound counts.
LEMMA StampsBoundEnvelope == RateShape /\ StampInv => EnvelopeBound
<1> SUFFICES ASSUME RateShape, StampInv PROVE EnvelopeBound
    OBVIOUS
<1> DEFINE Counted == {x \in sent \cup {held[t].total : t \in Cleared} : Recent(x)}
<1>1. Counted \subseteq ToSet(total)
    BY DEF StampInv, Cleared
<1>2. total \in Seq(Stamp) /\ Len(total) <= MaxTotal /\ MaxTotal \in Nat
    BY ShapeOf, RateConstants DEF StampInv
<1>3. IsFiniteSet(ToSet(total)) /\ Cardinality(ToSet(total)) <= Len(total)
    BY <1>2, ValuesOf
<1>4. IsFiniteSet(Counted) /\ Cardinality(Counted) <= Cardinality(ToSet(total))
    BY <1>1, <1>3, FS_Subset
<1>5. Cardinality(Counted) \in Nat /\ Cardinality(ToSet(total)) \in Nat /\ Len(total) \in Nat
    BY <1>2, <1>3, <1>4, FS_CardinalityType
<1> HIDE DEF Counted
<1>6. Cardinality(Counted) <= MaxTotal
    BY <1>2, <1>3, <1>4, <1>5
<1>7. QED
    BY <1>6 DEF EnvelopeBound, Counted

RateInv == RateShape /\ MissInv /\ LaneInv /\ StampInv

\* The inductive invariant of the rate limits holds in every reachable state.
THEOREM RateInvariant == RateSpec => []RateInv
<1>1. RateInit => RateInv
    BY RateShapeInit, MissInit, LaneInit, StampInit DEF RateInv
<1>2. RateInv /\ [RateNext]_rateVars => RateInv'
    BY RateShapeStep, MissStep, LaneStep, StampStep DEF RateInv
<1>3. QED
    BY <1>1, <1>2, PTL DEF RateSpec

\* However rollbacks, stops and rebinds interleave, the frames sent or cleared
\* within a window never exceed the aggregate ceiling.
THEOREM EnvelopeHolds == RateSpec => []EnvelopeBound
<1>1. RateInv => EnvelopeBound
    BY StampsBoundEnvelope DEF RateInv
<1>2. QED
    BY <1>1, RateInvariant, PTL

\* What a bucket has let through stays within its burst and its refill,
\* whichever bucket a late rollback refunds.
THEOREM BucketsHold == RateSpec => []BucketBound
<1>1. RateInv => BucketBound
    BY ShapeBoundsBuckets DEF RateInv
<1>2. QED
    BY <1>1, RateInvariant, PTL

\* A run of default-lane rejections falls into one window.
THEOREM StreaksAreBursts == RateSpec => []StreakInOneWindow
<1>1. RateInv => StreakInOneWindow
    BY DEF RateInv, LaneInv, StreakInOneWindow
<1>2. QED
    BY <1>1, RateInvariant, PTL

\* Enough whitelist misses without a silent window have an E-Stop on its way.
THEOREM MissesAreLatched == RateSpec => []MissesLatch
<1>1. RateInv => MissesLatch
    BY DEF RateInv, MissInv
<1>2. QED
    BY <1>1, RateInvariant, PTL
=============================================================================
