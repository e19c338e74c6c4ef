--------------------------- MODULE WatchdogProofs ---------------------------
(***************************************************************************)
(* Watchdog for every number of callers and monitors, every timeout and    *)
(* with crashes and suspends: one monitor at a time, no valid lease        *)
(* without it, and no lease that outlasts the last authenticated pulse.    *)
(***************************************************************************)
EXTENDS Watchdog, TLAPS

\* The two caps keep a lease's age and its wall-clock gap in their ranges.
LEMMA CappedTyped ==
    ASSUME NEW n \in Nat, NEW cap \in Nat
    PROVE  Capped(n, cap) \in 0..cap /\ (n <= cap => Capped(n, cap) = n)
    BY DEF Capped

\* A fault leaves the supervisor's part of the state well typed.
LEMMA FaultTyped ==
    ASSUME TypeOK, Fault
    PROVE  permitted' \in BOOLEAN /\ pushes' \in 0..MaxPushes /\ arms' \in 0..MaxArms
    <1>1. pushes + 1 \in Nat /\ MaxPushes \in Nat
        BY WatchdogAssumption DEF TypeOK
    <1>2. Capped(pushes + 1, MaxPushes) \in 0..MaxPushes
        BY <1>1, CappedTyped
    <1> QED
        BY <1>2 DEF Fault, TypeOK

\* A refreshed lease is well typed.
LEMMA AnchorTyped ==
    ASSUME Anchor
    PROVE  age' \in 0..AgeCap /\ gap' \in 0..GapCap /\ pulse' \in 0..AgeCap
    BY WatchdogAssumption DEF Anchor, AgeCap, GapCap

\* Every reachable state of the watchdog is well typed: start(), stop(), the
\* monitor, the callbacks and the teardown hook only move between the places
\* the code has.
THEOREM TypeCorrect == Spec => []TypeOK
<1>1. Init => TypeOK
    <2> SUFFICES ASSUME Init PROVE TypeOK
        OBVIOUS
    <2>1. /\ age \in 0..AgeCap /\ gap \in 0..GapCap /\ pulse \in 0..AgeCap
          /\ thread \in 0..MaxMonitors /\ pushes \in 0..MaxPushes /\ arms \in 0..MaxArms
        BY WatchdogAssumption DEF Init, AgeCap, GapCap
    <2>2. /\ tokenSet \in BOOLEAN /\ running \in BOOLEAN /\ startedOnce \in BOOLEAN
          /\ event \in BOOLEAN /\ permitted \in BOOLEAN /\ engaged \in BOOLEAN
        BY DEF Init
    <2> QED
        BY <2>1, <2>2 DEF Init, TypeOK
<1>2. TypeOK /\ [Next]_vars => TypeOK'
    <2> SUFFICES ASSUME TypeOK, [Next]_vars PROVE TypeOK'
        OBVIOUS
    <2> USE WatchdogAssumption DEF AgeCap, GapCap, stopVars
    <2>1. CASE ArmHeartbeatToken
        BY <2>1 DEF ArmHeartbeatToken, TypeOK, lease, thrVars, supVars
    <2>2. CASE Heartbeat
        BY <2>2, AnchorTyped DEF Heartbeat, TypeOK, thrVars, supVars
    <2>3. CASE AnchorLeaseForArm
        BY <2>3, AnchorTyped DEF AnchorLeaseForArm, TypeOK, thrVars, supVars
    <2>4. CASE Invalidate
        BY <2>4 DEF Invalidate, TypeOK, thrVars
    <2>5. CASE Tick
        <3>1. Capped(age + 1, AgeCap) \in 0..AgeCap /\ Capped(pulse + 1, AgeCap) \in 0..AgeCap
            BY DEF TypeOK, Capped
        <3> QED
            BY <2>5, <3>1 DEF Tick, TypeOK, thrVars, supVars
    <2>6. CASE Suspend
        BY <2>6 DEF Suspend, TypeOK, thrVars, supVars
    <2>7. CASE Arm
        BY <2>7 DEF Arm, TypeOK, lease, thrVars
    <2>8. CASE Disarm
        BY <2>8, FaultTyped DEF Disarm, TypeOK, lease, thrVars
    <2>9. CASE ResetEStop
        BY <2>9 DEF ResetEStop, TypeOK, lease, thrVars
    <2>10. ASSUME NEW c \in Callers, Start(c) PROVE TypeOK'
        <3>1. thread + 1 \in 0..MaxMonitors
            BY <2>10 DEF Start, TypeOK
        <3>2. age' \in 0..AgeCap /\ gap' \in 0..GapCap /\ pulse' \in 0..AgeCap
            BY <2>10, AnchorTyped DEF Start, TypeOK, lease
        <3> QED
            BY <2>10, <3>1, <3>2 DEF Start, TypeOK, supVars
    <2>11. ASSUME NEW c \in Callers, StopClear(c) PROVE TypeOK'
        BY <2>11 DEF StopClear, TypeOK, lease, supVars
    <2>12. ASSUME NEW c \in Callers, StopSet(c) PROVE TypeOK'
        BY <2>12 DEF StopSet, TypeOK, lease, supVars
    <2>13. ASSUME NEW c \in Callers, StopLook(c) PROVE TypeOK'
        BY <2>13 DEF StopLook, TypeOK, lease, thrVars, supVars
    <2>14. ASSUME NEW c \in Callers, StopJoin(c) PROVE TypeOK'
        BY <2>14 DEF StopJoin, TypeOK, lease, thrVars, supVars
    <2>15. ASSUME NEW c \in Callers, StopFault(c) PROVE TypeOK'
        BY <2>15, FaultTyped DEF StopFault, TypeOK, lease, thrVars
    <2>16. ASSUME NEW c \in Callers, StopEstop(c) PROVE TypeOK'
        BY <2>16 DEF StopEstop, TypeOK, lease, thrVars
    <2>17. ASSUME NEW m \in Monitors, MonitorTop(m) PROVE TypeOK'
        BY <2>17 DEF MonitorTop, Move, TypeOK, lease, supVars
    <2>18. ASSUME NEW m \in Monitors, MonitorCheck(m) PROVE TypeOK'
        BY <2>18 DEF MonitorCheck, Move, TypeOK, lease, supVars
    <2>19. ASSUME NEW m \in Monitors, MonitorFault(m) PROVE TypeOK'
        BY <2>19, FaultTyped DEF MonitorFault, Move, TypeOK, lease
    <2>20. ASSUME NEW m \in Monitors, MonitorEstop(m) PROVE TypeOK'
        BY <2>20 DEF MonitorEstop, Move, TypeOK, lease
    <2>21. ASSUME NEW m \in Monitors, MonitorWait(m) PROVE TypeOK'
        BY <2>21 DEF MonitorWait, Move, TypeOK, lease, supVars
    <2>22. ASSUME NEW m \in Monitors, MonitorCrash(m) PROVE TypeOK'
        BY <2>22 DEF MonitorCrash, Move, TypeOK, lease, supVars
    <2>23. ASSUME NEW m \in Monitors, MonitorFinally(m) PROVE TypeOK'
        BY <2>23 DEF MonitorFinally, Move, TypeOK, lease, supVars
    <2>24. CASE TeardownBegin
        BY <2>24 DEF TeardownBegin, TypeOK, lease, thrVars, supVars
    <2>25. CASE TeardownEstop
        BY <2>25 DEF TeardownEstop, TypeOK, lease, thrVars
    <2>26. CASE TeardownFault
        BY <2>26, FaultTyped DEF TeardownFault, TypeOK, lease, thrVars
    <2>27. CASE UNCHANGED vars
        BY <2>27 DEF TypeOK, vars, lease, thrVars, supVars
    <2> QED
        BY <2>1, <2>2, <2>3, <2>4, <2>5, <2>6, <2>7, <2>8, <2>9, <2>10, <2>11, <2>12, <2>13,
           <2>14, <2>15, <2>16, <2>17, <2>18, <2>19, <2>20, <2>21, <2>22, <2>23, <2>24, <2>25,
           <2>26, <2>27 DEF Next, MonitorStep, StopStep
<1> QED
    BY <1>1, <1>2, PTL DEF Spec

\* A step that leaves the threads alone leaves ThreadInv alone.
LEMMA ThreadsUntouched ==
    ASSUME ThreadInv, UNCHANGED <<running, thread, mon>>
    PROVE  ThreadInv'
    BY DEF ThreadInv, Alive

\* A monitor that moves on, still alive and not in its finally block's
\* escalation, keeps ThreadInv.
LEMMA MonitorMoves ==
    ASSUME TypeOK, ThreadInv, NEW m \in Monitors, Alive(m), NEW place, Move(m, place),
           place \in {"top", "check", "fault", "estop", "wait", "final"},
           UNCHANGED <<running, thread>>
    PROVE  ThreadInv'
    <1>1. m = thread
        BY DEF ThreadInv
    <1>3. \A k \in Monitors : k # thread => mon'[k] = mon[k]
        BY <1>1 DEF Move, TypeOK
    <1>4. mon'[thread] = place /\ thread \in Monitors
        BY <1>1 DEF Move, TypeOK
    <1> QED
        BY <1>3, <1>4 DEF ThreadInv, Alive, Monitors

\* For any number of callers that start and stop the watchdog, with or without
\* crashes, only the monitor that self._thread names is alive, and the running flag
\* is up only while it is.
LEMMA ThreadsInductive == Spec => []ThreadInv
<1>1. Init => ThreadInv
    BY DEF Init, ThreadInv, Alive, Monitors
<1>2. TypeOK /\ ThreadInv /\ [Next]_vars => ThreadInv'
    <2> SUFFICES ASSUME TypeOK, ThreadInv, [Next]_vars PROVE ThreadInv'
        OBVIOUS
    <2>1. ASSUME NEW c \in Callers, Start(c) PROVE ThreadInv'
        <3>1. thread \in Nat /\ thread + 1 \in Monitors
            BY <2>1, WatchdogAssumption DEF Start, TypeOK, Monitors
        <3>2. \A m \in Monitors : ~Alive(m)
            BY <2>1 DEF Start, ThreadInv
        <3>3. mon'[thread + 1] = "top"
            BY <2>1, <3>1 DEF Start, TypeOK
        <3>4. \A m \in Monitors : m # thread + 1 => mon'[m] = mon[m]
            BY <2>1 DEF Start, TypeOK
        <3>5. thread' = thread + 1
            BY <2>1 DEF Start
        <3>6. \A m \in Monitors : Alive(m)' => m = thread'
            BY <3>2, <3>4, <3>5 DEF Alive
        <3>7. \A m \in Monitors : m > thread' => mon'[m] = "none"
            BY <3>1, <3>4, <3>5 DEF ThreadInv, Monitors
        <3>8. Alive(thread)' /\ mon'[thread'] \notin {"dieFault", "dieEstop"}
            BY <3>1, <3>3, <3>5 DEF Alive, Monitors
        <3> QED
            BY <3>6, <3>7, <3>8 DEF ThreadInv
    <2>2. ASSUME NEW c \in Callers, StopClear(c) PROVE ThreadInv'
        BY <2>2 DEF StopClear, ThreadInv, Alive
    <2>3. ASSUME NEW c \in Callers, StopStep(c) PROVE ThreadInv'
        <3>1. UNCHANGED <<running, thread, mon>>
            BY <2>3 DEF StopStep, StopSet, StopLook, StopJoin, StopFault, StopEstop, thrVars
        <3> QED
            BY <3>1, ThreadsUntouched
    <2>4. ASSUME NEW m \in Monitors, MonitorTop(m) \/ MonitorCheck(m) \/ MonitorWait(m)
                                        \/ MonitorCrash(m)
          PROVE  ThreadInv'
        <3>1. m # 0 /\ Alive(m)
            BY <2>4 DEF MonitorTop, MonitorCheck, MonitorWait, MonitorCrash, Alive, Monitors
        <3>2. UNCHANGED <<running, thread>>
            BY <2>4 DEF MonitorTop, MonitorCheck, MonitorWait, MonitorCrash
        <3>3. \E place \in {"top", "check", "fault", "estop", "wait", "final"} : Move(m, place)
            BY <2>4 DEF MonitorTop, MonitorCheck, MonitorWait, MonitorCrash
        <3> QED
            BY <3>1, <3>2, <3>3, MonitorMoves
    <2>5. ASSUME NEW m \in Monitors, MonitorFault(m) \/ MonitorEstop(m) PROVE ThreadInv'
        <3>1. Alive(m) /\ m = thread
            BY <2>5 DEF MonitorFault, MonitorEstop, Alive, ThreadInv, Monitors
        <3>2. UNCHANGED <<running, thread>>
            BY <2>5 DEF MonitorFault, MonitorEstop
        <3>3. CASE mon[m] \in {"fault", "estop"}
            <4>1. \E place \in {"estop", "wait"} : Move(m, place)
                BY <2>5, <3>3 DEF MonitorFault, MonitorEstop
            <4> QED
                BY <4>1, <3>1, <3>2, MonitorMoves
        <3>4. CASE mon[m] \in {"dieFault", "dieEstop"}
            <4>1. ~running
                BY <3>1, <3>4 DEF ThreadInv
            <4>2. \E place \in {"dieEstop", "dead"} : Move(m, place)
                BY <2>5, <3>4 DEF MonitorFault, MonitorEstop
            <4>3. \A k \in Monitors : k # m => mon'[k] = mon[k]
                BY <4>2 DEF Move, TypeOK
            <4> QED
                BY <3>1, <3>2, <4>1, <4>3 DEF ThreadInv, Alive, Monitors
        <3> QED
            BY <2>5, <3>3, <3>4 DEF MonitorFault, MonitorEstop
    <2>6. ASSUME NEW m \in Monitors, MonitorFinally(m) PROVE ThreadInv'
        <3>1. Alive(m) /\ m = thread
            BY <2>6 DEF MonitorFinally, Alive, ThreadInv, Monitors
        <3>2. \A k \in Monitors : k # m => mon'[k] = mon[k]
            BY <2>6 DEF MonitorFinally, Move, TypeOK
        <3>3. ~running' /\ thread' = thread
            BY <2>6 DEF MonitorFinally
        <3> QED
            BY <3>1, <3>2, <3>3 DEF ThreadInv, Alive, Monitors
    <2>7. CASE \/ ArmHeartbeatToken \/ Heartbeat \/ AnchorLeaseForArm \/ Invalidate \/ Tick
               \/ Suspend \/ Arm \/ Disarm \/ ResetEStop
               \/ TeardownBegin \/ TeardownEstop \/ TeardownFault
        <3>1. UNCHANGED <<running, thread, mon>>
            BY <2>7 DEF ArmHeartbeatToken, Heartbeat, AnchorLeaseForArm, Invalidate, Tick,
                        Suspend, Arm, Disarm, ResetEStop, TeardownBegin, TeardownEstop,
                        TeardownFault, thrVars
        <3> QED
            BY <3>1, ThreadsUntouched
    <2>8. CASE UNCHANGED vars
        BY <2>8, ThreadsUntouched DEF vars, thrVars
    <2> QED
        BY <2>1, <2>2, <2>3, <2>4, <2>5, <2>6, <2>7, <2>8 DEF Next, MonitorStep
<1> QED
    BY <1>1, <1>2, TypeCorrect, PTL DEF Spec

\* Never two live monitors, however start(), stop() and crashes overlap: a lapse is
\* escalated once.
THEOREM SupervisionIsSingle == Spec => []SingleMonitor
<1>1. ThreadInv => SingleMonitor
    BY DEF ThreadInv, SingleMonitor
<1> QED
    BY <1>1, ThreadsInductive, PTL

\* No valid lease without a monitor that can still end it.
THEOREM LeaseIsSupervised == Spec => []LeaseNeedsMonitor
<1>1. ThreadInv => LeaseNeedsMonitor
    BY DEF ThreadInv, LeaseNeedsMonitor, LeaseValid
<1> QED
    BY <1>1, ThreadsInductive, PTL

\* No stop()/start() cycle, state change or suspend makes the lease younger
\* than the last pulse with the token, so it ends a timeout after that pulse.
THEOREM LeaseEndsAfterPulse == Spec => []LeaseFromPulse
<1>1. Init => PulseInv
    BY DEF Init, PulseInv
<1>2. TypeOK /\ PulseInv /\ [Next]_vars => PulseInv'
    <2> SUFFICES ASSUME TypeOK, PulseInv, [Next]_vars PROVE PulseInv'
        OBVIOUS
    <2>1. Anchor => PulseInv'
        BY DEF Anchor, PulseInv
    <2>2. UNCHANGED <<age, pulse>> => PulseInv'
        BY DEF PulseInv
    <2>3. CASE Tick
        BY <2>3, WatchdogAssumption DEF Tick, PulseInv, Capped, TypeOK, AgeCap
    <2>4. CASE Invalidate
        BY <2>4, WatchdogAssumption DEF Invalidate, PulseInv, TypeOK, AgeCap
    <2>5. ASSUME NEW c \in Callers, Start(c) PROVE PulseInv'
        BY <2>5, <2>1, <2>2 DEF Start, lease
    <2>6. CASE Heartbeat \/ AnchorLeaseForArm
        BY <2>6, <2>1 DEF Heartbeat, AnchorLeaseForArm
    <2>7. ASSUME NEW c \in Callers, StopClear(c) \/ StopStep(c) PROVE PulseInv'
        BY <2>7, <2>2 DEF StopClear, StopStep, StopSet, StopLook, StopJoin, StopFault, StopEstop, lease
    <2>8. ASSUME NEW m \in Monitors, MonitorStep(m) \/ MonitorCrash(m) PROVE PulseInv'
        BY <2>8, <2>2 DEF MonitorStep, MonitorTop, MonitorCheck, MonitorFault, MonitorEstop,
                          MonitorWait, MonitorFinally, MonitorCrash, lease
    <2>9. CASE \/ ArmHeartbeatToken \/ Suspend \/ Arm \/ Disarm \/ ResetEStop
               \/ TeardownBegin \/ TeardownEstop \/ TeardownFault \/ UNCHANGED vars
        BY <2>9, <2>2 DEF ArmHeartbeatToken, Suspend, Arm, Disarm, ResetEStop, TeardownBegin,
                          TeardownEstop, TeardownFault, vars, lease
    <2> QED
        BY <2>3, <2>4, <2>5, <2>6, <2>7, <2>8, <2>9 DEF Next
<1>3. TypeOK /\ PulseInv => LeaseFromPulse
    BY WatchdogAssumption DEF TypeOK, PulseInv, LeaseFromPulse, LeaseValid, AgeCap
<1> QED
    BY <1>1, <1>2, <1>3, TypeCorrect, PTL DEF Spec
=============================================================================
