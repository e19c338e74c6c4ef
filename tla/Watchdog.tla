------------------------------ MODULE Watchdog ------------------------------
(***************************************************************************)
(* TxWatchdogSupervisor: the 800 ms transmit lease, the monitor thread     *)
(* that enforces it, and start() and stop() as threads race them.          *)
(*                                                                         *)
(* The lease is kept by its age.  age is now_monotonic() minus             *)
(* _last_heartbeat_time; gap is how much further the wall clock has moved  *)
(* in the same time, which only a suspended host opens.  The supervisor is *)
(* reduced to whether it permits TX, the E-Stop to whether it is engaged:  *)
(* SafetyCore has their locks.  What the code does under the watchdog's    *)
(* lock is one step; the stop event, the thread handle and the callbacks   *)
(* are outside it and are steps of their own.                              *)
(***************************************************************************)
EXTENDS Naturals

CONSTANTS
    Callers,        \* threads that call start() or stop()
    Timeout,        \* timeout_sec, in ticks
    Crashes,        \* TRUE: the monitor's loop machinery may fail
    Suspends,       \* TRUE: the host may be suspended
    MaxMonitors, MaxArms, MaxPushes     \* bounds

ASSUME WatchdogAssumption ==
    /\ Timeout \in Nat \ {0}
    /\ {Crashes, Suspends} \subseteq BOOLEAN
    /\ MaxMonitors \in Nat \ {0} /\ {MaxArms, MaxPushes} \subseteq Nat

VARIABLES
    age, gap,       \* the lease, capped where nothing tells values apart
    tokenSet,       \* arm_heartbeat_token() has been called
    running,        \* _is_running
    startedOnce,    \* _started_once
    event,          \* _stop_event
    thread,         \* the monitor self._thread names; 0 is None
    mon,            \* where each monitor thread is
    pc,             \* where each caller of stop() is
    target,         \* the monitor it joins; 0 is none
    permitted,      \* supervisor.is_tx_permitted
    engaged,        \* the E-Stop is engaged
    pushes,         \* state-change callbacks on their way to the watchdog
    exit,           \* the process teardown hook
    arms,           \* arms so far (see MaxArms)
    pulse           \* history: ticks since the last authenticated pulse

lease == <<age, gap, pulse>>
thrVars == <<running, startedOnce, event, thread, mon>>
supVars == <<permitted, engaged, pushes, arms>>
stopVars == <<pc, target>>
vars == <<lease, tokenSet, thrVars, stopVars, supVars, exit>>

Monitors == 1..MaxMonitors
AgeCap == Timeout + 1
GapCap == Timeout
Capped(n, cap) == IF n < cap THEN n ELSE cap

TypeOK ==
    /\ age \in 0..AgeCap /\ gap \in 0..GapCap /\ pulse \in 0..AgeCap
    /\ tokenSet \in BOOLEAN
    /\ running \in BOOLEAN /\ startedOnce \in BOOLEAN /\ event \in BOOLEAN
    /\ thread \in 0..MaxMonitors
    /\ mon \in [Monitors -> {"none", "top", "check", "fault", "estop", "wait", "final",
                             "dieFault", "dieEstop", "dead"}]
    /\ pc \in [Callers -> {"idle", "set", "look", "join", "fault", "estop"}]
    /\ target \in [Callers -> 0..MaxMonitors]
    /\ permitted \in BOOLEAN /\ engaged \in BOOLEAN
    /\ pushes \in 0..MaxPushes /\ arms \in 0..MaxArms
    /\ exit \in {"no", "running", "stopped", "fault", "done"}

\* A new watchdog: __init__ anchors the clock, nothing runs.
Init ==
    /\ age = 0 /\ gap = 0 /\ pulse = 0
    /\ tokenSet = FALSE
    /\ running = FALSE /\ startedOnce = FALSE /\ event = FALSE
    /\ thread = 0
    /\ mon = [m \in Monitors |-> "none"]
    /\ pc = [c \in Callers |-> "idle"] /\ target = [c \in Callers |-> 0]
    /\ permitted = FALSE /\ engaged = FALSE
    /\ pushes = 0 /\ arms = 0
    /\ exit = "no"

Alive(m) == m # 0 /\ mon[m] \notin {"none", "dead"}
InCallback(m) == m # 0 /\ mon[m] \in {"fault", "estop", "dieFault", "dieEstop"}
LeaseValid == running /\ age <= Timeout
Suspended == age + gap > Timeout /\ 2 * gap > Timeout
Expired == age > Timeout \/ Suspended
-----------------------------------------------------------------------------
(* The lease *)

Anchor == age' = 0 /\ gap' = 0 /\ pulse' = 0

ArmHeartbeatToken ==
    /\ ~tokenSet /\ tokenSet' = TRUE
    /\ UNCHANGED <<lease, thrVars, stopVars, supVars, exit>>

\* A pulse with the shared token; any other raises PermissionError.
Heartbeat ==
    /\ tokenSet /\ Anchor
    /\ UNCHANGED <<tokenSet, thrVars, stopVars, supVars, exit>>

\* anchor_lease_for_arm: a no-op on a valid lease, refused without a monitor.
AnchorLeaseForArm ==
    /\ tokenSet /\ running /\ age > Timeout
    /\ Anchor
    /\ UNCHANGED <<tokenSet, thrVars, stopVars, supVars, exit>>

\* _on_safety_state_changed pushes both anchors into the past.
Invalidate ==
    /\ pushes > 0 /\ pushes' = pushes - 1
    /\ age' = AgeCap
    /\ UNCHANGED <<gap, pulse, tokenSet, thrVars, stopVars, permitted, engaged, arms, exit>>

Tick ==
    /\ age < AgeCap \/ pulse < AgeCap
    /\ age' = Capped(age + 1, AgeCap)
    /\ pulse' = Capped(pulse + 1, AgeCap)
    /\ UNCHANGED <<gap, tokenSet, thrVars, stopVars, supVars, exit>>

\* The host sleeps: the wall clock leaps, the monotonic clock stands still.
Suspend ==
    /\ Suspends /\ gap < GapCap
    /\ gap' \in gap + 1..GapCap
    /\ UNCHANGED <<age, pulse, tokenSet, thrVars, stopVars, supVars, exit>>
-----------------------------------------------------------------------------
(* The supervisor and the E-Stop, as far as the watchdog sees them *)

\* trigger_fault: a supervisor that was not in FAULT calls its listeners.
Fault ==
    /\ permitted' = FALSE
    /\ \/ pushes' = Capped(pushes + 1, MaxPushes)
       \/ ~permitted /\ pushes' = pushes
    /\ UNCHANGED arms

Arm ==
    /\ ~permitted /\ ~engaged /\ arms < MaxArms
    /\ permitted' = TRUE /\ arms' = arms + 1
    /\ UNCHANGED <<lease, tokenSet, thrVars, stopVars, engaged, pushes, exit>>

\* Somebody else disarms or faults the supervisor.
Disarm ==
    /\ permitted /\ Fault
    /\ UNCHANGED <<lease, tokenSet, thrVars, stopVars, engaged, exit>>

ResetEStop ==
    /\ engaged /\ engaged' = FALSE
    /\ UNCHANGED <<lease, tokenSet, thrVars, stopVars, permitted, pushes, arms, exit>>
-----------------------------------------------------------------------------
(* start() and stop() *)

\* Mutant: start() does not look at the thread it is about to replace.
StartUnchecked(c) ==
    /\ pc[c] = "idle" /\ thread < MaxMonitors
    /\ ~running
    /\ event' = FALSE /\ running' = TRUE /\ startedOnce' = TRUE
    /\ thread' = thread + 1
    /\ mon' = [mon EXCEPT ![thread + 1] = "top"]
    /\ IF startedOnce THEN UNCHANGED lease ELSE Anchor
    /\ UNCHANGED <<tokenSet, stopVars, supVars, exit>>

\* Mutant: every start() refreshes the lease.
StartReanchors(c) ==
    /\ pc[c] = "idle" /\ thread < MaxMonitors
    /\ ~running /\ ~Alive(thread)
    /\ event' = FALSE /\ running' = TRUE /\ startedOnce' = TRUE
    /\ thread' = thread + 1
    /\ mon' = [mon EXCEPT ![thread + 1] = "top"]
    /\ age' = 0 /\ gap' = 0
    /\ UNCHANGED <<pulse, tokenSet, stopVars, supVars, exit>>

\* start(), under the lock.  It returns at once when the watchdog runs, and
\* when the previous monitor is still alive.
Start(c) ==
    /\ pc[c] = "idle" /\ thread < MaxMonitors
    /\ ~running /\ ~Alive(thread)
    /\ event' = FALSE /\ running' = TRUE /\ startedOnce' = TRUE
    /\ thread' = thread + 1
    /\ mon' = [mon EXCEPT ![thread + 1] = "top"]
    /\ IF startedOnce THEN UNCHANGED lease ELSE Anchor
    /\ UNCHANGED <<tokenSet, stopVars, supVars, exit>>

\* stop(): the flag under the lock ...
StopClear(c) ==
    /\ pc[c] = "idle"
    /\ running' = FALSE
    /\ pc' = [pc EXCEPT ![c] = "set"]
    /\ UNCHANGED <<lease, tokenSet, startedOnce, event, thread, mon, target, supVars, exit>>

\* ... the event outside it ...
StopSet(c) ==
    /\ pc[c] = "set"
    /\ event' = TRUE
    /\ pc' = [pc EXCEPT ![c] = "look"]
    /\ UNCHANGED <<lease, tokenSet, running, startedOnce, thread, mon, target, supVars, exit>>

\* ... a look at the monitor self._thread names by now ...
StopLook(c) ==
    /\ pc[c] = "look"
    /\ pc' = [pc EXCEPT ![c] = IF Alive(thread) THEN "join" ELSE "idle"]
    /\ target' = [target EXCEPT ![c] = IF Alive(thread) THEN thread ELSE 0]
    /\ UNCHANGED <<lease, tokenSet, thrVars, supVars, exit>>

\* ... and a join with a time limit, which runs out on a monitor in a callback
\* and on one that nobody tells to stop any more.  Then self._thread is read
\* again: a monitor that is alive counts as wedged.
StopJoin(c) ==
    /\ pc[c] = "join"
    /\ \/ ~Alive(target[c])
       \/ InCallback(target[c])
       \/ running /\ ~event
    /\ pc' = [pc EXCEPT ![c] = IF Alive(thread) THEN "fault" ELSE "idle"]
    /\ target' = [target EXCEPT ![c] = 0]
    /\ UNCHANGED <<lease, tokenSet, thrVars, supVars, exit>>

\* WATCHDOG_MONITOR_WEDGED: the stopping thread revokes TX itself.
StopFault(c) ==
    /\ pc[c] = "fault" /\ Fault
    /\ pc' = [pc EXCEPT ![c] = "estop"]
    /\ UNCHANGED <<lease, tokenSet, thrVars, target, engaged, exit>>

StopEstop(c) ==
    /\ pc[c] = "estop"
    /\ engaged' = TRUE
    /\ pc' = [pc EXCEPT ![c] = "idle"]
    /\ UNCHANGED <<lease, tokenSet, thrVars, target, permitted, pushes, arms, exit>>
-----------------------------------------------------------------------------
(* The monitor thread *)

Move(m, place) == mon' = [mon EXCEPT ![m] = place]

MonitorTop(m) ==
    /\ mon[m] = "top"
    /\ Move(m, IF running THEN "check" ELSE "final")
    /\ UNCHANGED <<lease, tokenSet, running, startedOnce, event, thread, stopVars, supVars, exit>>

\* Mutant: a suspended host does not count.
MonitorCheckNoSuspend(m) ==
    /\ mon[m] = "check"
    /\ Move(m, IF running /\ permitted /\ age > Timeout THEN "fault" ELSE "wait")
    /\ UNCHANGED <<lease, tokenSet, running, startedOnce, event, thread, stopVars, supVars, exit>>

\* _monitor_loop_once decides under the lock ...
MonitorCheck(m) ==
    /\ mon[m] = "check"
    /\ Move(m, IF running /\ permitted /\ Expired THEN "fault" ELSE "wait")
    /\ UNCHANGED <<lease, tokenSet, running, startedOnce, event, thread, stopVars, supVars, exit>>

\* ... and fires outside it: the supervisor first, then the E-Stop.  So does
\* the finally block of a monitor that dies.
MonitorFault(m) ==
    /\ mon[m] \in {"fault", "dieFault"} /\ Fault
    /\ Move(m, IF mon[m] = "fault" THEN "estop" ELSE "dieEstop")
    /\ UNCHANGED <<lease, tokenSet, running, startedOnce, event, thread, stopVars, engaged, exit>>

MonitorEstop(m) ==
    /\ mon[m] \in {"estop", "dieEstop"}
    /\ engaged' = TRUE
    /\ Move(m, IF mon[m] = "estop" THEN "wait" ELSE "dead")
    /\ UNCHANGED <<lease, tokenSet, running, startedOnce, event, thread, stopVars, permitted, pushes,
                   arms, exit>>

\* _stop_event.wait(CHECK_INTERVAL_SEC)
MonitorWait(m) ==
    /\ mon[m] = "wait"
    /\ Move(m, IF event THEN "final" ELSE "top")
    /\ UNCHANGED <<lease, tokenSet, running, startedOnce, event, thread, stopVars, supVars, exit>>

\* The loop machinery itself fails.
MonitorCrash(m) ==
    /\ Crashes /\ mon[m] \in {"top", "check", "wait"}
    /\ Move(m, "final")
    /\ UNCHANGED <<lease, tokenSet, running, startedOnce, event, thread, stopVars, supVars, exit>>

\* Mutant: the dying monitor leaves the running flag up.
MonitorFinallySilent(m) ==
    /\ mon[m] = "final"
    /\ Move(m, "dead")
    /\ UNCHANGED <<lease, tokenSet, running, startedOnce, event, thread, stopVars, supVars, exit>>

\* The finally block: still marked as running means that nobody stopped it.
MonitorFinally(m) ==
    /\ mon[m] = "final"
    /\ running' = FALSE
    /\ Move(m, IF running THEN "dieFault" ELSE "dead")
    /\ UNCHANGED <<lease, tokenSet, startedOnce, event, thread, stopVars, supVars, exit>>
-----------------------------------------------------------------------------
(* _on_process_teardown, registered by the first start() *)

TeardownBegin ==
    /\ exit = "no" /\ startedOnce
    /\ exit' = IF running THEN "running" ELSE "stopped"
    /\ UNCHANGED <<lease, tokenSet, thrVars, stopVars, supVars>>

\* The supervisor is asked after the watchdog's lock is released.
TeardownEstop ==
    /\ exit \in {"running", "stopped"}
    /\ engaged' = (engaged \/ exit = "running" \/ permitted)
    /\ exit' = IF exit = "running" THEN "fault" ELSE "done"
    /\ UNCHANGED <<lease, tokenSet, thrVars, stopVars, permitted, pushes, arms>>

TeardownFault ==
    /\ exit = "fault" /\ Fault
    /\ exit' = "done"
    /\ UNCHANGED <<lease, tokenSet, thrVars, stopVars, engaged>>

MonitorStep(m) ==
    \/ MonitorTop(m) \/ MonitorCheck(m) \/ MonitorFault(m) \/ MonitorEstop(m)
    \/ MonitorWait(m) \/ MonitorFinally(m)

StopStep(c) == StopSet(c) \/ StopLook(c) \/ StopJoin(c) \/ StopFault(c) \/ StopEstop(c)

Next ==
    \/ ArmHeartbeatToken \/ Heartbeat \/ AnchorLeaseForArm \/ Invalidate \/ Tick \/ Suspend
    \/ Arm \/ Disarm \/ ResetEStop
    \/ \E c \in Callers : Start(c) \/ StopClear(c) \/ StopStep(c)
    \/ \E m \in Monitors : MonitorStep(m) \/ MonitorCrash(m)
    \/ TeardownBegin \/ TeardownEstop \/ TeardownFault

Spec == Init /\ [][Next]_vars

\* The monitor is a thread: it keeps running, and so does a started stop().
FairSpec ==
    /\ Spec
    /\ \A m \in Monitors : WF_vars(MonitorStep(m))
    /\ \A c \in Callers : WF_vars(StopStep(c))
-----------------------------------------------------------------------------
(* Properties *)

\* No sequence of starts, stops and crashes leaves two monitors alive: both
\* would reach trigger_fault for the same lapse.
SingleMonitor == \A m, n \in Monitors : Alive(m) /\ Alive(n) => m = n

\* The gateway sees a valid lease only while a monitor is there to end it.
LeaseNeedsMonitor ==
    LeaseValid => Alive(thread) /\ mon[thread] \notin {"dieFault", "dieEstop"}

\* The lease never outlasts the timeout after the last authenticated pulse,
\* however often the watchdog is stopped and started.
LeaseFromPulse == LeaseValid => pulse <= Timeout

\* While the watchdog runs and TX is permitted, an expired lease or a
\* suspended host is acted upon, renewed, or the watchdog is stopped.
Supervised ==
    (permitted /\ running /\ Expired) ~> (~permitted \/ ~running \/ ~Expired)

\* What the finally block documents: a monitor whose machinery works dies of
\* stop() only, and then it faults nobody.
OrderlyStopIsQuiet == \A m \in Monitors : mon[m] # "dieFault"

\* What the comment on the join says: a monitor that survives it is wedged in
\* a trigger callback, so stop() faults nobody else's healthy monitor.
WedgeIsReal ==
    [][\A c \in Callers :
          pc[c] = "join" /\ pc'[c] = "fault" => InCallback(thread)]_vars
-----------------------------------------------------------------------------
(* The inductive invariants behind the three safety properties. *)

\* Only the monitor self._thread names can be alive, and the running flag is
\* up only while it is and has not reached its finally block's decision.
ThreadInv ==
    /\ \A m \in Monitors : Alive(m) => m = thread
    /\ \A m \in Monitors : m > thread => mon[m] = "none"
    /\ running => Alive(thread) /\ mon[thread] \notin {"dieFault", "dieEstop"}

\* The lease is never younger than the last pulse.
PulseInv == pulse <= age
=============================================================================
