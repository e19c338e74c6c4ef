----------------------------- MODULE SafetyCore -----------------------------
(***************************************************************************)
(* The transmit-safety core of the platform as its threads run it: the     *)
(* supervisor's state, the E-Stop latch and its TX fence, the watchdog     *)
(* lease and the gateway's three-phase dispatch, with the locks that each  *)
(* of them takes.                                                          *)
(*                                                                         *)
(* Senders run TxSafetyGateway.validate_and_transmit.  Stoppers are the    *)
(* threads that call EmergencyStopSystem.trigger (the UI button, a link    *)
(* fault, an engagement the gateway deferred).  Monitor is the watchdog's  *)
(* thread: it faults the supervisor first and then calls trigger.          *)
(* Operators run the supervisor's transitions, the E-Stop reset and the    *)
(* controlled rebinds.                                                     *)
(*                                                                         *)
(* Everything the code does under one lock without reading another         *)
(* component is one step.  A read of another component, and every place    *)
(* where the code has dropped a lock on purpose ("snapshot then release"), *)
(* starts a new step, so other threads get in between.                     *)
(***************************************************************************)
EXTENDS SafetyStates, Naturals, FiniteSets

CONSTANTS
    Senders,        \* threads inside validate_and_transmit
    Stoppers,       \* threads that call estop.trigger()
    Monitor,        \* the watchdog's monitor thread
    Operators,      \* threads that arm, disarm, reset and rebind
    Buses,          \* HAL buses a gateway can be bound to
    Ids,            \* arbitration ids
    Whitelists,     \* the id sets a rebind may install
    BroadRebinds,   \* TRUE: rebind_whitelist may be handed a too-broad mask
    MaxCalls,       \* bound on started trigger/reset/rebind calls
    Nobody          \* a lock nobody holds, an absent bus or id

ASSUME CoreAssumption ==
    /\ Monitor \notin Stoppers
    /\ Nobody \notin Senders \cup Stoppers \cup Operators \cup Buses \cup Ids \cup {Monitor}
    /\ Senders \cap Operators = {}
    /\ Buses # {}
    /\ Whitelists \subseteq SUBSET Ids
    /\ Whitelists # {}
    /\ BroadRebinds \in BOOLEAN
    /\ MaxCalls \in Nat

Trippers == Stoppers \cup {Monitor}

VARIABLES
    state,      \* SafetySupervisor._state
    supLock,    \* holder of SafetySupervisor._lock across a transition
    engaged,    \* EmergencyStopSystem._is_engaged
    fence,      \* EmergencyStopSystem._tx_fence
    lease,      \* TxWatchdogSupervisor.is_lease_valid
    bus,        \* TxSafetyGateway._bus
    whitelist,  \* TxSafetyGateway.whitelist_ids
    hook,       \* the bus whose flush primitive is the abort hook, or Nobody
    txq,        \* <<bus, id>> frames handed to a driver, not yet on the wire
    gwLock,     \* holder of TxSafetyGateway._lock
    sendLock,   \* holder of EmergencyStopSystem.tx_send_lock
    spc, frame, vbus, snapE, snapF, \* a sender's place and locals
    tpc,        \* a tripper's place in trigger() and its callbacks
    opc, tgt,   \* an operator's place and the state its transition lands in
    calls,      \* started trigger/reset/rebind calls (see MaxCalls)
    struck      \* history: a trigger hit this sender's validated frame

supVars  == <<state, supLock>>
gwVars   == <<bus, whitelist, hook, txq, gwLock, sendLock>>
sendVars == <<spc, frame, vbus, snapE, snapF>>
vars == <<supVars, engaged, fence, lease, gwVars, sendVars, tpc, opc, tgt, calls, struck>>

SenderPc == {"idle", "lease", "estop", "snapE", "snapF", "phase2", "fence",
             "engaged", "send", "rollback"}
TripperPc == {"idle", "wdFault", "wdCbWd", "wdCbGw", "engage", "notify", "fault",
              "cbWd", "cbGw", "clear", "abort"}
OperatorPc == {"idle", "commit", "cbWd", "cbGw", "anchor", "bump", "advBus", "advIds", "unhook",
               "hook"}

TypeOK ==
    /\ state \in SafetyState
    /\ supLock \in Operators \cup {Nobody}
    /\ engaged \in BOOLEAN
    /\ fence \in Nat
    /\ lease \in BOOLEAN
    /\ bus \in Buses /\ hook \in Buses \cup {Nobody}
    /\ whitelist \in SUBSET Ids
    /\ txq \in SUBSET (Buses \X Ids)
    /\ gwLock \in Senders \cup {Nobody}
    /\ sendLock \in Senders \cup Operators \cup {Nobody}
    /\ spc \in [Senders -> SenderPc]
    /\ frame \in [Senders -> Ids \cup {Nobody}]
    /\ vbus \in [Senders -> Buses \cup {Nobody}]
    /\ snapE \in [Senders -> BOOLEAN]
    /\ snapF \in [Senders -> Nat]
    /\ tpc \in [Trippers -> TripperPc]
    /\ opc \in [Operators -> OperatorPc]
    /\ tgt \in [Operators -> SafetyState]
    /\ calls \in 0..MaxCalls
    /\ struck \in [Senders -> BOOLEAN]
    /\ \A s \in Senders : spc[s] # "idle" => frame[s] \in Ids

\* The composition root builds everything disarmed, on one bus, and starts the
\* watchdog, whose start() anchors the lease.
Init ==
    /\ state = STARTUP
    /\ supLock = Nobody
    /\ engaged = FALSE
    /\ fence = 0
    /\ lease = TRUE
    /\ bus \in Buses /\ hook = bus
    /\ whitelist \in Whitelists
    /\ txq = {}
    /\ gwLock = Nobody /\ sendLock = Nobody
    /\ spc = [s \in Senders |-> "idle"]
    /\ frame = [s \in Senders |-> Nobody]
    /\ vbus = [s \in Senders |-> Nobody]
    /\ snapE = [s \in Senders |-> FALSE]
    /\ snapF = [s \in Senders |-> 0]
    /\ tpc = [t \in Trippers |-> "idle"]
    /\ opc = [o \in Operators |-> "idle"]
    /\ tgt = [o \in Operators |-> STARTUP]
    /\ calls = 0
    /\ struck = [s \in Senders |-> FALSE]
-----------------------------------------------------------------------------
(* Gateway: validate_and_transmit *)

\* A sender gives up: its locals are dead and it holds no lock.
Idle(s) ==
    /\ spc' = [spc EXCEPT ![s] = "idle"]
    /\ frame' = [frame EXCEPT ![s] = Nobody]
    /\ vbus' = [vbus EXCEPT ![s] = Nobody]
    /\ snapE' = [snapE EXCEPT ![s] = FALSE]
    /\ snapF' = [snapF EXCEPT ![s] = 0]
    /\ struck' = [struck EXCEPT ![s] = FALSE]

\* Phase 1, Stage 2: take the gateway lock and ask the supervisor.
SendPermit(s) ==
    /\ spc[s] = "idle" /\ gwLock = Nobody /\ supLock = Nobody
    /\ TxPermitted(state)
    /\ \E id \in Ids : frame' = [frame EXCEPT ![s] = id]
    /\ vbus' = [vbus EXCEPT ![s] = bus]
    /\ gwLock' = s
    /\ spc' = [spc EXCEPT ![s] = "lease"]
    /\ UNCHANGED <<supVars, engaged, fence, lease, bus, whitelist, hook, txq, sendLock,
                   snapE, snapF, tpc, opc, tgt, calls, struck>>

SendLease(s) ==
    /\ spc[s] = "lease"
    /\ \/ lease /\ spc' = [spc EXCEPT ![s] = "estop"]
               /\ UNCHANGED <<frame, vbus, snapE, snapF, gwLock, struck>>
       \/ ~lease /\ Idle(s) /\ gwLock' = Nobody
    /\ UNCHANGED <<supVars, engaged, fence, lease, bus, whitelist, hook, txq, sendLock,
                   tpc, opc, tgt, calls>>

\* Stage 2 E-Stop check, Stage 3 whitelist; a rejected frame unwinds the lock.
SendEStop(s) ==
    /\ spc[s] = "estop"
    /\ \/ /\ ~engaged /\ frame[s] \in whitelist
          /\ spc' = [spc EXCEPT ![s] = "snapE"]
          /\ UNCHANGED <<frame, vbus, snapE, snapF, gwLock, struck>>
       \/ /\ engaged \/ frame[s] \notin whitelist
          /\ Idle(s) /\ gwLock' = Nobody
    /\ UNCHANGED <<supVars, engaged, fence, lease, bus, whitelist, hook, txq, sendLock,
                   tpc, opc, tgt, calls>>

\* estop_snapshot = self.estop.is_engaged
SnapEngaged(s) ==
    /\ spc[s] = "snapE"
    /\ snapE' = [snapE EXCEPT ![s] = engaged]
    /\ spc' = [spc EXCEPT ![s] = "snapF"]
    /\ UNCHANGED <<supVars, engaged, fence, lease, gwVars, frame, vbus, snapF, tpc, opc,
                   tgt, calls, struck>>

\* fence_snapshot = self.estop.tx_fence, and the gateway lock is released.
SnapFence(s) ==
    /\ spc[s] = "snapF"
    /\ snapF' = [snapF EXCEPT ![s] = fence]
    /\ struck' = [struck EXCEPT ![s] = FALSE]
    /\ gwLock' = Nobody
    /\ spc' = [spc EXCEPT ![s] = "phase2"]
    /\ UNCHANGED <<supVars, engaged, fence, lease, bus, whitelist, hook, txq, sendLock,
                   frame, vbus, snapE, tpc, opc, tgt, calls>>

\* Phase 2: the final guard, without any lock.
Phase2(s) ==
    /\ spc[s] = "phase2"
    /\ spc' = [spc EXCEPT ![s] = IF snapE[s] \/ engaged THEN "rollback" ELSE "fence"]
    /\ UNCHANGED <<supVars, engaged, fence, lease, gwVars, frame, vbus, snapE, snapF,
                   tpc, opc, tgt, calls, struck>>

\* Phase 3: take the send lock, compare the fence ...
Phase3Fence(s) ==
    /\ spc[s] = "fence" /\ sendLock = Nobody
    /\ sendLock' = s
    /\ spc' = [spc EXCEPT ![s] = IF snapF[s] # fence THEN "rollback" ELSE "engaged"]
    /\ UNCHANGED <<supVars, engaged, fence, lease, bus, whitelist, hook, txq, gwLock,
                   frame, vbus, snapE, snapF, tpc, opc, tgt, calls, struck>>

\* ... and then, a second read of the E-Stop, whether it is engaged.
Phase3Engaged(s) ==
    /\ spc[s] = "engaged"
    /\ spc' = [spc EXCEPT ![s] = IF engaged THEN "rollback" ELSE "send"]
    /\ UNCHANGED <<supVars, engaged, fence, lease, gwVars, frame, vbus, snapE, snapF,
                   tpc, opc, tgt, calls, struck>>

\* self._bus.privileged_send(frame), still under the send lock.
PrivilegedSend(s) ==
    /\ spc[s] = "send"
    /\ txq' = txq \cup {<<bus, frame[s]>>}
    /\ sendLock' = Nobody
    /\ Idle(s)
    /\ UNCHANGED <<supVars, engaged, fence, lease, bus, whitelist, hook, gwLock,
                   tpc, opc, tgt, calls>>

\* _rollback_tx_reservation takes the gateway lock, in Phase 3 with the send
\* lock held; then the exception unwinds both.
Rollback(s) ==
    /\ spc[s] = "rollback" /\ gwLock = Nobody
    /\ sendLock' = IF sendLock = s THEN Nobody ELSE sendLock
    /\ Idle(s)
    /\ UNCHANGED <<supVars, engaged, fence, lease, bus, whitelist, hook, txq, gwLock,
                   tpc, opc, tgt, calls>>

\* The driver puts a queued frame on the wire.
DriverTransmit ==
    /\ \E f \in txq : txq' = txq \ {f}
    /\ UNCHANGED <<supVars, engaged, fence, lease, bus, whitelist, hook, gwLock, sendLock,
                   sendVars, tpc, opc, tgt, calls, struck>>
-----------------------------------------------------------------------------
(* E-Stop: trigger() and the callbacks it runs outside its lock *)

Goto(t, pc) == tpc' = [tpc EXCEPT ![t] = pc]

StopRequested(t) ==
    /\ t \in Stoppers /\ tpc[t] = "idle" /\ calls < MaxCalls
    /\ calls' = calls + 1
    /\ Goto(t, "engage")
    /\ UNCHANGED <<supVars, engaged, fence, lease, gwVars, sendVars, opc, tgt, struck>>

\* Mutant: only ACTIVE is supervised, ARMED_TX is not.
MonitorActiveOnly ==
    /\ tpc[Monitor] = "idle" /\ supLock = Nobody
    /\ state = ACTIVE /\ ~lease
    /\ Goto(Monitor, "wdFault")
    /\ UNCHANGED <<supVars, engaged, fence, lease, gwVars, sendVars, opc, tgt, calls, struck>>

\* The monitor decides under the watchdog lock, and fires outside it.  (Its
\* other cause, a suspended host, trips the same way and is not told apart.)
MonitorExpired ==
    /\ tpc[Monitor] = "idle" /\ supLock = Nobody
    /\ TxPermitted(state) /\ ~lease
    /\ Goto(Monitor, "wdFault")
    /\ UNCHANGED <<supVars, engaged, fence, lease, gwVars, sendVars, opc, tgt, calls, struck>>

\* supervisor.trigger_fault, from the monitor or from _on_estop_triggered.
TripperFault(t) ==
    /\ tpc[t] \in {"wdFault", "fault"} /\ supLock = Nobody
    /\ state' = FAULT
    /\ Goto(t, CASE state = FAULT /\ tpc[t] = "wdFault" -> "engage"
                 [] state = FAULT /\ tpc[t] = "fault"   -> "clear"
                 [] state # FAULT /\ tpc[t] = "wdFault" -> "wdCbWd"
                 [] state # FAULT /\ tpc[t] = "fault"   -> "cbWd")
    /\ UNCHANGED <<supLock, engaged, fence, lease, gwVars, sendVars, opc, tgt, calls, struck>>

\* The supervisor's listeners on FAULT: the watchdog drops the lease ...
TripperCbWatchdog(t) ==
    /\ tpc[t] \in {"wdCbWd", "cbWd"}
    /\ lease' = FALSE
    /\ Goto(t, IF tpc[t] = "wdCbWd" THEN "wdCbGw" ELSE "cbGw")
    /\ UNCHANGED <<supVars, engaged, fence, gwVars, sendVars, opc, tgt, calls, struck>>

\* ... and the gateway clears its windows under its own lock.
TripperCbGateway(t) ==
    /\ tpc[t] \in {"wdCbGw", "cbGw"} /\ gwLock = Nobody
    /\ Goto(t, IF tpc[t] = "wdCbGw" THEN "engage" ELSE "clear")
    /\ UNCHANGED <<supVars, engaged, fence, lease, gwVars, sendVars, opc, tgt, calls, struck>>

\* The frames that are validated and have not passed the fence comparison.
InFlight(s) == spc[s] \in {"phase2", "fence"}

\* Mutant: the engagement forgets to move the fence.
EngageUnfenced(t) ==
    /\ tpc[t] = "engage"
    /\ engaged' = TRUE
    /\ struck' = [s \in Senders |-> struck[s] \/ InFlight(s)]
    /\ Goto(t, "notify")
    /\ UNCHANGED <<supVars, fence, lease, gwVars, sendVars, opc, tgt, calls>>

\* trigger(), under the E-Stop lock: latch and fence move together.
Engage(t) ==
    /\ tpc[t] = "engage"
    /\ engaged' = TRUE
    /\ fence' = fence + 1
    /\ struck' = [s \in Senders |-> struck[s] \/ InFlight(s)]
    /\ Goto(t, "notify")
    /\ UNCHANGED <<supVars, lease, gwVars, sendVars, opc, tgt, calls>>

\* Mutant: is_fault is read without the supervisor lock, mid-transition.
NotifyUnlocked(t) ==
    /\ tpc[t] = "notify"
    /\ Goto(t, IF state = FAULT THEN "clear" ELSE "fault")
    /\ UNCHANGED <<supVars, engaged, fence, lease, gwVars, sendVars, opc, tgt, calls, struck>>

\* Mutant: the listener leaves the supervisor alone.
NotifySilent(t) ==
    /\ tpc[t] = "notify"
    /\ Goto(t, "clear")
    /\ UNCHANGED <<supVars, engaged, fence, lease, gwVars, sendVars, opc, tgt, calls, struck>>

\* _on_estop_triggered: fault the supervisor unless it is in FAULT already.
Notify(t) ==
    /\ tpc[t] = "notify" /\ supLock = Nobody
    /\ Goto(t, IF state = FAULT THEN "clear" ELSE "fault")
    /\ UNCHANGED <<supVars, engaged, fence, lease, gwVars, sendVars, opc, tgt, calls, struck>>

ClearStreaks(t) ==
    /\ tpc[t] = "clear" /\ gwLock = Nobody
    /\ Goto(t, "abort")
    /\ UNCHANGED <<supVars, engaged, fence, lease, gwVars, sendVars, opc, tgt, calls, struck>>

\* The abort hook flushes the driver it was registered for.
AbortHook(t) ==
    /\ tpc[t] = "abort"
    /\ txq' = {f \in txq : f[1] # hook}
    /\ Goto(t, "idle")
    /\ UNCHANGED <<supVars, engaged, fence, lease, bus, whitelist, hook, gwLock, sendLock,
                   sendVars, opc, tgt, calls, struck>>
-----------------------------------------------------------------------------
(* Operators: supervisor transitions, reset, rebinds *)

OGoto(o, pc) == opc' = [opc EXCEPT ![o] = pc]

\* transition_to, under the supervisor lock: the E-Stop is asked first.  A
\* refused request raises and changes nothing.
BeginTransition(o, target) ==
    /\ opc[o] = "idle" /\ supLock = Nobody
    /\ state # target
    /\ target \in EStopBlocked => ~engaged
    /\ supLock' = o
    /\ tgt' = [tgt EXCEPT ![o] = Landing(state, target)]
    /\ OGoto(o, "commit")
    /\ UNCHANGED <<state, engaged, fence, lease, gwVars, sendVars, tpc, calls, struck>>

\* The rest of the same critical section: the state is written, the lock is
\* dropped, and the listeners are still to run.  arm_tx and activate_tx anchor
\* the lease after them.
CommitTransition(o) ==
    /\ opc[o] = "commit"
    /\ state' = tgt[o]
    /\ supLock' = Nobody
    /\ OGoto(o, IF tgt[o] \in TxGone THEN "cbWd" ELSE "anchor")
    /\ tgt' = [tgt EXCEPT ![o] = STARTUP]
    /\ UNCHANGED <<engaged, fence, lease, gwVars, sendVars, tpc, calls, struck>>

OperatorCbWatchdog(o) ==
    /\ opc[o] = "cbWd"
    /\ lease' = FALSE
    /\ OGoto(o, "cbGw")
    /\ UNCHANGED <<supVars, engaged, fence, gwVars, sendVars, tpc, tgt, calls, struck>>

OperatorCbGateway(o) ==
    /\ opc[o] = "cbGw" /\ gwLock = Nobody
    /\ OGoto(o, "idle")
    /\ UNCHANGED <<supVars, engaged, fence, lease, gwVars, sendVars, tpc, tgt, calls, struck>>

\* _anchor_watchdog_lease_for_arm: the token gate holds, the monitor runs.
AnchorLease(o) ==
    /\ opc[o] = "anchor"
    /\ lease' = TRUE
    /\ OGoto(o, "idle")
    /\ UNCHANGED <<supVars, engaged, fence, gwVars, sendVars, tpc, tgt, calls, struck>>

\* reset() with a valid token: the latch opens under the E-Stop lock, and the
\* fence moves afterwards, under the send lock.
ResetVerify(o) ==
    /\ opc[o] = "idle" /\ engaged /\ calls < MaxCalls
    /\ calls' = calls + 1
    /\ engaged' = FALSE
    /\ OGoto(o, "bump")
    /\ UNCHANGED <<supVars, fence, lease, gwVars, sendVars, tpc, tgt, struck>>

ResetBump(o) ==
    /\ opc[o] = "bump" /\ sendLock = Nobody
    /\ fence' = fence + 1
    /\ OGoto(o, "idle")
    /\ UNCHANGED <<supVars, engaged, lease, gwVars, sendVars, tpc, tgt, calls, struck>>

\* Mutant: a failed reconnect hands rebind_bus no bus at all.
RebindBusUnchecked(o) ==
    /\ opc[o] = "idle" /\ sendLock = Nobody /\ gwLock = Nobody /\ calls < MaxCalls
    /\ calls' = calls + 1
    /\ bus' \in Buses \cup {Nobody}
    /\ sendLock' = o
    /\ OGoto(o, "advBus")
    /\ UNCHANGED <<supVars, engaged, fence, lease, whitelist, hook, txq, gwLock, sendVars,
                   tpc, tgt, struck>>

\* rebind_bus: swap under both locks, keep the send lock ...
RebindBus(o) ==
    /\ opc[o] = "idle" /\ sendLock = Nobody /\ gwLock = Nobody /\ calls < MaxCalls
    /\ calls' = calls + 1
    /\ bus' \in Buses
    /\ sendLock' = o
    /\ OGoto(o, "advBus")
    /\ UNCHANGED <<supVars, engaged, fence, lease, whitelist, hook, txq, gwLock, sendVars,
                   tpc, tgt, struck>>

\* rebind_whitelist with masks the breadth check accepts (or with none).
RebindWhitelist(o) ==
    /\ opc[o] = "idle" /\ sendLock = Nobody /\ gwLock = Nobody /\ calls < MaxCalls
    /\ calls' = calls + 1
    /\ whitelist' \in Whitelists
    /\ sendLock' = o
    /\ OGoto(o, "advIds")
    /\ UNCHANGED <<supVars, engaged, fence, lease, bus, hook, txq, gwLock, sendVars,
                   tpc, tgt, struck>>

\* rebind_whitelist with a mask that _validate_mask_breadth refuses: the ids
\* are already in place when the exception unwinds both locks.
RebindWhitelistRefused(o) ==
    /\ BroadRebinds
    /\ opc[o] = "idle" /\ sendLock = Nobody /\ gwLock = Nobody /\ calls < MaxCalls
    /\ calls' = calls + 1
    /\ whitelist' \in Whitelists
    /\ UNCHANGED <<supVars, engaged, fence, lease, bus, hook, txq, gwLock, sendLock,
                   sendVars, tpc, opc, tgt, struck>>

\* Mutant: the rebind releases the send lock without moving the fence.
AdvanceNothing(o) ==
    /\ opc[o] \in {"advBus", "advIds"}
    /\ sendLock' = Nobody
    /\ OGoto(o, IF opc[o] = "advBus" THEN "unhook" ELSE "idle")
    /\ UNCHANGED <<supVars, engaged, fence, lease, bus, whitelist, hook, txq, gwLock, sendVars,
                   tpc, tgt, calls, struck>>

\* ... advance_tx_fence, and then release it.
AdvanceFence(o) ==
    /\ opc[o] \in {"advBus", "advIds"}
    /\ fence' = fence + 1
    /\ sendLock' = Nobody
    /\ OGoto(o, IF opc[o] = "advBus" THEN "unhook" ELSE "idle")
    /\ UNCHANGED <<supVars, engaged, lease, bus, whitelist, hook, txq, gwLock, sendVars,
                   tpc, tgt, calls, struck>>

\* rebind_bus ends, outside every lock, by taking the old abort hook out ...
UnregisterHook(o) ==
    /\ opc[o] = "unhook"
    /\ hook' = Nobody
    /\ OGoto(o, "hook")
    /\ UNCHANGED <<supVars, engaged, fence, lease, bus, whitelist, txq, gwLock, sendLock,
                   sendVars, tpc, tgt, calls, struck>>

\* ... and registering the flush of whichever bus is bound by then.
RegisterHook(o) ==
    /\ opc[o] = "hook"
    /\ hook' = bus
    /\ OGoto(o, "idle")
    /\ UNCHANGED <<supVars, engaged, fence, lease, bus, whitelist, txq, gwLock, sendLock,
                   sendVars, tpc, tgt, calls, struck>>
-----------------------------------------------------------------------------
(* The lease: a token-authenticated pulse, and the 800 ms running out. *)

Heartbeat ==
    /\ ~lease /\ lease' = TRUE
    /\ UNCHANGED <<supVars, engaged, fence, gwVars, sendVars, tpc, opc, tgt, calls, struck>>

LeaseRunsOut ==
    /\ lease /\ lease' = FALSE
    /\ UNCHANGED <<supVars, engaged, fence, gwVars, sendVars, tpc, opc, tgt, calls, struck>>

SenderStep(s) ==
    \/ SendLease(s) \/ SendEStop(s) \/ SnapEngaged(s) \/ SnapFence(s) \/ Phase2(s)
    \/ Phase3Fence(s) \/ Phase3Engaged(s) \/ PrivilegedSend(s) \/ Rollback(s)

TripperStep(t) ==
    \/ TripperFault(t) \/ TripperCbWatchdog(t) \/ TripperCbGateway(t)
    \/ Engage(t) \/ Notify(t) \/ ClearStreaks(t) \/ AbortHook(t)

OperatorStep(o) ==
    \/ CommitTransition(o) \/ OperatorCbWatchdog(o) \/ OperatorCbGateway(o)
    \/ AnchorLease(o) \/ ResetBump(o) \/ AdvanceFence(o)
    \/ UnregisterHook(o) \/ RegisterHook(o)

OperatorCall(o) ==
    \/ \E target \in SafetyState : BeginTransition(o, target)
    \/ ResetVerify(o) \/ RebindBus(o) \/ RebindWhitelist(o) \/ RebindWhitelistRefused(o)

Next ==
    \/ \E s \in Senders : SendPermit(s) \/ SenderStep(s)
    \/ DriverTransmit
    \/ MonitorExpired
    \/ \E t \in Trippers : StopRequested(t) \/ TripperStep(t)
    \/ \E o \in Operators : OperatorCall(o) \/ OperatorStep(o)
    \/ Heartbeat
    \/ LeaseRunsOut

Spec == Init /\ [][Next]_vars

\* A thread inside a call keeps running it; nothing obliges a caller to call.
\* A tripper waits for locks that other threads keep taking and releasing: the
\* lock is assumed to be granted to a waiter eventually (strong fairness).
Fairness ==
    /\ \A s \in Senders : WF_vars(SenderStep(s))
    /\ \A t \in Trippers : SF_vars(TripperStep(t))
    /\ \A o \in Operators : WF_vars(OperatorStep(o))
    /\ WF_vars(MonitorExpired)

FairSpec == Spec /\ Fairness
-----------------------------------------------------------------------------
(* Properties *)

\* While the E-Stop is latched the supervisor sits in FAULT or SAFE, except
\* while some trigger() that has latched it is still on its way to fault the
\* supervisor: no interleaving of arms, resets, transitions and triggers
\* leaves a latched E-Stop over an armed supervisor.
RevokedWhenStopped ==
    engaged => \/ state \in {FAULT, SAFE}
               \/ \E t \in Trippers : tpc[t] \in {"notify", "fault"}

\* A frame that is past the fence goes out on the bus it was validated
\* against, under a whitelist that allows it: a rebind that completed since
\* its validation has killed it.
DispatchUnderPolicy ==
    \A s \in Senders : spc[s] = "send" => vbus[s] = bus /\ frame[s] \in whitelist

\* A trigger() that completes between a frame's validation and its fence
\* comparison kills the frame, even when the operator has already reset the
\* E-Stop by the time the frame is compared.
NoFrameSurvivesTrigger ==
    \A s \in Senders : spc[s] \in {"engaged", "send"} => ~struck[s]

\* A latched E-Stop reaches the supervisor: TX authority does not outlive it.
StopReachesSupervisor == engaged ~> (state \in {FAULT, SAFE} \/ ~engaged)

\* A lease that ran out while TX was permitted is renewed or costs the
\* permission; the monitor is never locked out.
LeaseEnforced ==
    (TxPermitted(state) /\ ~lease) ~> (lease \/ ~TxPermitted(state))

\* What FAULT is documented to mean: no frame passes the fence after the
\* supervisor has entered FAULT.
FaultStopsDispatch ==
    [][\A s \in Senders : spc[s] # "send" /\ spc'[s] = "send" => state # FAULT]_vars

\* What the abort hook is documented to cover: once every trigger() has
\* returned, no frame waits in a driver.
AbortCoversQueue ==
    engaged /\ (\A t \in Trippers : tpc[t] = "idle") => txq = {}
-----------------------------------------------------------------------------
(* The inductive invariants behind the three safety properties. *)

\* A transition that passed the E-Stop check before the latch closed still has
\* the supervisor lock, so the tripper that closed it has not looked yet.
StopInv ==
    /\ RevokedWhenStopped
    /\ \A o \in Operators : opc[o] = "commit" => supLock = o
    /\ \A o \in Operators :
          opc[o] = "commit" /\ engaged =>
             \/ tgt[o] \in {FAULT, SAFE}
             \/ \E t \in Trippers : tpc[t] = "notify"

\* The fence never runs behind a snapshot, and is ahead of a struck one.
FenceInv ==
    /\ \A s \in Senders : snapF[s] <= fence
    /\ \A s \in Senders : InFlight(s) /\ struck[s] => snapF[s] < fence
    /\ NoFrameSurvivesTrigger

\* What a sender knows about the bus and the whitelist at each place: first
\* through the gateway lock, then through an unmoved fence while no rebind
\* holds the send lock, at last through the send lock itself.
PolicyInv ==
    /\ \A s \in Senders : spc[s] \in {"lease", "estop", "snapE", "snapF"}
          => gwLock = s /\ vbus[s] = bus
    /\ \A s \in Senders : spc[s] \in {"snapE", "snapF"} => frame[s] \in whitelist
    /\ \A s \in Senders : InFlight(s) /\ snapF[s] = fence /\ sendLock \notin Operators
          => vbus[s] = bus /\ frame[s] \in whitelist
    /\ \A s \in Senders : spc[s] \in {"engaged", "send"}
          => sendLock = s /\ vbus[s] = bus /\ frame[s] \in whitelist
    /\ \A o \in Operators : opc[o] \in {"advBus", "advIds"} => sendLock = o
    /\ \A s \in Senders : snapF[s] <= fence
=============================================================================
