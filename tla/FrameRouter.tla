----------------------------- MODULE FrameRouter -----------------------------
(***************************************************************************)
(* FrameRouter: the fan-out of received frames to subscribers.             *)
(*                                                                         *)
(* Routers are the RX threads inside route_frame().  They take no lock to  *)
(* route: each works on the immutable snapshot it read first, and counts   *)
(* into a counter of its own.  Readers are the threads that call stats or  *)
(* flush_pending_counters() and drain those counters, under _stats_lock,   *)
(* while their owners go on counting.  Operators subscribe, unsubscribe,   *)
(* restore callbacks and clear.                                            *)
(*                                                                         *)
(* A section of _lock never waits for anything, so each is one step.  A    *)
(* drain is a step per statement: its _stats_lock does not stop the        *)
(* owners.  One assumption is made of the interpreter: an augmented        *)
(* assignment to an attribute is one step.  CPython 3.12 and 3.13 with     *)
(* their global lock switch threads at calls and at jumps back, of which   *)
(* `x.routed += 1` has none; a free-threaded build may come between its    *)
(* load and its store, and this module does not speak of one.              *)
(*                                                                         *)
(* The two totals are kept by the thread they came from; the code keeps    *)
(* their sums.  Logging, and its per-subscriber bookkeeping, are left out. *)
(***************************************************************************)
EXTENDS Naturals, FiniteSets

CONSTANTS
    Routers, Readers,
    Ids,            \* arbitration ids
    Filters,        \* the filter sets a subscriber may ask for
    Threshold,      \* FLUSH_THRESHOLD
    TripAfter,      \* CALLBACK_TRIP_AFTER
    QueueSize,      \* maxsize of a subscriber's queue
    MaxSubs, MaxFrames, MaxReads, MaxRestores,   \* bounds
    Nobody, NoSub

ASSUME RouterAssumption ==
    /\ Nobody \notin Routers \cup Readers
    /\ IsFiniteSet(Routers)
    /\ Filters \subseteq SUBSET Ids
    /\ Threshold \in Nat \ {0} /\ TripAfter \in Nat \ {0} /\ QueueSize \in Nat \ {0}
    /\ {MaxSubs, MaxFrames, MaxReads, MaxRestores} \subseteq Nat

SubIds == 1..MaxSubs

\* A callback is named by the call that installed it; 0 is None.
Subscription == [callback : Nat, queued : BOOLEAN, ids : SUBSET Ids]

ASSUME SubscriptionAssumption == NoSub \notin Subscription

VARIABLES
    subs,           \* _subscriptions
    snapshot,       \* _route_snapshot
    lastId,         \* _next_sub_id - 1
    callbacks,      \* callbacks handed over so far
    trips,          \* _callback_trip_counts
    queued,         \* frames in each subscriber's queue
    registered,     \* _pending_counters, by owning thread
    routed, dropped,    \* each thread's _PendingCounter
    totalRouted, totalDropped,  \* _total_routed and _total_dropped, by origin
    statsLock,
    pc, view, at, frame,        \* a router's place and locals
    rpc, size, seen, empty, cur, taken, \* a reader's place and locals
    counted, lost,  \* history: frames routed and deliveries dropped per thread
    stalls,         \* history: over-budget calls in a row, per subscriber
    reads           \* drains started (see MaxReads)

subVars == <<subs, snapshot, lastId, callbacks, trips, queued, stalls>>
countVars == <<registered, routed, dropped, totalRouted, totalDropped, statsLock, counted, lost>>
routeVars == <<pc, view, at, frame>>
readVars == <<rpc, size, seen, empty, cur, taken, reads>>
vars == <<subVars, countVars, routeVars, readVars>>

RouterPc == {"idle", "register", "count", "counted", "flush", "fan", "call", "queue", "full",
             "drop", "dropFlush"}

\* The places of a drain: in the loop, with the routed half of a counter, with its
\* dropped half, and at the question whether both are zero.
ReaderPc == {"idle", "drain", "publish", "reduce", "drops", "publishDrops", "reduceDrops",
             "test"}

TypeOK ==
    /\ subs \in [SubIds -> Subscription \cup {NoSub}]
    /\ snapshot \in [SubIds -> Subscription \cup {NoSub}]
    /\ lastId \in 0..MaxSubs /\ callbacks \in Nat
    /\ trips \in [SubIds -> Nat] /\ stalls \in [SubIds -> Nat]
    /\ queued \in [SubIds -> 0..QueueSize]
    /\ registered \in SUBSET Routers
    /\ routed \in [Routers -> Nat] /\ dropped \in [Routers -> Nat]
    /\ totalRouted \in [Routers -> Nat] /\ totalDropped \in [Routers -> Nat]
    /\ counted \in [Routers -> Nat] /\ lost \in [Routers -> Nat]
    /\ statsLock \in Readers \cup {Nobody}
    /\ pc \in [Routers -> RouterPc]
    /\ view \in [Routers -> [SubIds -> Subscription \cup {NoSub}]]
    /\ at \in [Routers -> 1..MaxSubs + 1]
    /\ frame \in [Routers -> Ids \cup {Nobody}]
    /\ rpc \in [Readers -> ReaderPc]
    /\ size \in [Readers -> Nat]
    /\ seen \in [Readers -> SUBSET Routers] /\ empty \in [Readers -> SUBSET Routers]
    /\ cur \in [Readers -> Routers \cup {Nobody}] /\ taken \in [Readers -> Nat]
    /\ reads \in 0..MaxReads

NoSubs == [i \in SubIds |-> NoSub]

Init ==
    /\ subs = NoSubs /\ snapshot = NoSubs
    /\ lastId = 0 /\ callbacks = 0
    /\ trips = [i \in SubIds |-> 0] /\ stalls = [i \in SubIds |-> 0]
    /\ queued = [i \in SubIds |-> 0]
    /\ registered = {}
    /\ routed = [t \in Routers |-> 0] /\ dropped = [t \in Routers |-> 0]
    /\ totalRouted = [t \in Routers |-> 0] /\ totalDropped = [t \in Routers |-> 0]
    /\ counted = [t \in Routers |-> 0] /\ lost = [t \in Routers |-> 0]
    /\ statsLock = Nobody
    /\ pc = [t \in Routers |-> "idle"]
    /\ view = [t \in Routers |-> NoSubs]
    /\ at = [t \in Routers |-> 1]
    /\ frame = [t \in Routers |-> Nobody]
    /\ rpc = [r \in Readers |-> "idle"]
    /\ size = [r \in Readers |-> 0]
    /\ seen = [r \in Readers |-> {}] /\ empty = [r \in Readers |-> {}]
    /\ cur = [r \in Readers |-> Nobody] /\ taken = [r \in Readers |-> 0]
    /\ reads = 0
-----------------------------------------------------------------------------
(* Subscriptions: every change publishes a new snapshot *)

\* _replace_subscription_locked, and every other change of the table.
Publish(table) == subs' = table /\ snapshot' = table

Replaced(i, callback) == [subs EXCEPT ![i].callback = callback]

Subscribe ==
    /\ lastId < MaxSubs
    /\ lastId' = lastId + 1
    /\ \E ids \in Filters, calls, queues \in BOOLEAN :
          /\ calls \/ queues
          /\ callbacks' = IF calls THEN callbacks + 1 ELSE callbacks
          /\ Publish([subs EXCEPT ![lastId'] =
                [callback |-> IF calls THEN callbacks' ELSE 0, queued |-> queues, ids |-> ids]])
    /\ UNCHANGED <<trips, queued, stalls, countVars, routeVars, readVars>>

Unsubscribe(i) ==
    /\ subs[i] # NoSub
    /\ Publish([subs EXCEPT ![i] = NoSub])
    /\ trips' = [trips EXCEPT ![i] = 0]
    /\ UNCHANGED <<lastId, callbacks, queued, stalls, countVars, routeVars, readVars>>

\* restore_callback: a new callback starts with a clean trip count.
RestoreCallback(i) ==
    /\ subs[i] # NoSub
    /\ callbacks < MaxSubs + MaxRestores
    /\ callbacks' = callbacks + 1
    /\ Publish(Replaced(i, callbacks'))
    /\ trips' = [trips EXCEPT ![i] = 0]
    /\ stalls' = [stalls EXCEPT ![i] = 0]
    /\ UNCHANGED <<lastId, queued, countVars, routeVars, readVars>>

\* clear() keeps the per-subscriber bookkeeping.
Clear ==
    /\ subs # NoSubs
    /\ Publish(NoSubs)
    /\ UNCHANGED <<lastId, callbacks, trips, queued, stalls, countVars, routeVars, readVars>>

\* The engine behind a subscriber takes a frame from its queue.
Consume(i) ==
    /\ queued[i] > 0
    /\ queued' = [queued EXCEPT ![i] = @ - 1]
    /\ UNCHANGED <<subs, snapshot, lastId, callbacks, trips, stalls, countVars, routeVars,
                   readVars>>
-----------------------------------------------------------------------------
(* route_frame: counting *)

Goto(t, place) == pc' = [pc EXCEPT ![t] = place]

\* The snapshot is read before anything else.
Route(t) ==
    /\ pc[t] = "idle" /\ counted[t] < MaxFrames
    /\ \E id \in Ids : frame' = [frame EXCEPT ![t] = id]
    /\ view' = [view EXCEPT ![t] = snapshot]
    /\ Goto(t, "register")
    /\ UNCHANGED <<at, subVars, countVars, readVars>>

\* _pending(): the counter is put into the registry, without a lock ...
Register(t) ==
    /\ pc[t] \in {"register", "full"}
    /\ registered' = registered \cup {t}
    /\ Goto(t, IF pc[t] = "register" THEN "count" ELSE "drop")
    /\ UNCHANGED <<routed, dropped, totalRouted, totalDropped, statsLock, counted, lost, view,
                   at, frame, subVars, readVars>>

\* ... and incremented after the call has returned.
CountRouted(t) ==
    /\ pc[t] = "count"
    /\ routed' = [routed EXCEPT ![t] = @ + 1]
    /\ counted' = [counted EXCEPT ![t] = @ + 1]
    /\ Goto(t, "counted")
    /\ UNCHANGED <<registered, dropped, totalRouted, totalDropped, statsLock, lost, view, at,
                   frame, subVars, readVars>>

\* The counter is read again; a drain may have been there.
Compare(t) ==
    /\ pc[t] = "counted"
    /\ Goto(t, IF routed[t] >= Threshold THEN "flush" ELSE "fan")
    /\ UNCHANGED <<view, at, frame, subVars, countVars, readVars>>

CountDropped(t) ==
    /\ pc[t] = "drop"
    /\ dropped' = [dropped EXCEPT ![t] = @ + 1]
    /\ lost' = [lost EXCEPT ![t] = @ + 1]
    /\ Goto(t, "dropFlush")
    /\ UNCHANGED <<registered, routed, totalRouted, totalDropped, statsLock, counted, view, at,
                   frame, subVars, readVars>>

\* _flush_counter_locked by the owner: it is not counting meanwhile, and whoever else
\* writes a counter holds the same lock.
FlushOwn(t) ==
    /\ totalRouted' = [totalRouted EXCEPT ![t] = @ + routed[t]]
    /\ totalDropped' = [totalDropped EXCEPT ![t] = @ + dropped[t]]
    /\ routed' = [routed EXCEPT ![t] = 0]
    /\ dropped' = [dropped EXCEPT ![t] = 0]

FlushRouted(t) ==
    /\ pc[t] = "flush" /\ statsLock = Nobody
    /\ FlushOwn(t)
    /\ Goto(t, "fan")
    /\ UNCHANGED <<registered, statsLock, counted, lost, view, at, frame, subVars, readVars>>

Passed(t) == at' = [at EXCEPT ![t] = @ + 1] /\ Goto(t, "fan")

FlushDropped(t) ==
    /\ pc[t] = "dropFlush" /\ statsLock = Nobody
    /\ IF dropped[t] >= Threshold
         THEN FlushOwn(t)
         ELSE UNCHANGED <<routed, dropped, totalRouted, totalDropped>>
    /\ Passed(t)
    /\ UNCHANGED <<registered, statsLock, counted, lost, view, frame, subVars, readVars>>
-----------------------------------------------------------------------------
(* route_frame: the subscribers of the snapshot, in order *)

Sub(t) == view[t][at[t]]

Fanning(t) == pc[t] = "fan" /\ at[t] <= MaxSubs

Wanted(t) == Sub(t) # NoSub /\ frame[t] \in Sub(t).ids

Skip(t) ==
    /\ Fanning(t) /\ ~Wanted(t)
    /\ Passed(t)
    /\ UNCHANGED <<view, frame, subVars, countVars, readVars>>

Match(t) ==
    /\ Fanning(t) /\ Wanted(t)
    /\ Goto(t, IF Sub(t).callback # 0 THEN "call" ELSE "queue")
    /\ UNCHANGED <<view, at, frame, subVars, countVars, readVars>>

\* A callback within its budget, or one that raised in time.
CallInBudget(t) ==
    /\ pc[t] = "call"
    /\ trips' = [trips EXCEPT ![at[t]] = 0]
    /\ stalls' = [stalls EXCEPT ![at[t]] = 0]
    /\ Goto(t, "queue")
    /\ UNCHANGED <<subs, snapshot, lastId, callbacks, queued, countVars, view, at, frame,
                   readVars>>

Demoted(i) == IF subs[i] # NoSub THEN Publish(Replaced(i, 0)) ELSE UNCHANGED <<subs, snapshot>>

\* Over budget, and there is a queue to fall back on: demoted at once.
CallOverBudgetDemoted(t) ==
    /\ pc[t] = "call" /\ Sub(t).queued
    /\ Demoted(at[t])
    /\ stalls' = [stalls EXCEPT ![at[t]] = @ + 1]
    /\ Goto(t, "queue")
    /\ UNCHANGED <<lastId, callbacks, trips, queued, countVars, view, at, frame, readVars>>

\* Mutant: the trip count starts again at every trip.
CallOverBudgetTrippedForgets(t) ==
    /\ pc[t] = "call" /\ ~Sub(t).queued
    /\ trips' = [trips EXCEPT ![at[t]] = IF @ + 1 > TripAfter THEN 1 ELSE @ + 1]
    /\ IF trips'[at[t]] > TripAfter THEN Demoted(at[t]) ELSE UNCHANGED <<subs, snapshot>>
    /\ stalls' = [stalls EXCEPT ![at[t]] = @ + 1]
    /\ Goto(t, "queue")
    /\ UNCHANGED <<lastId, callbacks, queued, countVars, view, at, frame, readVars>>

\* Over budget without a queue: removed after TripAfter calls in a row.
CallOverBudgetTripped(t) ==
    /\ pc[t] = "call" /\ ~Sub(t).queued
    /\ trips' = [trips EXCEPT ![at[t]] = @ + 1]
    /\ IF trips'[at[t]] >= TripAfter THEN Demoted(at[t]) ELSE UNCHANGED <<subs, snapshot>>
    /\ stalls' = [stalls EXCEPT ![at[t]] = @ + 1]
    /\ Goto(t, "queue")
    /\ UNCHANGED <<lastId, callbacks, queued, countVars, view, at, frame, readVars>>

\* put_nowait, or no queue at all.
Enqueue(t) ==
    /\ pc[t] = "queue"
    /\ Sub(t).queued => queued[at[t]] < QueueSize
    /\ queued' = [queued EXCEPT ![at[t]] = IF Sub(t).queued THEN @ + 1 ELSE @]
    /\ Passed(t)
    /\ UNCHANGED <<subs, snapshot, lastId, callbacks, trips, stalls, countVars, view, frame,
                   readVars>>

\* queue.Full: the frame is dropped for this subscriber.
QueueFull(t) ==
    /\ pc[t] = "queue" /\ Sub(t).queued /\ queued[at[t]] = QueueSize
    /\ Goto(t, "full")
    /\ UNCHANGED <<view, at, frame, subVars, countVars, readVars>>

Return(t) ==
    /\ pc[t] = "fan" /\ at[t] > MaxSubs
    /\ Goto(t, "idle")
    /\ at' = [at EXCEPT ![t] = 1]
    /\ view' = [view EXCEPT ![t] = NoSubs]
    /\ frame' = [frame EXCEPT ![t] = Nobody]
    /\ UNCHANGED <<subVars, countVars, readVars>>
-----------------------------------------------------------------------------
(* stats and flush_pending_counters: _drain_pending_locked *)

RGoto(r, place) == rpc' = [rpc EXCEPT ![r] = place]

Drain(r) ==
    /\ rpc[r] = "idle" /\ statsLock = Nobody /\ reads < MaxReads
    /\ reads' = reads + 1
    /\ statsLock' = r
    /\ size' = [size EXCEPT ![r] = Cardinality(registered)]
    /\ RGoto(r, "drain")
    /\ UNCHANGED <<registered, routed, dropped, totalRouted, totalDropped, counted, lost, seen,
                   empty, cur, taken, subVars, routeVars>>

\* The iteration over the set goes on only while its size has not changed.
Iterating(r) == rpc[r] = "drain" /\ Cardinality(registered) = size[r]

\* The locals of a drain that is over.
DrainEnds(r) ==
    /\ size' = [size EXCEPT ![r] = 0]
    /\ seen' = [seen EXCEPT ![r] = {}]
    /\ empty' = [empty EXCEPT ![r] = {}]
    /\ RGoto(r, "idle")

\* routed = counter.routed; a zero needs no settling.
DrainRead(r, t) ==
    /\ Iterating(r) /\ t \in registered \ seen[r]
    /\ cur' = [cur EXCEPT ![r] = t]
    /\ taken' = [taken EXCEPT ![r] = routed[t]]
    /\ RGoto(r, IF routed[t] = 0 THEN "drops" ELSE "publish")
    /\ UNCHANGED <<size, seen, empty, reads, subVars, countVars, routeVars>>

\* self._total_routed += routed
DrainPublish(r) ==
    /\ rpc[r] = "publish"
    /\ totalRouted' = [totalRouted EXCEPT ![cur[r]] = @ + taken[r]]
    /\ RGoto(r, "reduce")
    /\ UNCHANGED <<registered, routed, dropped, totalDropped, statsLock, counted, lost, size,
                   seen, empty, cur, taken, reads, subVars, routeVars>>

\* Mutant: the counter is zeroed instead of reduced by what was published.
DrainReduceZeroes(r) ==
    /\ rpc[r] = "reduce"
    /\ routed' = [routed EXCEPT ![cur[r]] = 0]
    /\ taken' = [taken EXCEPT ![r] = 0]
    /\ RGoto(r, "drops")
    /\ UNCHANGED <<registered, dropped, totalRouted, totalDropped, statsLock, counted, lost,
                   size, seen, empty, cur, reads, subVars, routeVars>>

\* counter.routed -= routed
DrainReduce(r) ==
    /\ rpc[r] = "reduce"
    /\ routed' = [routed EXCEPT ![cur[r]] = @ - taken[r]]
    /\ taken' = [taken EXCEPT ![r] = 0]
    /\ RGoto(r, "drops")
    /\ UNCHANGED <<registered, dropped, totalRouted, totalDropped, statsLock, counted, lost,
                   size, seen, empty, cur, reads, subVars, routeVars>>

\* The same three statements for the dropped half.
DropsRead(r) ==
    /\ rpc[r] = "drops"
    /\ taken' = [taken EXCEPT ![r] = dropped[cur[r]]]
    /\ RGoto(r, IF dropped[cur[r]] = 0 THEN "test" ELSE "publishDrops")
    /\ UNCHANGED <<size, seen, empty, cur, reads, subVars, countVars, routeVars>>

DropsPublish(r) ==
    /\ rpc[r] = "publishDrops"
    /\ totalDropped' = [totalDropped EXCEPT ![cur[r]] = @ + taken[r]]
    /\ RGoto(r, "reduceDrops")
    /\ UNCHANGED <<registered, routed, dropped, totalRouted, statsLock, counted, lost, size,
                   seen, empty, cur, taken, reads, subVars, routeVars>>

\* Mutant: the dropped half is zeroed.
DropsReduceZeroes(r) ==
    /\ rpc[r] = "reduceDrops"
    /\ dropped' = [dropped EXCEPT ![cur[r]] = 0]
    /\ taken' = [taken EXCEPT ![r] = 0]
    /\ RGoto(r, "test")
    /\ UNCHANGED <<registered, routed, totalRouted, totalDropped, statsLock, counted, lost,
                   size, seen, empty, cur, reads, subVars, routeVars>>

DropsReduce(r) ==
    /\ rpc[r] = "reduceDrops"
    /\ dropped' = [dropped EXCEPT ![cur[r]] = @ - taken[r]]
    /\ taken' = [taken EXCEPT ![r] = 0]
    /\ RGoto(r, "test")
    /\ UNCHANGED <<registered, routed, totalRouted, totalDropped, statsLock, counted, lost,
                   size, seen, empty, cur, reads, subVars, routeVars>>

\* A counter whose halves are both zero now will be pruned.
DrainTest(r) ==
    /\ rpc[r] = "test"
    /\ seen' = [seen EXCEPT ![r] = @ \cup {cur[r]}]
    /\ empty' = [empty EXCEPT ![r] =
          IF routed[cur[r]] = 0 /\ dropped[cur[r]] = 0 THEN @ \cup {cur[r]} ELSE @]
    /\ cur' = [cur EXCEPT ![r] = Nobody]
    /\ RGoto(r, "drain")
    /\ UNCHANGED <<size, taken, reads, subVars, countVars, routeVars>>

\* The empty counters leave the registry, the totals are returned.
DrainPrune(r) ==
    /\ Iterating(r) /\ registered \subseteq seen[r]
    /\ registered' = registered \ empty[r]
    /\ statsLock' = Nobody
    /\ DrainEnds(r)
    /\ UNCHANGED <<routed, dropped, totalRouted, totalDropped, counted, lost, cur, taken, reads,
                   subVars, routeVars>>

\* A thread has registered meanwhile: RuntimeError, and the with unlocks.
DrainFails(r) ==
    /\ rpc[r] = "drain" /\ ~Iterating(r)
    /\ statsLock' = Nobody
    /\ DrainEnds(r)
    /\ UNCHANGED <<registered, routed, dropped, totalRouted, totalDropped, counted, lost, cur,
                   taken, reads, subVars, routeVars>>

RouteStep(t) ==
    \/ Register(t) \/ CountRouted(t) \/ Compare(t) \/ FlushRouted(t) \/ Skip(t)
    \/ Match(t) \/ CallInBudget(t) \/ CallOverBudgetDemoted(t) \/ CallOverBudgetTripped(t)
    \/ Enqueue(t) \/ QueueFull(t) \/ CountDropped(t) \/ FlushDropped(t) \/ Return(t)

DrainStep(r) ==
    \/ \E t \in Routers : DrainRead(r, t)
    \/ DrainPublish(r) \/ DrainReduce(r) \/ DropsRead(r) \/ DropsPublish(r)
    \/ DropsReduce(r) \/ DrainTest(r) \/ DrainPrune(r) \/ DrainFails(r)

Next ==
    \/ \E t \in Routers : Route(t) \/ RouteStep(t)
    \/ \E r \in Readers : Drain(r) \/ DrainStep(r)
    \/ Subscribe
    \/ \E i \in SubIds : Unsubscribe(i) \/ RestoreCallback(i) \/ Consume(i)
    \/ Clear

Spec == Init /\ [][Next]_vars
-----------------------------------------------------------------------------
(* Properties *)

\* Whenever _stats_lock is free, no frame and no drop is counted twice or forgotten
\* between a thread's own counter and the totals, however drains have overlapped with
\* counting: what the subtraction in _flush_counter_locked is for.
FramesConserved ==
    statsLock = Nobody =>
        \A t \in Routers :
            /\ totalRouted[t] + routed[t] = counted[t]
            /\ totalDropped[t] + dropped[t] = lost[t]

\* A subscriber that overspends can stall the RX threads only so often in a
\* row: until it is demoted or tripped, and then once more for every thread
\* that had taken its snapshot before.
StallsBounded ==
    \A i \in SubIds : stalls[i] < TripAfter + Cardinality(Routers)

\* What stats is documented to give: the exact totals once the RX threads have
\* stopped, which needs every unpublished counter in the registry.
NothingUncounted ==
    (\A t \in Routers : pc[t] = "idle") =>
        \A t \in Routers : routed[t] + dropped[t] > 0 => t \in registered
-----------------------------------------------------------------------------
(* The inductive invariant behind FramesConserved. *)

\* What the drain under way has published of thread t's counter and not yet taken off
\* it, at the given place.
Twice(t, place) ==
    IF statsLock \in Readers /\ rpc[statsLock] = place /\ cur[statsLock] = t
      THEN taken[statsLock] ELSE 0

\* Between the read and the write of a drain the counter only grows: its owner
\* and the other readers flush under the lock that this reader holds.
DrainInv ==
    /\ \A t \in Routers :
          /\ totalRouted[t] + routed[t] = counted[t] + Twice(t, "reduce")
          /\ totalDropped[t] + dropped[t] = lost[t] + Twice(t, "reduceDrops")
    /\ \A r \in Readers :
          /\ rpc[r] # "idle" => statsLock = r
          /\ rpc[r] \notin {"idle", "drain"} => cur[r] \in Routers
          /\ rpc[r] \in {"publish", "reduce"} => taken[r] <= routed[cur[r]]
          /\ rpc[r] \in {"publishDrops", "reduceDrops"} => taken[r] <= dropped[cur[r]]

\* A subscriber has a callback in the table, which the next thread to route will
\* take into its snapshot.
Installed(i) == subs[i] # NoSub /\ subs[i].callback # 0

\* The places of a router that has done with the callback of the subscriber it is at.
PastCall == {"queue", "full", "drop", "dropFlush"}

\* The threads whose snapshot has a callback of subscriber i still ahead of them.
Ahead(i) ==
    {t \in Routers :
        /\ view[t][i] # NoSub /\ view[t][i].callback # 0
        /\ \/ at[t] < i
           \/ at[t] = i /\ pc[t] \notin PastCall}

\* What StallsBounded rests on: an installed callback has stalled fewer than
\* TripAfter calls in a row, and every thread that has it ahead counts once more.
StallInv ==
    /\ snapshot = subs
    /\ \A i \in SubIds :
          /\ stalls[i] + Cardinality(Ahead(i)) < TripAfter + Cardinality(Routers)
          /\ Installed(i) => stalls[i] <= trips[i] /\ trips[i] < TripAfter
          /\ i > lastId =>
                subs[i] = NoSub /\ trips[i] = 0 /\ stalls[i] = 0 /\ Ahead(i) = {}
    /\ \A t \in Routers :
          /\ pc[t] = "call" => t \in Ahead(at[t])
          /\ pc[t] \in {"call"} \cup PastCall => at[t] \in SubIds
=============================================================================
