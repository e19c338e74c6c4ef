------------------------------- MODULE TxRate -------------------------------
(***************************************************************************)
(* The rate limits of TxSafetyGateway: the global envelope, the default    *)
(* lane's sliding window, a categorised lane's token bucket, the streaks   *)
(* of rejections that engage the E-Stop, and the rollback of a reservation *)
(* whose frame the fence has killed.                                       *)
(*                                                                         *)
(* The policy stages run under the gateway lock, so one call's passage     *)
(* through them is one step.  What follows the lock (dispatch, rollback, a *)
(* deferred E-Stop and the clearing it causes) are steps of their own, and *)
(* other threads get in between.  SafetyCore has the fence in detail; here *)
(* a frame that the fence will refuse is "stale".  No name of this module  *)
(* is one of SafetyCore's: GatewayProofs extends both.                     *)
(***************************************************************************)
EXTENDS Integers, Sequences, FiniteSets, SequencesExt

CONSTANTS
    Threads,        \* threads that send or press stop
    Window,         \* RATE_LIMIT_WINDOW_NS, in ticks
    MaxRate,        \* MAX_TX_RATE_PER_SEC
    MaxTotal,       \* MAX_TOTAL_TX_PER_SEC
    EstopAfter,     \* RATE_ESTOP_AFTER
    MissAfter,      \* WHITELIST_ESTOP_AFTER
    Capacity, Refill,   \* BUDGETS of the categorised lane, per tick
    MaxTime, MaxAttempts, MaxStops, MaxRebinds,  \* bounds
    NoStamp

ASSUME RateAssumption ==
    /\ {Window, MaxRate, MaxTotal, EstopAfter, MissAfter, Capacity} \subseteq Nat \ {0}
    /\ {Refill, MaxTime, MaxAttempts, MaxStops, MaxRebinds} \subseteq Nat

VARIABLES
    now,
    total, totalStreak,     \* _tx_total_timestamps, _total_overload_streak
    lane, rateStreak,       \* _tx_timestamps, _rate_overload_streak
    misses, lastMiss,       \* _whitelist_miss_streak, _whitelist_last_miss_ns
    buckets, current,       \* the TxBudget objects made so far; the one in _budgets
    seq,                    \* _stamp_seq
    isEngaged,              \* EmergencyStopSystem._is_engaged
    pc, held,               \* a thread's place and its reservation
    attempts, stops,        \* calls and E-Stop engagements so far (see the bounds)
    sent,                   \* history: total stamps of frames sent on this bus, in the window
    firstRej, lastRej,      \* history: the default lane's current run of rejections
    missRun,                \* history: misses without a silent window in between
    since                   \* history: envelope rejections since the last stop was handled

windowVars == <<total, totalStreak, lane, rateStreak>>
missVars == <<misses, lastMiss, missRun>>
rejVars == <<firstRej, lastRej, since>>
rateVars == <<now, windowVars, missVars, buckets, current, seq, isEngaged, pc, held, attempts,
              stops, sent, rejVars>>

Stamp == [at : Nat, seq : Nat]
Bucket == [tokens : 0..Capacity, last : Nat, born : Nat, spent : Int]
Reservation == [total : Stamp \cup {NoStamp}, lane : Stamp \cup {NoStamp}, bucket : Nat]
Free == [total |-> NoStamp, lane |-> NoStamp, bucket |-> 0]

FullBucket == [tokens |-> Capacity, last |-> now, born |-> now, spent |-> 0]

RateTypeOK ==
    /\ now \in Nat
    /\ total \in Seq(Stamp) /\ lane \in Seq(Stamp)
    /\ {totalStreak, rateStreak, misses, lastMiss, missRun, seq, attempts, stops, firstRej, lastRej,
        since} \subseteq Nat
    /\ buckets \in Seq(Bucket) /\ current = Len(buckets) /\ current > 0
    /\ isEngaged \in BOOLEAN
    /\ pc \in [Threads -> {"idle", "flight", "stale", "trip", "notify"}]
    /\ held \in [Threads -> Reservation]
    /\ sent \in SUBSET Stamp

\* The monotonic clock is far from 0, which lastMiss keeps for "never".
RateInit ==
    /\ now = 1
    /\ total = <<>> /\ totalStreak = 0
    /\ lane = <<>> /\ rateStreak = 0
    /\ misses = 0 /\ lastMiss = 0 /\ missRun = 0
    /\ buckets = <<FullBucket>> /\ current = 1
    /\ seq = 0
    /\ isEngaged = FALSE
    /\ pc = [t \in Threads |-> "idle"]
    /\ held = [t \in Threads |-> Free]
    /\ attempts = 0 /\ stops = 0
    /\ sent = {}
    /\ firstRej = 0 /\ lastRej = 0 /\ since = 0
-----------------------------------------------------------------------------
(* The meters *)

Recent(stamp) == now - stamp.at < Window

\* The popleft loop: stamps leave at the old end until one is in the window.
Pruned(q) ==
    LET first == CHOOSE i \in 1..Len(q) + 1 :
                    /\ i <= Len(q) => Recent(q[i])
                    /\ \A j \in 1..i - 1 : ~Recent(q[j])
    IN  SubSeq(q, first, Len(q))

NewStamp(n) == [at |-> now, seq |-> seq + n]

\* TxBudget.try_consume starts by paying in what the clock has earned.
Refilled(b) ==
    LET earned == b.tokens + (now - b.last) * Refill
    IN  [b EXCEPT !.tokens = IF earned < Capacity THEN earned ELSE Capacity, !.last = now]

Consumed(b) == [Refilled(b) EXCEPT !.tokens = @ - 1, !.spent = @ + 1]

\* TxBudget.refund
Refunded(b) ==
    [b EXCEPT !.tokens = IF @ < Capacity THEN @ + 1 ELSE Capacity, !.spent = @ - 1]
-----------------------------------------------------------------------------
(* validate_and_transmit, Stages 3 and 6, under the gateway lock *)

\* A send that the supervisor, the lease or a content policy refuses changes
\* no meter; SafetyCore and Watchdog have the first two.
Calling(t) ==
    /\ pc[t] = "idle" /\ ~isEngaged
    /\ attempts < MaxAttempts /\ attempts' = attempts + 1

\* A rejected call returns, or first engages the E-Stop it has deferred.
Reject(t, trips) == pc' = [pc EXCEPT ![t] = IF trips THEN "trip" ELSE "idle"]

Silent == lastMiss # 0 /\ now - lastMiss > Window

\* Stage 3: an id outside the whitelist.
WhitelistMiss(t) ==
    /\ Calling(t)
    /\ misses' = (IF Silent THEN 0 ELSE misses) + 1
    /\ missRun' = (IF Silent THEN 0 ELSE missRun) + 1
    /\ lastMiss' = now
    /\ Reject(t, misses' >= MissAfter)
    /\ UNCHANGED <<now, windowVars, buckets, current, seq, isEngaged, held, stops, sent,
                   rejVars>>

EnvelopeOpen == Len(Pruned(total)) < MaxTotal

\* The envelope is full.  A protocol response to inbound traffic never trips.
TotalRefused(t, inbound) ==
    /\ Calling(t) /\ ~EnvelopeOpen
    /\ total' = Pruned(total)
    /\ totalStreak' = totalStreak + 1
    /\ since' = since + 1
    /\ Reject(t, totalStreak' >= EstopAfter /\ ~inbound)
    /\ UNCHANGED <<now, lane, rateStreak, missVars, buckets, current, seq, isEngaged, held,
                   stops, sent, firstRej, lastRej>>

\* The simulation lane turns away a frame that is not synthetic, before any
\* stamp is made.
SimulationRefused(t) ==
    /\ Calling(t) /\ EnvelopeOpen
    /\ total' = Pruned(total) /\ totalStreak' = 0
    /\ UNCHANGED <<now, lane, rateStreak, missVars, buckets, current, seq, isEngaged, pc,
                   held, stops, sent, rejVars>>

\* The envelope admits the call: its stamp is in, whatever the lane says next.
EnterEnvelope(t) ==
    /\ Calling(t) /\ EnvelopeOpen
    /\ total' = Append(Pruned(total), NewStamp(1))
    /\ totalStreak' = 0
    /\ UNCHANGED <<now, missVars, current, isEngaged, stops, sent, since>>

\* The default lane's window is full.
LaneRefused(t, inbound) ==
    /\ EnterEnvelope(t)
    /\ Len(Pruned(lane)) >= MaxRate
    /\ lane' = Pruned(lane)
    /\ rateStreak' = rateStreak + 1
    /\ firstRej' = IF rateStreak = 0 THEN now ELSE firstRej
    /\ lastRej' = now
    /\ seq' = seq + 1
    /\ Reject(t, rateStreak' >= EstopAfter /\ ~inbound)
    /\ UNCHANGED <<buckets, held>>

\* Mutant: an admission does not end the run of rejections.
LaneAdmittedKeepsStreak(t) ==
    /\ EnterEnvelope(t)
    /\ Len(Pruned(lane)) < MaxRate
    /\ lane' = Append(Pruned(lane), NewStamp(2))
    /\ seq' = seq + 2
    /\ pc' = [pc EXCEPT ![t] = "flight"]
    /\ held' = [held EXCEPT ![t] = [total |-> NewStamp(1), lane |-> NewStamp(2), bucket |-> 0]]
    /\ UNCHANGED <<rateStreak, buckets, firstRej, lastRej>>

\* Mutant: a whitelisted frame clears the misses before it.
BudgetAdmittedForgives(t) ==
    /\ Calling(t) /\ EnvelopeOpen
    /\ total' = Append(Pruned(total), NewStamp(1))
    /\ totalStreak' = 0
    /\ misses' = 0
    /\ Refilled(buckets[current]).tokens >= 1
    /\ buckets' = [buckets EXCEPT ![current] = Consumed(@)]
    /\ seq' = seq + 1
    /\ pc' = [pc EXCEPT ![t] = "flight"]
    /\ held' = [held EXCEPT ![t] = [total |-> NewStamp(1), lane |-> NoStamp,
                                    bucket |-> current]]
    /\ UNCHANGED <<now, missRun, lastMiss, current, isEngaged, stops, sent, since, lane,
                   rateStreak, firstRej, lastRej>>

\* The default lane admits the call: a stamp in each window is its reservation.
LaneAdmitted(t) ==
    /\ EnterEnvelope(t)
    /\ Len(Pruned(lane)) < MaxRate
    /\ lane' = Append(Pruned(lane), NewStamp(2))
    /\ rateStreak' = 0 /\ firstRej' = 0 /\ lastRej' = 0
    /\ seq' = seq + 2
    /\ pc' = [pc EXCEPT ![t] = "flight"]
    /\ held' = [held EXCEPT ![t] = [total |-> NewStamp(1), lane |-> NewStamp(2), bucket |-> 0]]
    /\ UNCHANGED buckets

\* A categorised lane's bucket is dry.
BudgetRefused(t) ==
    /\ EnterEnvelope(t)
    /\ Refilled(buckets[current]).tokens < 1
    /\ buckets' = [buckets EXCEPT ![current] = Refilled(@)]
    /\ seq' = seq + 1
    /\ UNCHANGED <<lane, rateStreak, pc, held, firstRej, lastRej>>

\* A categorised lane admits the call: its reservation names the bucket.
BudgetAdmitted(t) ==
    /\ EnterEnvelope(t)
    /\ Refilled(buckets[current]).tokens >= 1
    /\ buckets' = [buckets EXCEPT ![current] = Consumed(@)]
    /\ seq' = seq + 1
    /\ pc' = [pc EXCEPT ![t] = "flight"]
    /\ held' = [held EXCEPT ![t] = [total |-> NewStamp(1), lane |-> NoStamp,
                                    bucket |-> current]]
    /\ UNCHANGED <<lane, rateStreak, firstRej, lastRej>>
-----------------------------------------------------------------------------
(* After the lock: dispatch or rollback *)

Finish(t) ==
    /\ pc' = [pc EXCEPT ![t] = "idle"]
    /\ held' = [held EXCEPT ![t] = Free]

\* The fence has not moved: the frame goes out and its reservation stays.
Dispatch(t) ==
    /\ pc[t] = "flight"
    /\ sent' = sent \cup {held[t].total}
    /\ Finish(t)
    /\ UNCHANGED <<attempts, now, windowVars, missVars, buckets, current, seq, isEngaged,
                   stops, rejVars>>

\* Mutant: a blind pop() takes the newest stamp out.
RollbackNewest(t) ==
    /\ pc[t] \in {"flight", "stale"}
    /\ total' = IF total = <<>> THEN total ELSE Front(total)
    /\ lane' = IF held[t].lane = NoStamp \/ lane = <<>> THEN lane ELSE Front(lane)
    /\ buckets' = IF held[t].bucket = 0 THEN buckets
                  ELSE [buckets EXCEPT ![held[t].bucket] = Refunded(@)]
    /\ Finish(t)
    /\ UNCHANGED <<attempts, now, totalStreak, rateStreak, missVars, current, seq,
                   isEngaged, stops, sent, rejVars>>

\* Mutant: the refund goes to the bucket that is bound by now.
RollbackCurrent(t) ==
    /\ pc[t] \in {"flight", "stale"}
    /\ total' = RemoveFirst(total, held[t].total)
    /\ lane' = RemoveFirst(lane, held[t].lane)
    /\ buckets' = IF held[t].bucket = 0 THEN buckets
                  ELSE [buckets EXCEPT ![held[t].bucket].spent = @ - 1,
                                       ![current].tokens = IF @ < Capacity THEN @ + 1 ELSE @]
    /\ Finish(t)
    /\ UNCHANGED <<attempts, now, totalStreak, rateStreak, missVars, current, seq,
                   isEngaged, stops, sent, rejVars>>

\* _rollback_tx_reservation gives back exactly what this call took, from a
\* frame the fence refused or one that E2E stamping could not seal.
\* deque.remove leaves a queue alone that no longer has the stamp.
RollbackReservation(t) ==
    /\ pc[t] \in {"flight", "stale"}
    /\ total' = RemoveFirst(total, held[t].total)
    /\ lane' = RemoveFirst(lane, held[t].lane)
    /\ buckets' = IF held[t].bucket = 0 THEN buckets
                  ELSE [buckets EXCEPT ![held[t].bucket] = Refunded(@)]
    /\ Finish(t)
    /\ UNCHANGED <<attempts, now, totalStreak, rateStreak, missVars, current, seq,
                   isEngaged, stops, sent, rejVars>>
-----------------------------------------------------------------------------
(* E-Stop, faults and rebinds *)

\* The fence has moved: every frame in flight will be refused.
Fenced(places) == [t \in Threads |-> IF places[t] = "flight" THEN "stale" ELSE places[t]]

\* Anybody may call trigger(), too.
StopPressed(t) ==
    /\ pc[t] = "idle" /\ stops < MaxStops
    /\ pc' = [pc EXCEPT ![t] = "trip"]
    /\ UNCHANGED <<attempts, now, windowVars, missVars, buckets, current, seq, isEngaged,
                   held, stops, sent, rejVars>>

\* The engagement, outside the gateway lock.
FireStop(t) ==
    /\ pc[t] = "trip" /\ stops < MaxStops
    /\ isEngaged' = TRUE
    /\ stops' = stops + 1
    /\ pc' = [Fenced(pc) EXCEPT ![t] = "notify"]
    /\ UNCHANGED <<attempts, now, windowVars, missVars, buckets, current, seq, held, sent,
                   rejVars>>

\* _on_estop_triggered clears the default lane and two of the three streaks.
OnEstopTriggered(t) ==
    /\ pc[t] = "notify"
    /\ lane' = <<>> /\ rateStreak' = 0 /\ firstRej' = 0 /\ lastRej' = 0
    /\ misses' = 0 /\ lastMiss' = 0 /\ missRun' = 0
    /\ since' = 0
    /\ pc' = [pc EXCEPT ![t] = "idle"]
    /\ UNCHANGED <<attempts, now, total, totalStreak, buckets, current, seq, isEngaged,
                   held, stops, sent>>

Reset ==
    /\ isEngaged /\ isEngaged' = FALSE
    /\ pc' = Fenced(pc)
    /\ UNCHANGED <<attempts, now, windowVars, missVars, buckets, current, seq, held, stops,
                   sent, rejVars>>

\* _on_safety_state_changed on FAULT, from whichever thread faults.
FaultCallback ==
    /\ lane # <<>> /\ lane' = <<>>
    /\ UNCHANGED <<attempts, now, total, totalStreak, rateStreak, missVars, buckets,
                   current, seq, isEngaged, pc, held, stops, sent, rejVars>>

\* rebind_bus: every meter starts clean for the new channel.
Rebind ==
    /\ current <= MaxRebinds
    /\ total' = <<>> /\ totalStreak' = 0
    /\ lane' = <<>> /\ rateStreak' = 0 /\ firstRej' = 0 /\ lastRej' = 0
    /\ misses' = 0 /\ lastMiss' = 0 /\ missRun' = 0
    /\ buckets' = Append(buckets, FullBucket)
    /\ current' = current + 1
    /\ pc' = Fenced(pc)
    /\ sent' = {}
    /\ UNCHANGED <<attempts, now, seq, isEngaged, held, stops, since>>

Tick ==
    /\ now < MaxTime
    /\ now' = now + 1
    /\ sent' = {x \in sent : now' - x.at < Window}
    /\ UNCHANGED <<attempts, windowVars, missVars, buckets, current, seq, isEngaged, pc,
                   held, stops, rejVars>>

Call(t) ==
    \/ WhitelistMiss(t)
    \/ \E inbound \in BOOLEAN : TotalRefused(t, inbound) \/ LaneRefused(t, inbound)
    \/ SimulationRefused(t)
    \/ LaneAdmitted(t) \/ BudgetAdmitted(t) \/ BudgetRefused(t)

RateNext ==
    \/ \E t \in Threads :
          \/ Call(t)
          \/ Dispatch(t) \/ RollbackReservation(t)
          \/ StopPressed(t) \/ FireStop(t) \/ OnEstopTriggered(t)
    \/ Reset \/ FaultCallback \/ Rebind \/ Tick

RateSpec == RateInit /\ [][RateNext]_rateVars
-----------------------------------------------------------------------------
(* Properties *)

Cleared == {t \in Threads : pc[t] = "flight"}

\* However rollbacks, stops and rebinds interleave, the frames sent on the
\* bound bus or cleared for it, counted by the moment they were admitted,
\* never exceed the aggregate ceiling within one window.
EnvelopeBound ==
    Cardinality({x \in sent \cup {held[t].total : t \in Cleared} : Recent(x)}) <= MaxTotal

\* A run of default-lane rejections that is long enough to engage the E-Stop
\* is a burst: all of it falls into one window.
StreakInOneWindow == rateStreak > 0 => lastRej - firstRej < Window

\* What a categorised lane has let through is bounded by its burst and its
\* refill since the bucket was made, refunds across a rebind included.
BucketBound ==
    \A b \in 1..Len(buckets) :
        buckets[b].spent <= Capacity + (now - buckets[b].born) * Refill

\* Misses without a silent window between them cannot be washed out by
\* whitelisted frames: when there are enough, an E-Stop is on its way.
MissesLatch ==
    missRun >= MissAfter => \E t \in Threads : pc[t] \in {"trip", "notify"}

\* What the comment on the reservation claims: a rejected call leaves no stamp
\* of its own behind.
NoOrphanStamps ==
    ToSet(total) \subseteq
        {x \in ToSet(total) : ~Recent(x)} \cup sent \cup {held[t].total : t \in Threads}

\* What the comment on the E-Stop callback claims: the streak that engaged the
\* E-Stop starts over once the stop has been handled, so the envelope engages
\* it again only after another full run of rejections.
RelatchNeedsFullStreak ==
    [][\A t \in Threads :
          pc[t] = "idle" /\ pc'[t] = "trip" /\ totalStreak' > totalStreak
             => since' >= EstopAfter]_rateVars
=============================================================================
