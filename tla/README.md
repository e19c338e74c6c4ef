# A TLA+ verification of UCANLAB

UCANLAB is a Python desktop application that talks to vehicle networks (CAN,
J1939, UDS, OBD-II, NMEA 2000).  It may transmit on a live vehicle, so the part
that matters most is the chain that decides whether a frame may leave and that
stops everything within a bounded time.  Around it run several receive threads,
a recorder that must lose nothing, and protocol engines with timers.

This directory holds TLA+ models of the concurrent parts, TLC configurations
that check them on small instances, and TLAPS proofs for every value of their
constants.  All source paths below are relative to `src/src/` of the repository
unless they start with `src/`.

* [Inventory](#inventory)
* [Modules](#modules)
* [Runs and bounds](#runs-and-bounds)
* [Fairness](#fairness)
* [Proofs](#proofs)
* [Where the code and its documentation disagree](#where-the-code-and-its-documentation-disagree)
* [What is not modelled](#what-is-not-modelled)
* [Plan](#plan)

## Inventory

### The transmit-safety core

| Component | State | Operations | Correct when |
|---|---|---|---|
| `SafetySupervisor` (`safety/state_machine.py`) | one of six states, an arm token, registered callbacks | `transition_to`, `arm_with_token`, `trigger_fault`, `trigger_estop` | TX authority never coexists with a latched E-Stop; a transition that was checked before the latch closed cannot win |
| `EmergencyStopSystem` (`safety/estop.py`) | engaged flag, engagement epoch, TX fence, challenge, used tokens, failed attempts, cached key | `trigger`, `issue_reset_challenge`, `reset`, `refresh_secret`, abort hooks | it opens only for an answer to its current engagement, once; every transition moves the fence; a good answer is never locked out |
| `TxWatchdogSupervisor` (`safety/watchdog.py`) | lease anchors, running flag, stop event, monitor thread | `start`, `stop`, `heartbeat`, `anchor_lease_for_arm`, the monitor loop | one monitor; no valid lease without a monitor; a lapse or a suspended host costs the authority |
| `TxSafetyGateway` (`safety/gateway.py`) | bus, whitelist, rate meters, streaks, abort hook, policies, consumed confirmations | `validate_and_transmit`, `rebind_bus`, `rebind_whitelist`, E-Stop and state callbacks | a frame is sent only under the engagement, fence, bus and whitelist it was validated against; meters keep their ceilings |

They call each other from different threads and in both directions.  A sender
holds the gateway's lock while it validates, drops it, and takes the E-Stop's
`tx_send_lock` to compare the fence and to send.  `trigger()` engages under the
E-Stop's lock, drops it, and then faults the supervisor, whose callbacks take
the watchdog's and the gateway's lock.  The watchdog's monitor faults the
supervisor first and triggers the E-Stop second.  Operators arm, disarm, reset
and rebind from the UI thread.  The hard part is what happens between two lock
sections of one thread: every such place is a step of its own in the models.

### Receive path and recorder

| Component | State | Operations | Correct when |
|---|---|---|---|
| `FrameRouter` (`engine/router.py`) | subscriptions, an immutable snapshot, trip counts, one counter per RX thread | `route_frame`, `subscribe`, `unsubscribe`, `restore_callback`, `clear`, `stats` | no count is lost or doubled although RX threads take no lock; a slow callback cannot stall reception for ever |
| `RollingDiskBuffer` (`engine/buffer/rolling_disk.py`) | pending frames, chunk index, bounded queue, worker, chunk files | `append`, `flush`, `read_all_stored_frames`, `close`, `clear`, retention | every accepted frame reaches the disk once and in order, or is given up on a path that is announced |
| `BinaryRingBuffer` (`engine/buffer/ring_buffer.py`) | a ring under one lock | `append`, `append_batch`, snapshots | overwrite accounting is exact |
| `ReassemblyPipeline` (`engine/pipeline`) | one engine per transport | `feed` | a frame reaches the engine it belongs to |

### Protocol engines

| Component | State | Hard behaviour |
|---|---|---|
| J1939 address claim (`protocols/j1939/address_claim.py`) | address, claim state, timer generation, claims per address | contention, a timer of an old claim, Commanded Address stored under the lock and claimed after it, a rate limit that drops a contending claim |
| J1939 transport (`protocols/j1939/transport.py`) | BAM and RTS/CTS sessions, quotas | session replacement, quota drift, data packets that name no PGN, acknowledgements that name no transfer, timeouts |
| ISO-TP (`protocols/uds/isotp.py`) | reassembly sessions, flow control | lost or wrapped consecutive frames, a first frame that replaces a session, N_Cr |
| UDS client (`protocols/uds/client.py`) | one exchange at a time, operation lock, subscription queue | late answers, Flow Control left over, endless WAIT and response-pending, the keep-alive of another thread |
| UDS flasher (`protocols/uds/flasher.py`) and its driver in `ui/desktop_app.py` | step, cancel flag, worker and keep-alive threads, progress status | a cancel at any moment, lost answers, a permission revoked half way, recovery, the locks of two threads that report to one status |
| OBD poller (`protocols/obd/poller.py`) | jobs, transactions, runner thread | a late answer to a retried request, `stop()` before the runner has published its task |
| NMEA 2000 fast packet (`protocols/nmea2000/fast_packet.py`) | sessions by sequence counter | replacement and expiry |

### The rest

Evidence chain, license, cloud upload, launcher, replay player, connection
wizard, exporters, decoders, diagnostics and the user interface are listed in
`PROJECT.json`, each with the reason it is not modelled.

## Modules

| Module | Models | Notes |
|---|---|---|
| `SafetyStates` | the six states and the transition table of `state_machine.py` | constants only |
| `SafetyCore` | supervisor, E-Stop latch and fence, lease and gateway dispatch as their threads run them | composes the four components |
| `EStopLatch` | what an E-Stop promises: it latches at once and opens once per authorisation of the current engagement | abstract specification |
| `EStop` | engagement, challenge, signed tokens, the two halves of `reset()`, key rotation | implements `EStopLatch` |
| `TxRate` | the envelope, the default lane, the token bucket, whitelist misses, streaks and the rollback | |
| `Watchdog` | lease, monitor thread, `start()`, `stop()`, crash path, process teardown | |
| `FrameRouter` | fan-out, per-thread counters, draining, demotion and tripping of slow callbacks | |
| `RollingDisk` | pending list, queue, worker, synchronous fallback, retention, reading, closing, clearing, reopening | |
| `AddressClaim` | nodes with an engine each, their timers and callbacks, the bus between them | liveness |
| `UdsClient` | a client's exchange over ISO-TP, its queue, the keep-alive, and an external ECU | covers `UdsClient`, `IsoTpTransport` and the subscription queue |
| `J1939Transport` | reception and sending of multi-packet messages, both ends of the same class | |
| `Flasher` | `flash_start()`, its worker in `execute_flash()`, `flash_cancel()`, cleanup, and an external ECU | takes an exchange of `UdsClient` as one step |
| `*Proofs` | theorems about the module they are named after; `GatewayProofs` about `SafetyCore` and `TxRate`, `RouterFlasherProofs` about `FrameRouter` and `Flasher` | |
| `MC*` | values of the constants for TLC | |

How the models correspond to the code:

* **Steps.** What the code does under one lock without reading another component
  is one step.  Where it has released the lock, or waits for another one, a new
  step begins.  A thread's place is a `pc` value named for what it does next, and
  its locals are variables of their own.  In `SafetyCore` the locks that are held
  across steps (`supLock`, `gwLock`, `sendLock`) are variables, the others are
  atomic steps.
* **Data.** Buses, ids, keys and frames are model values or numbers.  A signature
  is the record of what was signed: it can be compared and not forged.  A filter
  is the set of ids it admits.  A chunk file is its index and its frames.
* **Time.** A counter of ticks in `EStop` and `TxRate`, the lease's age in
  `Watchdog`, the time left of each deadline in `UdsClient`, the age of each
  session in `J1939Transport`; a timeout elsewhere is a step that may happen at
  any moment.
* **Other nodes.** An ECU, another node of the bus, a lost frame are external:
  they do what the protocol allows and, where the code handles it, what it does
  not.
* **E-Stop key.** `EStop` has the secret provider that can change at run time
  (`EphemeralSecretBackend`, `safety/secret_provider.py`): a key is named by the
  revision that installed it.
* **History variables** are marked "history" where they are declared.  No action
  reads them in a guard, except to bound the model.
* **Mutants.** A definition commented "Mutant" is a plausible bug in the
  definition that follows it.  It is not part of any specification; replacing the
  definition by it must break the property `PROJECT.json` names.

### SafetyCore

A sender goes through `idle -> lease -> estop -> snapE -> snapF -> phase2 ->
fence -> engaged -> send`: the locked Phase 1 reads the lease, the E-Stop, the
engagement and the fence one after another, Phase 2 runs without the gateway's
lock, Phase 3 compares the fence and the engagement under `tx_send_lock`.
A tripper (a thread in `trigger()`, or the monitor) engages and moves the fence,
drops the lock, faults the supervisor, runs the supervisor's callbacks and the
abort hook.  An operator commits a transition in two steps (the E-Stop check and
the commit, `supLock` held), resets the E-Stop in two (release, fence), and
rebinds bus or whitelist under `sendLock`.

`trigger_fault()` belongs to whoever calls it: to a tripper, the monitor first.

### EStop

`reset()` is `load` (read the revision), `swap` (load the key if it changed),
`verify` (one lock section: cooldown, window, replay, signature, release) and
`bump` (the fence).  Submissions are structured tokens, bare signatures and junk;
the signatures offered are those the authority has made, wrong and garbled ones.

### TxRate

A call's passage through the policy stages is one step because it holds the
gateway's lock; dispatch, rollback, a deferred engagement and the clearing it
causes are others.  A reservation names the stamps and the token bucket it took,
as the code's rollback does.  `stale` is a frame that the fence will refuse.

### Watchdog

Monitors are numbered: `_thread` is the number of the one the object refers to.
The monitor's loop, its crash path and its `finally` block are steps; so are the
flag, the event and the join of `stop()`.  `age` is what the monotonic clock
says of the lease, `gap` what the wall clock adds while the host sleeps.

### FrameRouter

An RX thread reads the snapshot, registers its counter, increments it, compares it
with the threshold, flushes it, and walks the snapshot's subscribers.  A drain
iterates the registry; for each counter it takes a step per statement, three for the
routed half, three for the dropped half and one for the question whether both are
zero, while the owner counts on.  The totals are kept by origin to state what is
conserved.

One thing is assumed of the interpreter: an augmented assignment to an attribute
(`pending.routed += 1`, `counter.routed -= routed`) is one step.  CPython 3.12 and
3.13 (`pyproject.toml:10` asks for 3.12) switch threads at calls and at jumps back,
and these statements have neither between their load and their store.  The docstring
at `engine/router.py:154-163` claims less, that single reads and writes are atomic;
on that alone the subtraction would not help, because a drain's store could fall
between the load and the store of the owner's `+= 1`.  A free-threaded build is not
covered.

### RollingDisk

Appenders and owners share the flush path: `detach -> build -> queue` or, when
the queue is full, the same write steps as the worker (`write -> rename -> count
-> retain -> resync`).  The worker's timed `get()` and its look at `_closed` are
two steps.  `Restart` stands for a crash at any moment, and for closing and
opening the buffer again, with the index read from the directory.

### AddressClaim

One action per entry point: `Start` is the UI's button (`start_claiming()` and
arming the window before the claim is transmitted), `Transmitted` and
`TransmissionFailed` what the UI thread reports afterwards, `Receive` the whole of
`handle_rx_frame()` for a claim (rate limit, table, contention), `RequestFrame`
and `CommandedAddress` its other two branches, `Answer` and `AnswerRejected` the RX
thread's transmission of what the engine returned.  A timer that has expired is a
callback in `queued`, known by whether its generation is still the engine's; it
waits for the lock while frames are handled.  `inbox` is a FIFO per node.

### UdsClient

`ex[c]` is the exchange that holds client `c`'s lock: its phase (`fc` waiting for
Flow Control, `block` sending a granted block, `answer`), the request, what it has
sent and may send, its WAIT and pending counts and the time left until each
deadline.  `queue` is the subscription's queue, from which the client takes one
frame at a time; `session` the one reassembly session.  The ECU takes frames in
order, grants, answers, answers pending, or breaks off an answer.  A frame carries
the number of the request it belongs to, which no code reads: it is what the
properties compare.

### J1939Transport

Every method runs under `_sessions_lock`, so a received frame is one step, with
everything `_handle_tp_cm`, `_handle_tp_dt` or `_handle_tx_cm` calls.  The receiving
half is the tool's; the sending half is the same class at each source.  The
aborts that `start_cmdt_transfer()` only queues are `pending` until the next drain.
`unheard`, `hurt` and `astray` are history: they name the transfers to which the
protocol promises nothing (a loss, a refusal without an answer, an answer that
another transfer of the PGN may have caused).

### Flasher

`w[f]` is one accepted flash: first `flash_start()` (`arming`, `engine`), then the
worker (`start`, `claim`, `check`, `send`, `answer` per step; `exit`, `retreat` in
recovery; `refused`, `settle`, `cleanup`, `report`).  At `start` it takes the engine
that `self.flashing_engine` then is, possibly that of a later flash; an engine which
another worker runs already refuses it (`FLASH_ALREADY_ACTIVE`).  `Order` lists the
steps of `_execute_flash_inner`; the configuration leaves some out (`Skipped`: the
application gives no key and no erase routine).  `Check` is `_check_cancelled()` with the periodic recheck of the
preconditions; `Refused`, `Lost`, `Rejected` and `Answered` are the outcomes of an
exchange.  What takes `_flash_lock` for a moment waits while `stuck` holds it.
`EngineCancel` is `cancel()` called on the engine, as the unit tests do, and
`FlashCancel` the bridge's `flash_cancel()`.

## Runs and bounds

| Run | Instance | What it shows |
|---|---|---|
| `core_stop` | one sender, stopper, monitor, operator; two buses, two ids; 2 bounded calls | an engaged E-Stop has revoked the authority or is about to; a frame overtaken by a trigger or a rebind is dead, also after the reset |
| `core_live` | one of each, refused masks included | a latched E-Stop reaches the supervisor; a lost lease is enforced |
| `estop_reset` | two callers; 2 challenges, 1 failure, 1 rotation, 2 ticks | `EStop` implements `EStopLatch`; no fence bump is lost; a fresh answer is always accepted; a key `reset()` cached is never labelled newer than it is |
| `rate_bounds` | two threads, 4 calls, 4 ticks with a window of 2, one stop, one rebind | ceilings, streaks and miss counts |
| `watchdog` | one caller, two monitors, one arm, crashes and suspends | single monitor, lease bound to it and to the pulse, lapses are acted upon |
| `router` | two RX threads, a reader, 2 frames, one subscriber | conservation of both counts whenever `_stats_lock` is free, bounded stalls |
| `disk` | two appenders, one of them the owner; 3 frames, threshold 2, queue of 1, budget of 1 chunk, one clear, one restart, failing writes | no frame lost or doubled, order, drain, close, a worker that survives |
| `address_claim` | two nodes that prefer one address, one of them with a fallback; 2 claims, requests or commands, a rate limit of 1, one lost transmission | a duplicate is about to be noticed; only a claim's own window confirms it; every claim settles |
| `uds_client` | one client and its keep-alive, 3 requests of which some have 2 consecutive frames and some answers of 1, one WAIT, one pending, a queue of 2 | which answers an exchange takes, grants, no interrupted request, every exchange ends |
| `j1939_transport` | one source, two PGNs of 3 packets granted two at a time, 3 transfers, one loss or stray grant, quotas and storm limit of 1 | whole messages, true acknowledgements, no silent stall, exact quota slots |
| `flash` | 2 flashes of 2 blocks, counters that wrap at 2, one poll, one cancel, one loss | after a cancel nothing is written, the reset included, but what had passed its check; no unconfirmed image is booted; recovery tries to close every download; again and again all flashes are over and TX is disarmed |
| `flash_cancel` | one flash | violation, see below |

Why these bounds are enough: each hazard needs one actor per role, and two where
two of a kind race (two resets, two RX threads, two appenders).  A window of two
ticks within four lets stamps expire and be rolled back late.  Three frames with
a budget of one chunk are the fewest for which retention removes an old chunk, a
newer one survives, a restart reads the index and a third is stored.  Queues have
room for one or two entries, so that full is reached at once.  Two requests leave one
answer behind, and the third shows what happens to it.  A message of three packets
granted two at a time has a full and a partial window; the third transfer can
meet the ends of the first two.  Two blocks have a boundary between them, and the
second flash can meet what the first has left in the ECU.  Timeouts of 0 ticks
in `j1939_transport` let a session expire at any tick.  The proofs below cover
every number of threads, ids and buses for the properties they name.  The watchdog is checked
with one caller because two make the liveness check too large; its safety
properties are proved for any number.

`SYMMETRY` is used only in runs without liveness, over sets whose members the
specification treats alike.  `CHECK_DEADLOCK FALSE` is set where a bound on
calls, time or frames makes the model stop, and in the two flash runs, where the
code itself can; the two core runs check deadlock.  `flash` includes `flash_cancel()`:
its `FlashEnds` exempts what `flash_cancel` shows, and its other properties hold in
the states the deadlock leaves behind.

## Fairness

* A thread that is in the middle of a call keeps running (`WF`).  The code has no
  thread that blocks without a timeout, other than on locks.
* In `SafetyCore` a thread that has to get a lock gets it eventually (`SF`) when
  the lock is released again and again: CPython's locks are not fair, but the
  operating system's scheduler does not starve a waiter for ever.  The runs show
  that nothing else is needed, so no cycle of locks can keep a trigger from the
  supervisor.
* In `Watchdog` the monitor thread and a `stop()` in progress keep running.  In
  `RollingDisk` only the worker is fair: callers may stop anywhere.
* In `AddressClaim` a transmission returns, a timer and its callback run, and the RX
  thread goes on; no node has to begin a claim and no rate window has to pass.
* In `UdsClient` time passes and a thread in an exchange takes what is in its queue,
  sends what it may and notices its deadlines.  Nothing is asked of the ECU.
* In `Flasher` a `flash_start()` in progress and a worker go on: an exchange ends,
  which is `ExchangeEnds` of `UdsClient`, and the join of the keep-alive has a
  timeout.  Nobody has to cancel.
* `SafetyCore`'s safety runs, `TxRate`, `FrameRouter` and `J1939Transport` need none:
  their runs check safety only.
* Nobody has to start a call, the clock need not advance, and no crash, suspend or
  failure has to happen.

## Proofs

| Theorem | For every | Argument |
|---|---|---|
| `GatewayProofs!TypeCorrect` | number of threads, buses, ids, whitelists | step by step |
| `GatewayProofs!StoppedMeansRevoked` | the same | `StopInv`: a transition that passed the E-Stop check before the latch closed still holds the supervisor's lock, so the tripper that closed it has not looked yet |
| `GatewayProofs!TriggerKillsInFlight` | the same | `FenceInv`: no snapshot of the fence is ahead of it, and that of a frame a trigger has struck is behind |
| `GatewayProofs!RebindKillsInFlight` | the same, if no rebind is handed a refused mask | `PolicyInv`: what a sender knows of bus and whitelist rests first on the gateway's lock, then on an unmoved fence, at last on the send lock |
| `GatewayProofs!EnvelopeHolds` | number of threads, windows, ceilings, budgets | `StampInv`: every frame sent in the window or cleared has a stamp of its own in the queue, no two share one, and one that is given back was not sent, so taking its stamp out uncovers no other |
| `GatewayProofs!BucketsHold` | the same | `BucketInv`: what a bucket has paid out and what it still has are together within its burst and what it earned up to its last use; a refund moves one from the first to the second |
| `GatewayProofs!StreaksAreBursts` | the same | `LaneInv`: while a streak of rejections lasts, every stamp of the lane is older than its first, and the one that fills the window has not left it |
| `GatewayProofs!MissesAreLatched` | the same | `MissInv`: the code's counter is the run that the property counts; it is cleared in the step that handles the engagement |
| `EStopProofs!TypeCorrect` | callers, windows, limits | step by step |
| `EStopProofs!ImplementsLatch` | the same | refinement: `ChallengeInv`, the active challenge belongs to the current epoch and signatures name the epoch they were made for, maps every step to a step of `EStopLatch` or a stutter |
| `EStopProofs!ResetNoticesRotation` | the same, for the keys `reset()` cached | `RotationInv`: a reset has read the revision no later than the key |
| `EStopProofs!NoBumpLost` | callers, windows, limits | the property itself is inductive, once the callers between the two halves of `reset()` are known to be finitely many: each step moves one caller |
| `EStopProofs!HolderIsLetIn` | the same | `CredentialInv`: a nonce is drawn once and consumed only by the reset that accepts it, so the active challenge's is in no replay record and every signature for it is for all of it |
| `WatchdogProofs!SupervisionIsSingle` | callers, timeouts, monitors | `ThreadInv`: only the monitor the object names can be alive, and the flag is up only while it still supervises |
| `WatchdogProofs!LeaseIsSupervised` | the same | the second half of `ThreadInv` |
| `WatchdogProofs!LeaseEndsAfterPulse` | the same | `PulseInv`: the lease is never younger than the last pulse |
| `RouterFlasherProofs!NoFrameUncounted` | RX threads, readers, subscribers | `DrainInv`: the totals and a thread's counter exceed its history by what the drain under way has published and not yet taken off; between the read and the subtraction the counter only grows, because every decrement holds `_stats_lock` |
| `RouterFlasherProofs!SlowCallbackIsCutOff` | the same | `StallInv`: an installed callback has stalled fewer than `TripAfter` calls in a row, and each thread that took its snapshot before the trip counts once more |
| `RollingDiskProofs!ClosedStrandsNothing` | appenders, owners, limits | `StrandInv`: the property with the places of the threads; `append()` checks `_closed` in the lock section that adds the frame, and the closer is the only one that may still have to detach |
| `RollingDiskProofs!FilesAreOrdered` | the same | `DiskInv`: whoever detaches a batch takes the next index in the same lock section, so chunks in hands, queue and files together are ordered by index, and the pending frames are younger than all of them |
| `RollingDiskProofs!DrainedIsStored` | the same | `KeptInv`: a thread in a drain holds a chunk that is queued, stored or given up, and `unfinished` counts what is queued or in the worker's hands |
| `RollingDiskProofs!NoFrameLostOrDoubled` | the same | `LedgerInv`: the property as a statement without cardinalities, that the places of a frame exclude each other and one is taken unless it was given up |
| `AddressClaimProofs!DuplicatesAreTold` | nodes, addresses, ranges, limits | `PairInv`: of two nodes that use one address, one has a frame of it on its way to the other; a frame is taken only by the node it tells |
| `AddressClaimProofs!OwnWindowConfirms` | the same | `WindowInv`: a callback of the present generation waits only after its timer has expired |
| `UdsClientProofs!NotCutOff` | clients, services, limits, block sizes | `OrderInv`: behind a request's first frame the client has put nothing on the bus that is not of that request |
| `UdsClientProofs!AnswersAreOwnOrOverdue` | the same | `AnswersInv`: jobs, requests on the bus and answers in the queues are in the order of the requests, so when an exchange ends with the answer to request q, everything up to q is past |
| `UdsClientProofs!FramesAreGranted` | the same | `GrantInv`: while one client uses the ECU and no earlier exchange gave up, at most one grant is in the queue, only the exchange that waits reads it, and what is on the bus and what it still allows are within what the ECU has granted |
| `RouterFlasherProofs!CancelsAreHonoured` | images, steps left out, numbers of flashes, cancels and losses | `LateInv`: every step that writes begins with a check, so a cancelled flash is past one only if the cancel met it there, and then nothing has gone out since |
| `RouterFlasherProofs!ResetsAreConfirmed` | the same | `GoodInv`: while one flash runs at a time nobody else moves the image, and a flash that has come to its reset has had the routine's good result |
| `RouterFlasherProofs!DownloadsAreClosed` | the same, flashes at once included | `OpenInv`: the flash whose download is open is in the steps that end with its exit, or in the recovery; a lost answer to the download is already past the point from which a failure recovers |
| `RouterFlasherProofs!FlashTypeCorrect` | the same | `Progress`: how far a flash has come bounds its block counter |
| `J1939TransportProofs!SlotsAreExact` | sources, messages, windows, timeouts, limits, arriving frames | `TableInv`: the slots are the sessions' and a source has one session of a kind; neither is inductive without the other |
| `J1939TransportProofs!PacketsHaveOneOwner` | the same | the second half of `TableInv`; the branch of `_lookup_dt_session` for several owners (982-1005) is never taken on one channel |
| `J1939TransportProofs!MessagesAreWhole` | the same, if no source has transfers of two PGNs at once | `OrderInv`, `NamesInv`, `PiecesInv`: behind the announcement of a transfer come its packets, those of a younger transfer behind its own announcement, and those of transfers that opened no session |
| `J1939TransportProofs!AcknowledgedIsDelivered` | the same | `AckInv`: unless a transfer has gone astray, the receiver's session and the acknowledgements on their way are its own |
| `J1939TransportProofs!NothingStallsSilently` | sources, messages, windows, timeouts, limits, arriving frames, parallel transfers included, if RTSs ask for no fewer packets per grant than the window | `StallInv`: from its announcement to the answer that ends it, a transfer that met no fault has something on its way that moves it. A full grant ends at a packet after which the receiver speaks, and a packet, early, late or in order, is answered if such a packet is among those it stands for |

Most of the properties alone are not inductive: each says nothing of a thread between two
lock sections, or of the frames that are on their way.  The invariants add what such a
thread may rely on, which is also what a change to the locking has to preserve.  TLC
checked `DiskInv`, `KeptInv`, `StallInv`, `CredentialInv`, the five invariants of
`J1939Transport`, `AnswersInv`, `GrantInv`, `DrainInv` and the three of `Flasher` on the instances of
the runs before they were proved.

The assumptions are the named `ASSUME`s of the modules: sets of threads are disjoint
where the code distinguishes them, limits are natural numbers, and the value that
stands for no chunk is none (`NoneIsNoChunk` of `RollingDisk`).  Four theorems have
hypotheses of their own.  `RebindKillsInFlight` excludes refused masks, the two of
`J1939Transport` about messages exclude parallel transfers of one source, and
`NothingStallsSilently` excludes sources that ask for fewer packets per grant than the
receiver's window (this code's own RTS asks for 255).  TLC refutes each without its
hypothesis (see below).

A proof corrected a property.  `OnlyOverdueAnswers` once said that an exchange takes an
overdue answer only after an exchange of the client had given up.  That is true of one
client.  With two, an exchange can also end with the other client's answer to the same
service; its own is then left in the queue, and nobody has given up.  The property now
names this case (`WithoutOwnAnswer`).  Proofs also found two `CASE` expressions, in
`Flasher` and `SafetyCore`, whose arms overlapped: TLC takes the first that holds, as the
code does, while the logic leaves the choice open.  Their arms exclude each other now.

Every safety property of the runs is stated by a theorem.  Only model-checked is
liveness (`StopReachesSupervisor`, `LeaseEnforced`, `Supervised`, `WrittenWhileOpen`,
`ClaimSettles`, `ExchangeEnds`, `FlashEnds`), which TLAPS cannot prove under fairness.
The eviction of a session at the table's limit is not reached by the `j1939_transport`
instance; `SlotsAreExact` covers it.

## Where the code and its documentation disagree

One run expects a violation, `flash_cancel`: `flash_cancel()` calls the engine's
`cancel()` while it holds `_flash_lock`, a plain lock (`ui/desktop_app.py:2577`, 5606,
5609).  `cancel()` ends by logging (`protocols/uds/flasher.py:481`), and the log
callback takes `_flash_lock` (`ui/desktop_app.py:5399-5402`).  The cancelling thread
waits for itself; the worker waits at its next report, so neither recovery nor the
disarm is reached while the keep-alive holds the session open.  `flasher.py:476`
promises to "abort flashing safely at next boundary", and
`src/tests/unit/test_flasher.py:313` that `cancel()` does not block: it calls the
engine without the application's callback.

Others were met while modelling.  The modules state them, and TLC refutes them
when they are put into the configuration named here; no listed run carries them:

| Definition | Refuted under | What happens |
|---|---|---|
| `SafetyCore!FaultStopsDispatch` | `MCCoreStop.cfg` with it as a `PROPERTY` | `trigger_fault()` moves no fence, so a frame validated before it is still sent in FAULT (`safety/state_machine.py:801`, against lines 49 and 802) |
| `SafetyCore!AbortCoversQueue` | `MCCoreLive.cfg` with `SPECIFICATION Spec` | the abort hook flushes the driver before a frame that is past the last check is queued (`safety/gateway.py:1887`, comment at 1874) |
| `SafetyCore!DispatchUnderPolicy` | `MCCoreStop.cfg` with `BroadRebinds = TRUE` | `rebind_whitelist()` has replaced the ids when the mask check raises, and moves no fence (`safety/gateway.py:627`, docstring at 621) |
| `EStop!RotationNoticed` without its exemption | `MCEStopReset.cfg` with the invariant `cached.rev <= cached.key` | `refresh_secret()` reads the revision last and caches an old key under a new one, so `reset()` does not notice the rotation (`safety/estop.py:382`, docstring at 351) |
| `TxRate!NoOrphanStamps` | `MCRateBounds.cfg` | a frame its lane refuses leaves its stamp in the global envelope (`safety/gateway.py:1700`, against the comment at 1694) |
| `TxRate!RelatchNeedsFullStreak` | `MCRateBounds.cfg` without its symmetry | the envelope's streak survives the stop it caused; if the reset and the next arm come within one second, one more rejection engages again (`safety/gateway.py:920`) |
| `Watchdog!OrderlyStopIsQuiet`, `Watchdog!WedgeIsReal` | `MCWatchdog.cfg` with two callers and `SPECIFICATION Spec` | `stop()` sets the event and picks the thread to join after it has released the lock; a `start()` in between has its monitor faulted (`safety/watchdog.py:394`, 396) |
| `FrameRouter!NothingUncounted` | `MCRouter.cfg` | a counter pruned between its registration and its first increment leaves a frame out of the totals (`engine/router.py:278`, against 192 and 427) |
| `RollingDisk!StoredIsReadable` | `MCDisk.cfg` with `SPECIFICATION Spec` | two appenders at the default threshold store a chunk the reader refuses, and the whole chunk is set aside (`engine/buffer/rolling_disk.py:505`, against `src/tests/unit/test_rolling_disk_concurrency.py:77`) |
| `RollingDisk!CloseIsDurable` | `MCDisk.cfg` with `SPECIFICATION Spec` | a worker whose `get()` has just timed out sees `_closed` and leaves although a chunk was queued meanwhile (`engine/buffer/rolling_disk.py:654`), and an appender that has detached a batch may queue it behind the sentinel (577); the comment at 919 says that `close()` guarantees every queued chunk on disk |
| `J1939Transport!NoSilentStall` | `MCJ1939Transport.cfg` with `MaxPerCts = 1`, `MaxFaults = 0` | a source whose RTS asks for fewer packets per grant than the receiver's window is granted that many (`protocols/j1939/transport.py:1149`), but the next grant is sent only at the window's end (1116), which is never reached; the comment at 1107-1110 says the follow-ups are there so that a capped first grant does not "stall the transfer forever" |
| `J1939Transport!WholeTransfers` | `MCJ1939Transport.cfg` with `Parallel = TRUE` | two transfers of one source to one node replace each other's session although the docstring at 629-634 has them run in parallel, and their data mix |
| `Flasher!OneFlash`, `Flasher!CancelledStaysCancelled` | `MCFlash.cfg` with `SPECIFICATION FlashSpec` | a cancel while `flash_start()` is still arming finds no engine and only writes the status; the flash goes on, completes, and meanwhile a second one is accepted beside it, which the first one's cleanup disarms (`ui/desktop_app.py:5607`, 5321) |

What the models contain and no property says, because the code promises nothing:

* `AddressClaim`: a node that has claimed nothing defends, or begins to claim, its
  preferred address when another node claims it (`address_claim.py:571-600`); an
  answer the gateway rejects is only logged, so the window may confirm an address
  whose claim was never sent (`ui/desktop_app.py:6398-6402`).
* `UdsClient`: the docstring at `client.py:707` bounds consecutive WAITs by two
  seconds; only their number bounds them, some 17 seconds.  A client that repeats
  a request after one timeout stays one answer behind.  Two clients of one ECU
  (`create_uds_client()` makes one per operator action, with locks of its own) can
  take each other's answers; the properties exempt those.
* `J1939Transport`: aborts of reaped sessions leave after the next RTS of the PGN and
  abort it (`transport.py:1379`); HOLDs that are spaced out hold for ever; nothing in
  the application calls `poll_cmdt_timeouts()` or `advance_cmdt_transfer()`.
* `Flasher`: the recovery's second rung, the default session, carries no
  confirmation, and the gateway, which derives criticality from the service byte,
  refuses it (`flasher.py:1236`, `gateway.py:1371`, 1591); a lost answer to the
  extended session leaves recovery out altogether (808); a cancel between the
  engine's creation and `execute_flash()`'s claim is forgotten (655).

## What is not modelled

* Logging, texts, metrics and their throttling; the counts of rejected frames.
* Cryptography: a signature or an HMAC is what it signs.
* Vendor drivers and the operating system: the gateway's driver is a queue that
  can be flushed, a file is there or not, and removed as POSIX does it.
* In the gateway: read-only sessions, criticality, link faults, the confirmation
  store.  They can only refuse more frames than the models do, but their own state
  has hazards that `PROJECT.json` lists.  In the supervisor: the arm token.
* The watchdog's two clocks are one age and one gap; a heartbeat that arrives
  between resume and check hides the suspend from `Supervised`.
* In ISO-TP: the asynchronous sender and receiver, which the application does not
  use, and the sessions of other identifiers.  In the J1939 transport: one message on
  several channels, the `rx_cts_window` override, malformed control frames.  In the
  flasher: signatures, identities, file formats, and the simulated flash, whose
  worker also takes `_flash_lock` twice (`ui/desktop_app.py:5356`).
* `OBD poller`, `NMEA 2000 fast packet`, the evidence chain, replay player, launcher,
  license and cloud: state and retries that could be modelled and are not.
* Most lines of the repository: rules and texts of the diagnostic AI, decoding
  tables, parsers, intake scripts and views are data and sequential conversions.
  They have no protocol, no concurrency and no long-lived state, so a model would
  restate them; the modules cover the parts that do, a small share of the lines.

## Plan

Done: the transmit-safety core, the receive path, the recorder, and of the protocol
engines the address claim, the transport, the UDS client with ISO-TP, and the
flasher, with the proofs above.

What would add most next, in this order:

1. `ArmToken` and `TxPolicy`: issue, verify, burn; read-only sessions, the
   confirmation store at its limit, the link-fault epoch.  Property: one token
   arms once; a policy is cleared only by the transition that ends its session.
2. `ObdPoller`: transactions, retries and late answers, `stop()` against a runner that
   has not published its task.
3. `FastPacket` and the pipeline over the three transports.
4. `EvidenceChain` and the telemetry upload: appends that race, a resumed upload.
