------------------------------- MODULE Flasher -------------------------------
(***************************************************************************)
(* An ECU reprogramming as the application runs it: flash_start() accepts  *)
(* it, arms TX, makes an engine of its own and starts a worker thread that *)
(* takes the ECU through the steps; flash_cancel() comes from another      *)
(* thread of the bridge.  The worker takes the engine that is there when   *)
(* it begins, so a second flash_start() may have put its own in the place. *)
(* What they tell the operator goes through _flash_lock, which is not      *)
(* reentrant, and so do the engine's callbacks.                            *)
(*                                                                         *)
(* A request is one exchange of UdsClient: the gateway refuses it, or it   *)
(* is lost, served or rejected, and the answer may not come in time.  The  *)
(* ECU is external.  An image is the sequence of its blocks, and a block   *)
(* the number of the flash it comes from.                                  *)
(***************************************************************************)
EXTENDS Naturals, Sequences, FiniteSets

CONSTANTS
    MaxFlashes,                 \* bound: flashes accepted
    Blocks,                     \* blocks of an image
    SeqMod,                     \* 256: block sequence counters wrap
    Recheck,                    \* PRECONDITION_RECHECK_EVERY_N_BLOCKS
    Skipped,                    \* steps the configuration leaves out
    MaxPolls,                   \* result polls before the deadline
    MaxCancels, MaxMishaps      \* bounds: cancels; losses of the TX permission,
                                \* lost frames and failed cleanups

Flash == 1..MaxFlashes

Order == <<"extend", "identify", "program", "seed", "key", "erase", "download",
           "block", "exit", "checksum", "result", "reset", "done">>

Optional == {"identify", "seed", "key", "erase", "reset"}

ASSUME FlasherAssumption ==
    /\ {MaxFlashes, Blocks, SeqMod, Recheck} \subseteq Nat \ {0}
    /\ {MaxPolls, MaxCancels, MaxMishaps} \subseteq Nat
    /\ Skipped \subseteq Optional

VARIABLES
    status,                     \* _flash_progress_state["status"]
    engine,                     \* flashing_engine: the flash it was made for
    stuck,                      \* a thread waits for the _flash_lock it holds
    canceller,                  \* where a flash_cancel() is
    w,                          \* each flash: its flash_start(), then its worker
    armed,                      \* TX is permitted
    ecu,                        \* external
    cancels, mishaps,           \* counters for the bounds
    doubled                     \* history: two flashes have run at once

app == <<status, engine, stuck, canceller>>
bounds == <<cancels, mishaps>>
flashVars == <<app, w, armed, ecu, bounds, doubled>>

\* runs is the engine its worker took.  late, inHand and exitTried are history:
\* writes sent after a cancel(), a cancel() that met a write past its check, a
\* recovery whose RequestTransferExit was not answered.
Fresh == [pc |-> "none", step |-> "extend", runs |-> 0, cancelled |-> FALSE,
          opened |-> FALSE, block |-> 1, since |-> 0, answer |-> "none", polls |-> 0,
          failed |-> FALSE, late |-> 0, inHand |-> FALSE, exitTried |-> FALSE]

FlashInit ==
    /\ status = "none" /\ engine = 0 /\ stuck = FALSE /\ canceller = "idle"
    /\ w = [f \in Flash |-> Fresh]
    /\ armed = FALSE
    /\ ecu = [session |-> "default", unlocked |-> FALSE, open |-> 0,
              image |-> <<>>, good |-> TRUE, bricked |-> FALSE]
    /\ cancels = 0 /\ mishaps = 0 /\ doubled = FALSE

At(f, p) == w[f].pc = p

\* The worker is in execute_flash(), the keep-alive thread beside it.
Running(f) ==
    w[f].pc \in {"check", "send", "answer", "exit", "retreat", "settle"}

Alive(f) ==
    Running(f) \/ w[f].pc \in {"start", "claim", "refused", "cleanup", "report", "alarm"}

\* _flash_active of the engine that was made for flash e.
Busy(e) == \E f \in Flash : Running(f) /\ w[f].runs = e

\* What takes _flash_lock for a moment waits while it is held.
Reports == ~stuck

After(step) ==
    LET i == CHOOSE i \in DOMAIN Order : Order[i] = step
        later == {j \in DOMAIN Order : j > i /\ Order[j] \notin Skipped}
    IN  Order[CHOOSE j \in later : \A k \in later : j =< k]

\* The gateway takes a critical request under a TX permission, with the
\* operator's confirmation; every step's service byte makes it critical.
Admits(confirmed) == armed /\ confirmed

-----------------------------------------------------------------------------
(* External: the ECU.                                                      *)

Whole(f) == [i \in 1..Blocks |-> f]

Unlocked == ecu.session = "programming" /\ ("key" \in Skipped \/ ecu.unlocked)

CanServe(f, step) ==
    CASE step = "program" -> ecu.session # "default"
      [] step \in {"seed", "key", "checksum", "result"} -> ecu.session = "programming"
      [] step \in {"erase", "download"} -> Unlocked
      [] step = "block" -> /\ ecu.open # 0
                           /\ w[f].block % SeqMod = (Len(ecu.image) + 1) % SeqMod
      [] step = "exit" -> ecu.open # 0
      [] OTHER -> TRUE

Entered(session) ==
    [ecu EXCEPT !.session = session, !.unlocked = FALSE, !.open = 0]

Served(f, step) ==
    CASE step = "extend" -> Entered("extended")
      [] step = "program" -> Entered("programming")
      [] step = "key" -> [ecu EXCEPT !.unlocked = TRUE]
      [] step = "erase" -> [ecu EXCEPT !.image = <<>>, !.good = FALSE]
      [] step = "download" -> [ecu EXCEPT !.open = f, !.image = <<>>, !.good = FALSE]
      [] step = "block" -> [ecu EXCEPT !.image = Append(@, f)]
      [] step = "exit" -> [ecu EXCEPT !.open = 0]
      [] step = "result" -> [ecu EXCEPT !.good = ecu.image = Whole(f)]
      [] step = "reset" -> [Entered("default") EXCEPT !.bricked = @ \/ ~ecu.good]
      [] OTHER -> ecu

\* The session times out once no keep-alive reaches the ECU.
SessionTimeout ==
    /\ ecu.session # "default"
    /\ ~armed \/ \A f \in Flash : ~Running(f)
    /\ ecu' = Entered("default")
    /\ UNCHANGED <<app, w, armed, bounds, doubled>>

-----------------------------------------------------------------------------
(* flash_start()                                                           *)

\* Another flash is refused while the status says that one is in progress.
Accept(f) ==
    /\ At(f, "none") /\ \A g \in Flash : g < f => ~At(g, "none")
    /\ Reports /\ status # "in_progress"
    /\ status' = "in_progress"
    /\ w' = [w EXCEPT ![f].pc = "arming"]
    /\ UNCHANGED <<engine, stuck, canceller, armed, ecu, bounds, doubled>>

\* arm_tx(), unless the supervisor is armed or, say, in FAULT already.
Arm(f) ==
    /\ At(f, "arming")
    /\ armed' \in {armed, TRUE}
    /\ w' = [w EXCEPT ![f].pc = "engine"]
    /\ UNCHANGED <<app, ecu, bounds, doubled>>

\* arm_tx() says no: the E-Stop, the speed or the driver is against it.
ArmRefused(f) ==
    /\ At(f, "arming") /\ ~armed /\ Reports
    /\ status' = "failed"
    /\ w' = [w EXCEPT ![f].pc = "over"]
    /\ UNCHANGED <<engine, stuck, canceller, armed, ecu, bounds, doubled>>

\* The engine and its client; then the worker thread starts.
MakeEngine(f) ==
    /\ At(f, "engine")
    /\ engine' = f
    /\ w' = [w EXCEPT ![f].pc = "start"]
    /\ UNCHANGED <<status, stuck, canceller, armed, ecu, bounds, doubled>>

-----------------------------------------------------------------------------
(* The worker: execute_flash().                                            *)

\* It reads flashing_engine when it begins: its own, or that of a later flash.
Begin(f) ==
    /\ At(f, "start")
    /\ w' = [w EXCEPT ![f].runs = engine, ![f].pc = "claim"]
    /\ UNCHANGED <<app, armed, ecu, bounds, doubled>>

\* FLASH_ALREADY_ACTIVE: another worker runs the same engine.
ClaimRefused(f) ==
    /\ At(f, "claim") /\ Busy(w[f].runs)
    /\ w' = [w EXCEPT ![f].pc = "refused"]
    /\ UNCHANGED <<app, armed, ecu, bounds, doubled>>

\* The outcome is written over whatever the status says of the other flash.
ReportRefused(f) ==
    /\ At(f, "refused") /\ Reports
    /\ status' = "failed"
    /\ w' = [w EXCEPT ![f].pc = "cleanup"]
    /\ UNCHANGED <<engine, stuck, canceller, armed, ecu, bounds, doubled>>

\* The claim forgets a cancel() that came before it.
Claim(f) ==
    /\ At(f, "claim") /\ ~Busy(w[f].runs) /\ Reports
    /\ doubled' = (doubled \/ \E g \in Flash \ {f} : Running(g))
    /\ w' = [w EXCEPT ![f].cancelled = FALSE,
                      ![f].pc = IF armed THEN "check" ELSE "settle",
                      ![f].failed = ~armed]
    /\ UNCHANGED <<app, armed, ecu, bounds>>

\* Mutant: recovery is for a download that has been answered.
FailedBeforeBlocks(r) ==
    [r EXCEPT !.failed = TRUE,
              !.pc = IF r.opened /\ r.step \in {"block", "exit"} THEN "exit" ELSE "settle"]

\* Any exception; the ECU is brought back once it has left its session.
Failed(r) ==
    [r EXCEPT !.failed = TRUE, !.pc = IF r.opened THEN "exit" ELSE "settle"]

\* Mutant: the reset, which comes last, does not look at the cancel.
CheckedNotReset(r) ==
    r.step \in {"extend", "program", "seed", "erase", "download", "block",
                "exit", "checksum"}

\* The steps that begin with _check_cancelled().
Checked(r) ==
    r.step \in {"extend", "program", "seed", "erase", "download", "block",
                "exit", "checksum", "reset"}

Check(f) ==
    LET r == w[f]
        recheck == r.step = "block" /\ r.since >= Recheck
    IN  /\ At(f, "check") /\ Reports
        /\ w' = [w EXCEPT ![f] =
                   IF (Checked(r) /\ r.cancelled) \/ (recheck /\ ~armed) THEN Failed(r)
                   ELSE [r EXCEPT !.pc = "send", !.since = IF recheck THEN 0 ELSE @]]
        /\ UNCHANGED <<app, armed, ecu, bounds, doubled>>

Writes == {"erase", "download", "block", "reset"}

Refused(f) ==
    /\ At(f, "send") /\ ~Admits(TRUE)
    /\ w' = [w EXCEPT ![f] = Failed(@)]
    /\ UNCHANGED <<app, armed, ecu, bounds, doubled>>

Sent(f, answer) ==
    w' = [w EXCEPT ![f].pc = "answer", ![f].answer = answer,
                   ![f].late = IF w[f].cancelled /\ w[f].step \in Writes
                               THEN @ + 1 ELSE @]

\* The request or its answer is lost, or too late.
Lost(f) ==
    /\ At(f, "send") /\ Admits(TRUE) /\ mishaps < MaxMishaps
    /\ mishaps' = mishaps + 1
    /\ \/ UNCHANGED ecu
       \/ CanServe(f, w[f].step) /\ ecu' = Served(f, w[f].step)
    /\ Sent(f, "none")
    /\ UNCHANGED <<app, armed, cancels, doubled>>

Rejected(f) ==
    /\ At(f, "send") /\ Admits(TRUE)
    /\ Sent(f, "negative")
    /\ UNCHANGED <<app, armed, ecu, bounds, doubled>>

\* The routine may still be running when it is asked for its result; the
\* result of another image is no good one.
Answered(f) ==
    LET step == w[f].step
    IN  /\ At(f, "send") /\ Admits(TRUE) /\ CanServe(f, step)
        /\ \/ /\ ecu' = Served(f, step)
              /\ Sent(f, IF step = "result" /\ ecu.image # Whole(f)
                         THEN "negative" ELSE "positive")
           \/ /\ step = "result"
              /\ Sent(f, "busy")
              /\ UNCHANGED ecu
        /\ UNCHANGED <<app, armed, bounds, doubled>>

Moved(r, step) == [r EXCEPT !.pc = IF step = "done" THEN "settle" ELSE "check",
                            !.step = step]

\* Mutant: a routine that is still running counts as a good result.
PolledDone(r) == Moved(r, After("result"))

\* Mutant: every poll starts the ten seconds again.
PolledAgain(r) == [r EXCEPT !.pc = "send"]

\* routineStatus 0x01 until the deadline; nothing looks at a cancel here.
Polled(r) ==
    IF r.polls = MaxPolls THEN Failed(r)
    ELSE [r EXCEPT !.pc = "send", !.polls = @ + 1]

Succeeded(r) ==
    CASE r.step = "extend" -> Moved([r EXCEPT !.opened = TRUE], After("extend"))
      [] r.step = "block" ->
            Moved([r EXCEPT !.block = @ + 1, !.since = @ + 1],
                  IF r.block < Blocks THEN "block" ELSE After("block"))
      [] OTHER -> Moved(r, After(r.step))

Proceeds(r) ==
    CASE r.answer = "busy" -> Polled(r)
      [] r.answer \in {"none", "negative"} -> Failed(r)
      [] r.answer = "positive" -> Succeeded(r)

Answer(f) ==
    /\ At(f, "answer") /\ Reports
    /\ w' = [w EXCEPT ![f] = [Proceeds(@) EXCEPT !.answer = "none"]]
    /\ UNCHANGED <<app, armed, ecu, bounds, doubled>>

\* _best_effort_recovery(): first RequestTransferExit, which is the last if it
\* is answered positively.
TryExit(f) ==
    LET end(p) == w' = [w EXCEPT ![f].pc = p, ![f].exitTried = p = "retreat"]
    IN  /\ At(f, "exit") /\ Reports
        /\ \/ /\ Admits(TRUE) /\ CanServe(f, "exit")
              /\ ecu' = Served(f, "exit")
              /\ end("settle")
              /\ UNCHANGED mishaps
           \/ end("retreat") /\ UNCHANGED <<ecu, mishaps>>
           \/ /\ Admits(TRUE) /\ CanServe(f, "exit") /\ mishaps < MaxMishaps
              /\ ecu' = Served(f, "exit") /\ mishaps' = mishaps + 1
              /\ end("retreat")
        /\ UNCHANGED <<app, armed, cancels, doubled>>

\* Then the default session, for which recovery shows no confirmation.
Retreat(f) ==
    /\ At(f, "retreat") /\ Reports
    /\ ecu' = IF Admits(FALSE) THEN Entered("default") ELSE ecu
    /\ w' = [w EXCEPT ![f].pc = "settle"]
    /\ UNCHANGED <<app, armed, bounds, doubled>>

\* execute_flash() has returned, its locals are gone.
Returned(r) == [Fresh EXCEPT !.pc = "cleanup", !.cancelled = r.cancelled,
                             !.late = r.late, !.inHand = r.inHand,
                             !.exitTried = r.exitTried]

\* The keep-alive has ended; the worker writes the outcome over the status.
Settle(f) ==
    /\ At(f, "settle") /\ Reports
    /\ status' = IF w[f].failed THEN "failed" ELSE "completed"
    /\ w' = [w EXCEPT ![f] = Returned(@)]
    /\ UNCHANGED <<engine, stuck, canceller, armed, ecu, bounds, doubled>>

\* Mutant: TX is disarmed after a failure only, an except instead of the finally.
CleanupAfterFailure(f) ==
    /\ At(f, "cleanup")
    /\ armed' = (armed /\ status = "completed")
    /\ w' = [w EXCEPT ![f].pc = "report"]
    /\ UNCHANGED <<app, ecu, bounds, doubled>>

\* _safe_disarm_after_flash(); if that fails, FAULT and the E-Stop.
Cleanup(f) ==
    /\ At(f, "cleanup")
    /\ armed' = FALSE
    /\ \/ w' = [w EXCEPT ![f].pc = "report"] /\ UNCHANGED mishaps
       \/ /\ armed /\ mishaps < MaxMishaps /\ mishaps' = mishaps + 1
          /\ w' = [w EXCEPT ![f].pc = "alarm"]
    /\ UNCHANGED <<app, ecu, cancels, doubled>>

ReportCleanup(f) ==
    /\ w[f].pc \in {"report", "alarm"} /\ Reports
    /\ status' = IF At(f, "alarm") THEN "cleanup_failed" ELSE status
    /\ w' = [w EXCEPT ![f].pc = "over"]
    /\ UNCHANGED <<engine, stuck, canceller, armed, ecu, bounds, doubled>>

-----------------------------------------------------------------------------
(* Other threads.                                                          *)

Cancelled(r) ==
    IF r.cancelled THEN r
    ELSE [r EXCEPT !.cancelled = TRUE, !.inHand = r.pc = "send" /\ r.step \in Writes]

\* flash_cancel() holds _flash_lock while it calls cancel(), whose last line
\* logs through a callback that takes _flash_lock.
FlashCancel ==
    /\ canceller = "idle" /\ Reports /\ cancels < MaxCancels
    /\ cancels' = cancels + 1
    /\ status' = "cancelled"
    /\ \/ engine = 0 /\ canceller' = "look" /\ UNCHANGED <<stuck, w>>
       \/ /\ engine # 0
          /\ \/ \E f \in Flash : /\ Running(f) /\ w[f].runs = engine
                                /\ w' = [w EXCEPT ![f] = Cancelled(@)]
             \/ ~Busy(engine) /\ UNCHANGED w
          /\ stuck' = TRUE /\ canceller' = "log"
    /\ UNCHANGED <<engine, armed, ecu, mishaps, doubled>>

\* Unless the latest worker is alive it disarms by itself.
CancelDisarms ==
    /\ canceller = "look"
    /\ canceller' = "idle"
    /\ armed' = (armed /\ engine # 0 /\ Alive(engine))
    /\ UNCHANGED <<status, engine, stuck, w, ecu, bounds, doubled>>

\* cancel() called on the engine itself, without _flash_lock.
EngineCancel(f) ==
    /\ Running(f)
    /\ Reports /\ cancels < MaxCancels /\ ~w[f].cancelled
    /\ cancels' = cancels + 1
    /\ w' = [w EXCEPT ![f] = Cancelled(@)]
    /\ UNCHANGED <<app, armed, ecu, mishaps, doubled>>

\* E-Stop, fault, lapsed lease, moving vehicle, an operator who disarms.
Revoke ==
    /\ armed /\ mishaps < MaxMishaps
    /\ mishaps' = mishaps + 1
    /\ armed' = FALSE
    /\ UNCHANGED <<app, w, ecu, cancels, doubled>>

Request(f) == Refused(f) \/ Lost(f) \/ Rejected(f) \/ Answered(f)

Starter(f) == Arm(f) \/ ArmRefused(f) \/ MakeEngine(f)

Worker(f) ==
    \/ Begin(f) \/ Claim(f) \/ ClaimRefused(f) \/ ReportRefused(f)
    \/ Check(f) \/ Request(f) \/ Answer(f) \/ TryExit(f) \/ Retreat(f) \/ Settle(f)
    \/ Cleanup(f) \/ ReportCleanup(f)

FlashNext ==
    \/ \E f \in Flash : Accept(f) \/ Starter(f) \/ Worker(f) \/ EngineCancel(f)
    \/ FlashCancel \/ CancelDisarms \/ Revoke \/ SessionTimeout

FlashSpec == FlashInit /\ [][FlashNext]_flashVars

\* A flash_start() and a worker go on; an exchange ends (UdsClient).
FairSpec == FlashSpec /\ \A f \in Flash : WF_flashVars(Starter(f) \/ Worker(f))

-----------------------------------------------------------------------------
(* Properties.                                                             *)

FlashTypeOK ==
    /\ status \in {"none", "in_progress", "cancelled", "completed", "failed",
                   "cleanup_failed"}
    /\ engine \in 0..MaxFlashes /\ {stuck, armed, doubled} \subseteq BOOLEAN
    /\ canceller \in {"idle", "look", "log"}
    /\ \A f \in Flash : /\ w[f].block \in 1..Blocks + 1 /\ w[f].polls \in 0..MaxPolls
                        /\ w[f].runs \in 0..MaxFlashes

\* After a cancel() that met a running flash nothing more is written to the ECU: no
\* block, no erase and no reset, but for the one write that was past its check and
\* not yet sent when the cancel() came.
CancelHonoured == \A f \in Flash : w[f].late =< IF w[f].inHand THEN 1 ELSE 0

\* An ECU is never reset while it holds an image its own checksum routine has
\* not confirmed, whatever was lost, rejected, still running or left behind by
\* an earlier flash, unless two flashes ran at once.
NoBlindReset == ecu.bricked => doubled

\* A flash that is over has left its download open only if the recovery has
\* tried to close it and was not answered: also when the answer that opened it
\* was lost.
NoOpenTransfer ==
    \A f \in Flash : At(f, "over") /\ ecu.open = f => w[f].exitTried

\* No accepted flash goes on for ever: again and again all that began are over,
\* with TX disarmed, unless a flash_cancel() waits for its own lock.
FlashEnds ==
    []<>(stuck \/ (~armed /\ \A f \in Flash : At(f, "none") \/ At(f, "over")))

\* What cancel() and _check_cancelled() are for: a flash that was running when
\* it was cancelled ends.
CancelledFlashEnds ==
    \A f \in Flash : Running(f) /\ w[f].cancelled ~> At(f, "over")

\* What flash_start() refuses a second request for: one flash at a time.
OneFlash == ~doubled

\* What flash_cancel() tells the operator: a cancelled flash does not complete.
CancelledStaysCancelled == [][status = "cancelled" => status' # "completed"]_flashVars
=============================================================================
