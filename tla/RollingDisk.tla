---------------------------- MODULE RollingDisk ----------------------------
(***************************************************************************)
(* The rolling disk recorder (engine/buffer/rolling_disk.py): threads that *)
(* append, flush, read, clear and close, the worker thread that writes the *)
(* queued chunks, the retention sweep, and crashes.                        *)
(*                                                                         *)
(* A section under the buffer's lock is one action; everything between two *)
(* of them interleaves.  Frames are numbered in the order in which they    *)
(* were accepted.  A chunk file is its index and its frames, and every     *)
(* file has the size 1.  The counts of rejected and of unreadable frames   *)
(* are statistics that nothing reads back: a refused frame changes no      *)
(* other state, so refusing has no action.                                 *)
(***************************************************************************)
EXTENDS Naturals, FiniteSetsExt, SequencesExt

CONSTANTS
    Appenders,      \* the threads that append frames
    Owners,         \* the threads that flush, read, clear and close
    Worker,         \* the flush worker
    NoChunk, Sentinel,
    Threshold,      \* chunk_frame_threshold
    QueueSize,      \* maxsize of the flush queue
    MaxReadFrames,  \* the frames a chunk may hold to be read: _max_chunk_bytes
    MaxDisk,        \* max_disk_bytes, in chunks
    Faults,         \* whether writes, the key vault and chunks may fail
    MaxFrames, MaxClears, MaxRestarts   \* bounds of the model

ASSUME RollingDiskAssumption ==
    /\ Worker \notin Appenders \cup Owners
    /\ Threshold \in Nat \ {0} /\ MaxReadFrames \in Nat /\ MaxReadFrames >= Threshold
    /\ QueueSize \in Nat \ {0} /\ MaxDisk \in Nat
    /\ Faults \in BOOLEAN
    /\ MaxFrames \in Nat /\ MaxClears \in Nat /\ MaxRestarts \in Nat

VARIABLES
    closed,         \* _closed
    available,      \* _available
    pending,        \* _current_chunk_frames
    chunkIndex,     \* _chunk_index
    approx,         \* _approx_disk_bytes
    queue,          \* _flush_queue
    unfinished,     \* its unfinished_tasks
    disk,           \* the chunk files in the storage directory
    tmp,            \* the writers whose temporary file exists
    pc,             \* where each thread and the worker is
    call,           \* the operation each thread is in
    batch,          \* the chunk each thread and the worker holds
    total,          \* total_bytes of a sweep that has not written it back yet
    accepted,       \* history: the frames append() took
    lost,           \* history: frames given up on a path the code announces
    era,            \* history: how often clear() restarted the numbering
    restarts        \* history: how often a buffer was opened again

process == <<closed, available, pending, chunkIndex, approx>>
files == <<disk, tmp>>
fifo == <<queue, unfinished>>
locals == <<pc, call, batch, total>>
history == <<accepted, lost, era, restarts>>
vars == <<process, files, fifo, locals, history>>

Threads == Appenders \cup Owners
Writers == Threads \cup {Worker}
Calls == {"none", "append", "flush", "read", "close", "clear"}
Places == {"idle", "detach", "build", "drain", "write", "rename", "count", "retain",
           "resync", "get", "empty", "done", "settle", "scan", "sentinel", "join",
           "unlink", "untmp"}
Indices == 0..MaxFrames
Chunks == [index : Indices, era : 0..MaxClears, frames : Seq(1..MaxFrames)]
Frames(c) == ToSet(c.frames)

\* None, where a writer has no chunk, and in the queue: neither is a chunk.
ASSUME NoneIsNoChunk == NoChunk \notin Chunks /\ Sentinel \notin Chunks

Held(w) == IF batch[w] = NoChunk THEN {} ELSE Frames(batch[w])

\* sorted(glob("chunk_*.bin.zst")): by index, then by the first timestamp.
Before(c, d) ==
    \/ c.index < d.index
    \/ c.index = d.index /\ Head(c.frames) < Head(d.frames)

\* Mutant: the number of files, which retention has made smaller.
CountOfFiles(fs) == Cardinality(fs)

\* _next_chunk_index
NextChunkIndex(fs) == IF fs = {} THEN 0 ELSE Max({c.index : c \in fs}) + 1

Init ==
    /\ closed = FALSE /\ available = TRUE
    /\ pending = <<>> /\ chunkIndex = 0 /\ approx = 0
    /\ queue = <<>> /\ unfinished = 0
    /\ disk = {} /\ tmp = {}
    /\ pc = [w \in Writers |-> IF w = Worker THEN "get" ELSE "idle"]
    /\ call = [t \in Threads |-> "none"]
    /\ batch = [w \in Writers |-> NoChunk]
    /\ total = [w \in Writers |-> 0]
    /\ accepted = 0 /\ lost = {} /\ era = 0 /\ restarts = 0

Goto(w, at) ==
    /\ pc' = [pc EXCEPT ![w] = at]
    /\ call' = IF at = "idle" THEN [call EXCEPT ![w] = "none"] ELSE call

\* Where the caller of flush() goes on.
After(t) ==
    CASE call[t] = "close" -> "sentinel"
      [] call[t] = "read" -> "settle"
      [] OTHER -> "idle"

Enter(t, op, at) ==
    /\ pc[t] = "idle"
    /\ pc' = [pc EXCEPT ![t] = at]
    /\ call' = IF at = "idle" THEN call ELSE [call EXCEPT ![t] = op]
-----------------------------------------------------------------------------
(* append() and flush() *)

\* Mutant: append() does not look at _closed.
AppendAnyway(t) ==
    /\ accepted < MaxFrames
    /\ accepted' = accepted + 1
    /\ pending' = Append(pending, accepted + 1)
    /\ Enter(t, "append", IF Len(pending) + 1 >= Threshold THEN "detach" ELSE "idle")
    /\ UNCHANGED <<closed, available, chunkIndex, approx, files, fifo, batch, total,
                   lost, era, restarts>>

AppendFrame(t) ==
    /\ ~closed /\ available
    /\ accepted < MaxFrames
    /\ accepted' = accepted + 1
    /\ pending' = Append(pending, accepted + 1)
    /\ Enter(t, "append", IF Len(pending) + 1 >= Threshold THEN "detach" ELSE "idle")
    /\ UNCHANGED <<closed, available, chunkIndex, approx, files, fifo, batch, total,
                   lost, era, restarts>>

Flush(t) ==
    /\ Enter(t, "flush", "detach")
    /\ UNCHANGED <<process, files, fifo, batch, total, history>>

\* Mutant: the pending list is handed over and kept.
DetachKeeps(t) ==
    /\ pc[t] = "detach" /\ pending # <<>>
    /\ batch' = [batch EXCEPT ![t] =
                    [index |-> chunkIndex, era |-> era, frames |-> pending]]
    /\ chunkIndex' = chunkIndex + 1
    /\ Goto(t, "build")
    /\ UNCHANGED <<closed, available, pending, approx, files, fifo, total, history>>

\* The first lock section of flush(): the pending frames and an index.
Detach(t) ==
    /\ pc[t] = "detach" /\ pending # <<>>
    /\ batch' = [batch EXCEPT ![t] =
                    [index |-> chunkIndex, era |-> era, frames |-> pending]]
    /\ pending' = <<>> /\ chunkIndex' = chunkIndex + 1
    /\ Goto(t, "build")
    /\ UNCHANGED <<closed, available, approx, files, fifo, total, history>>

DetachNothing(t) ==
    /\ pc[t] = "detach" /\ pending = <<>>
    /\ Goto(t, IF call[t] # "append" /\ unfinished > 0 THEN "drain" ELSE After(t))
    /\ UNCHANGED <<process, files, fifo, batch, total, history>>

GiveUp(w) ==
    /\ lost' = lost \cup Held(w)
    /\ batch' = [batch EXCEPT ![w] = NoChunk]
    /\ UNCHANGED <<accepted, era, restarts>>

\* The key vault refuses: SecurityError out of the whole call.
KeyFails(t) ==
    /\ Faults /\ pc[t] = "build"
    /\ available' = FALSE
    /\ GiveUp(t) /\ Goto(t, "idle")
    /\ UNCHANGED <<closed, pending, chunkIndex, approx, files, fifo, total>>

\* A frame changed after its admission: the chunk is dropped, flush() returns.
SerializeFails(t) ==
    /\ Faults /\ pc[t] = "build"
    /\ GiveUp(t) /\ Goto(t, After(t))
    /\ UNCHANGED <<process, files, fifo, total>>

\* put_nowait()
Put(t) ==
    /\ pc[t] = "build" /\ Len(queue) < QueueSize
    /\ queue' = Append(queue, batch[t]) /\ unfinished' = unfinished + 1
    /\ IF call[t] = "append"
       THEN batch' = [batch EXCEPT ![t] = NoChunk] /\ Goto(t, After(t))
       ELSE UNCHANGED batch /\ Goto(t, "drain")
    /\ UNCHANGED <<process, files, total, history>>

\* queue.Full: the caller writes.
PutFull(t) ==
    /\ pc[t] = "build" /\ Len(queue) >= QueueSize
    /\ Goto(t, "write")
    /\ UNCHANGED <<process, files, fifo, batch, total, history>>

\* _drain_flush_queue: the worker has caught up ...
Drained(t) ==
    /\ pc[t] = "drain" /\ unfinished = 0
    /\ batch' = [batch EXCEPT ![t] = NoChunk]
    /\ Goto(t, After(t))
    /\ UNCHANGED <<process, files, fifo, total, history>>

\* ... or the deadline passes.
DrainTimesOut(t) ==
    /\ pc[t] = "drain" /\ unfinished > 0
    /\ batch' = [batch EXCEPT ![t] = NoChunk]
    /\ Goto(t, After(t))
    /\ UNCHANGED <<process, files, fifo, total, history>>
-----------------------------------------------------------------------------
(* _write_chunk and the retention sweep, in the worker or in a caller *)

\* What a writer does once its chunk is written, or is given up.
Finish(w) ==
    /\ batch' = [batch EXCEPT ![w] = NoChunk]
    /\ IF w = Worker
       THEN Goto(w, "get") /\ unfinished' = unfinished - 1
       ELSE Goto(w, After(w)) /\ UNCHANGED unfinished

WriteTmp(w) ==
    /\ pc[w] = "write"
    /\ tmp' = tmp \cup {w} /\ Goto(w, "rename")
    /\ UNCHANGED <<process, disk, fifo, batch, total, history>>

Rename(w) ==
    /\ pc[w] = "rename" /\ w \in tmp
    /\ tmp' = tmp \ {w} /\ disk' = disk \cup {batch[w]} /\ Goto(w, "count")
    /\ UNCHANGED <<process, fifo, batch, total, history>>

Count(w) ==
    /\ pc[w] = "count"
    /\ approx' = approx + 1 /\ Goto(w, "retain")
    /\ UNCHANGED <<closed, available, pending, chunkIndex, files, fifo, batch, total,
                   history>>

\* Mutant: the exception ends the worker.
BrokenForGood(w) ==
    \/ /\ w = Worker /\ Goto(w, "done") /\ unfinished' = unfinished - 1
       /\ disk' = disk \ {batch[w]}
    \/ /\ w # Worker /\ Goto(w, "idle") /\ UNCHANGED <<unfinished, disk>>

\* The worker sets the chunk aside and goes on; a caller's exception leaves
\* its whole call.
Broken(w) ==
    \/ /\ w = Worker /\ Goto(w, "get") /\ unfinished' = unfinished - 1
       /\ disk' = disk \ {batch[w]}
    \/ /\ w # Worker /\ Goto(w, "idle") /\ UNCHANGED <<unfinished, disk>>

\* The disk fails, or clear() has taken the temporary file away.
WriteFails(w) ==
    /\ \/ Faults /\ pc[w] \in {"write", "rename"}
       \/ pc[w] = "rename" /\ w \notin tmp
    /\ tmp' = tmp \ {w}
    /\ GiveUp(w) /\ Broken(w)
    /\ UNCHANGED <<process, queue, total>>

\* The sweep cannot list the directory: the worker takes this for a failed
\* write and sets the chunk it has just stored aside.
SweepFails(w) ==
    /\ Faults /\ pc[w] = "retain"
    /\ lost' = IF w = Worker THEN lost \cup Held(w) ELSE lost
    /\ batch' = [batch EXCEPT ![w] = NoChunk]
    /\ Broken(w)
    /\ UNCHANGED <<process, tmp, queue, total, accepted, era, restarts>>

\* The oldest of the files that exceed the budget.
OverBudget(fs) ==
    {c \in fs : Cardinality({d \in fs : Before(c, d)}) >= MaxDisk}

Unlink(gone) ==
    /\ disk' = disk \ gone
    /\ lost' = lost \cup UNION {Frames(c) : c \in gone}
    /\ UNCHANGED <<accepted, era, restarts>>

NotDue(w) ==
    /\ pc[w] = "retain" /\ approx <= MaxDisk
    /\ Finish(w)
    /\ UNCHANGED <<process, files, queue, total, history>>

\* Due over the budget, or by time or number of writes.  Ages compare wall
\* clock times, which may step: any set of files may be too old.
Sweep(w) ==
    /\ pc[w] = "retain"
    /\ \E old \in SUBSET disk :
        /\ Unlink(old \cup OverBudget(disk \ old))
        /\ total' = [total EXCEPT ![w] = Cardinality(disk')]
    /\ Goto(w, "resync")
    /\ UNCHANGED <<process, tmp, fifo, batch>>

Resync(w) ==
    /\ pc[w] = "resync"
    /\ approx' = total[w] /\ total' = [total EXCEPT ![w] = 0]
    /\ Finish(w)
    /\ UNCHANGED <<closed, available, pending, chunkIndex, files, queue, history>>
-----------------------------------------------------------------------------
(* The worker *)

\* Mutant: task_done() when the chunk is taken.
TakeAcks ==
    /\ pc[Worker] = "get" /\ queue # <<>> /\ Head(queue) # Sentinel
    /\ batch' = [batch EXCEPT ![Worker] = Head(queue)]
    /\ queue' = Tail(queue) /\ unfinished' = unfinished - 1
    /\ Goto(Worker, "write")
    /\ UNCHANGED <<process, files, total, history>>

Take ==
    /\ pc[Worker] = "get" /\ queue # <<>> /\ Head(queue) # Sentinel
    /\ batch' = [batch EXCEPT ![Worker] = Head(queue)]
    /\ queue' = Tail(queue) /\ Goto(Worker, "write")
    /\ UNCHANGED <<process, files, unfinished, total, history>>

TakeSentinel ==
    /\ pc[Worker] = "get" /\ queue # <<>> /\ Head(queue) = Sentinel
    /\ queue' = Tail(queue) /\ unfinished' = unfinished - 1
    /\ Goto(Worker, "done")
    /\ UNCHANGED <<process, files, batch, total, history>>

\* get(timeout=1.0) raises queue.Empty ...
TakeNothing ==
    /\ pc[Worker] = "get" /\ queue = <<>>
    /\ Goto(Worker, "empty")
    /\ UNCHANGED <<process, files, fifo, batch, total, history>>

\* ... and the worker looks at _closed after that.
LookClosed ==
    /\ pc[Worker] = "empty"
    /\ Goto(Worker, IF closed THEN "done" ELSE "get")
    /\ UNCHANGED <<process, files, fifo, batch, total, history>>
-----------------------------------------------------------------------------
(* read_all_stored_frames(), close(), clear() *)

Read(t) ==
    /\ Enter(t, "read", IF closed THEN "scan" ELSE "detach")
    /\ UNCHANGED <<process, files, fifo, batch, total, history>>

\* The second drain, after flush(): done, or the deadline passes.
Settle(t) ==
    /\ pc[t] = "settle" /\ Goto(t, "scan")
    /\ UNCHANGED <<process, files, fifo, batch, total, history>>

\* A chunk longer than the reader accepts.
TooLong == {c \in disk : Len(c.frames) > MaxReadFrames}

\* Chunks that are too long or cannot be authenticated are moved to *.corrupt,
\* as far as they can be moved; a strict reader stops at the first and moves none.
Scan(t) ==
    /\ pc[t] = "scan" /\ Goto(t, "idle")
    /\ \E bad \in IF Faults THEN SUBSET disk ELSE {{}, TooLong} : Unlink(bad)
    /\ UNCHANGED <<process, tmp, fifo, batch, total>>

\* The key vault refuses the reader.
ScanKeyFails(t) ==
    /\ Faults /\ pc[t] = "scan"
    /\ available' = FALSE /\ Goto(t, "idle")
    /\ UNCHANGED <<closed, pending, chunkIndex, approx, files, fifo, batch, total, history>>

Close(t) ==
    /\ ~closed /\ closed' = TRUE /\ available' = FALSE
    /\ Enter(t, "close", "detach")
    /\ UNCHANGED <<pending, chunkIndex, approx, files, fifo, batch, total, history>>

\* put(None): in time, or not at all.
PutSentinel(t) ==
    /\ pc[t] = "sentinel" /\ Goto(t, "join")
    /\ \/ /\ Len(queue) < QueueSize
          /\ queue' = Append(queue, Sentinel) /\ unfinished' = unfinished + 1
       \/ /\ Len(queue) >= QueueSize /\ UNCHANGED fifo
    /\ UNCHANGED <<process, files, batch, total, history>>

\* join(timeout): the worker is gone, or the deadline passes.
Join(t) ==
    /\ pc[t] = "join" /\ Goto(t, "idle")
    /\ UNCHANGED <<process, files, fifo, batch, total, history>>

\* clear(), once its drain has ended or timed out.
Clear(t) ==
    /\ era < MaxClears /\ era' = era + 1
    /\ Enter(t, "clear", "unlink")
    /\ lost' = lost \cup ToSet(pending)
    /\ pending' = <<>> /\ chunkIndex' = 0 /\ approx' = 0
    /\ UNCHANGED <<closed, available, files, fifo, batch, total, accepted, restarts>>

ClearChunks(t) ==
    /\ pc[t] = "unlink" /\ Goto(t, "untmp")
    /\ Unlink(disk)
    /\ UNCHANGED <<process, tmp, fifo, batch, total>>

ClearTmp(t) ==
    /\ pc[t] = "untmp" /\ Goto(t, "idle")
    /\ tmp' = {}
    /\ UNCHANGED <<process, disk, fifo, batch, total, history>>
-----------------------------------------------------------------------------
\* The process ends, by a crash or after close(), and the buffer is opened on
\* the same directory again.  When the vault has lost the key, the old chunks
\* are set aside first, as far as they can be moved.
Restart ==
    /\ restarts < MaxRestarts /\ restarts' = restarts + 1
    /\ \E kept \in IF Faults THEN SUBSET disk ELSE {disk} :
        /\ disk' = kept
        /\ chunkIndex' = NextChunkIndex(kept)
        /\ lost' = (1..accepted) \ UNION {Frames(c) : c \in kept}
    /\ closed' = FALSE /\ available' = TRUE
    /\ pending' = <<>> /\ approx' = 0
    /\ queue' = <<>> /\ unfinished' = 0 /\ tmp' = {}
    /\ pc' = [w \in Writers |-> IF w = Worker THEN "get" ELSE "idle"]
    /\ call' = [t \in Threads |-> "none"]
    /\ batch' = [w \in Writers |-> NoChunk]
    /\ total' = [w \in Writers |-> 0]
    /\ UNCHANGED <<accepted, era>>

WriterStep(w) ==
    WriteTmp(w) \/ Rename(w) \/ Count(w) \/ WriteFails(w) \/ SweepFails(w)
        \/ NotDue(w) \/ Sweep(w) \/ Resync(w)

WorkerStep ==
    Take \/ TakeSentinel \/ TakeNothing \/ LookClosed \/ WriterStep(Worker)

FlushStep(t) ==
    \/ Detach(t) \/ DetachNothing(t) \/ KeyFails(t) \/ SerializeFails(t)
    \/ Put(t) \/ PutFull(t) \/ Drained(t) \/ DrainTimesOut(t)
    \/ WriterStep(t)

Next ==
    \/ WorkerStep
    \/ \E t \in Appenders : AppendFrame(t)
    \/ \E t \in Threads : FlushStep(t)
    \/ \E t \in Owners :
        \/ Flush(t) \/ Read(t) \/ Settle(t) \/ Scan(t) \/ ScanKeyFails(t)
        \/ Close(t) \/ PutSentinel(t) \/ Join(t)
        \/ Clear(t) \/ ClearChunks(t) \/ ClearTmp(t)
    \/ Restart

Spec == Init /\ [][Next]_vars

\* The worker thread runs, and its system calls return.
FairSpec == Spec /\ WF_vars(WorkerStep)
-----------------------------------------------------------------------------
(* Properties *)

TypeOK ==
    /\ closed \in BOOLEAN /\ available \in BOOLEAN
    /\ pending \in Seq(1..MaxFrames) /\ chunkIndex \in Indices
    /\ approx \in Nat /\ unfinished \in Nat
    /\ queue \in Seq(Chunks \cup {Sentinel}) /\ Len(queue) <= QueueSize
    /\ disk \subseteq Chunks /\ IsFiniteSet(disk) /\ tmp \subseteq Writers
    /\ pc \in [Writers -> Places]
    /\ call \in [Threads -> Calls]
    /\ batch \in [Writers -> Chunks \cup {NoChunk}]
    /\ total \in [Writers -> Nat]
    /\ accepted \in 0..MaxFrames /\ lost \subseteq 1..accepted
    /\ era \in 0..MaxClears /\ restarts \in 0..MaxRestarts

\* A writer that still has to store what it holds.
Unstored(w) == pc[w] \in {"build", "write", "rename"}

QueuedAt(i, f) == queue[i] # Sentinel /\ f \in Frames(queue[i])

\* Where a frame is.
Sites(f) ==
    {<<"pending", i>> : i \in {j \in DOMAIN pending : pending[j] = f}}
        \cup {<<"held", w>> : w \in {v \in Writers : Unstored(v) /\ f \in Held(v)}}
        \cup {<<"queued", i>> : i \in {j \in DOMAIN queue : QueuedAt(j, f)}}
        \cup {<<"stored", c>> : c \in {d \in disk : f \in Frames(d)}}

\* Every frame that append() took is in exactly one place, or was given up on a
\* path the code announces (a failed write, retention, clear(), a crash): the
\* hand-over of a batch between appenders, flushers, queue and worker neither
\* drops nor doubles one.
FrameLedger ==
    \A f \in 1..accepted : Cardinality(Sites(f)) = IF f \in lost THEN 0 ELSE 1

\* Sorting the files by name sorts the frames by time, as
\* read_all_stored_frames() assumes, across overlapping flushes, synchronous
\* writes that overtake the queue, retention and restarts (within one
\* numbering: clear() starts a new one).
StoredInOrder ==
    \A c, d \in disk :
        c.era = d.era /\ c # d =>
            /\ c.index # d.index
            /\ c.index < d.index =>
                \A f \in Frames(c), g \in Frames(d) : f < g

\* When flush(drain=True) finds the queue done, the chunk it handed over is on
\* disk, or was given up on an announced path.
DrainIsDurable ==
    \A t \in Threads :
        pc[t] = "drain" /\ unfinished = 0 =>
            Held(t) \subseteq lost \cup UNION {Frames(c) : c \in disk}

\* Once close() has flushed, no frame waits in a list that nobody will flush.
NothingStranded ==
    closed /\ (\A t \in Threads : call[t] = "close" => pc[t] # "detach")
        => pending = <<>>

\* As long as the buffer is open, a queued chunk is eventually stored or given
\* up, whatever write fails: the worker outlives every exception.
WrittenWhileOpen ==
    \A f \in 1..MaxFrames :
        (\E i \in DOMAIN queue : QueuedAt(i, f))
            ~> (closed \/ f \in lost \cup UNION {Frames(c) : c \in disk})

\* What the comment in close() says: once close() has returned, no chunk waits
\* for a worker that is gone.
CloseIsDurable ==
    closed /\ pc[Worker] = "done" /\ (\A t \in Threads : call[t] # "close") =>
        \A i \in DOMAIN queue : queue[i] = Sentinel

\* What is stored can be read again: no chunk is longer than the reader accepts.
StoredIsReadable == TooLong = {}
-----------------------------------------------------------------------------
(* What the proofs need beside the properties *)

\* The queue's own count is what is in it and what the worker has taken out and
\* not answered for with task_done().
Busy == {"write", "rename", "count", "retain", "resync"}

TaskInv ==
    /\ pc[Worker] \in Busy \cup {"get", "empty", "done"}
    /\ unfinished = Len(queue) + IF pc[Worker] \in Busy THEN 1 ELSE 0

\* A writer on its way to the disk has a chunk.
ChunkInv == \A w \in Writers : Unstored(w) => batch[w] \in Chunks

\* Who has a chunk is at work on it, or waits for the worker to store it.
HolderInv ==
    \A w \in Writers : batch[w] # NoChunk => pc[w] \in Busy \cup {"build", "drain"}

\* Every chunk there is, wherever it is.
Around ==
    disk \cup (({batch[w] : w \in Writers} \cup ToSet(queue)) \ {NoChunk, Sentinel})

\* What was accepted bounds the numbering.
BoundInv ==
    /\ chunkIndex + Len(pending) <= accepted
    /\ \A g \in ToSet(pending) : g <= accepted
    /\ \A c \in Around :
        /\ c.index < accepted /\ c.era <= era
        /\ \A f \in Frames(c) : f <= accepted

\* Of two chunks of one numbering the one with the smaller index has the older
\* frames.
InOrder(c, d) ==
    c.era = d.era /\ c # d =>
        /\ c.index # d.index
        /\ c.index < d.index => \A f \in Frames(c), g \in Frames(d) : f < g

\* Every chunk of this numbering comes before the one the next flush() builds.
OrderInv ==
    /\ \A c, d \in Around : InOrder(c, d)
    /\ \A c \in Around :
        c.era = era =>
            /\ c.index < chunkIndex
            /\ \A f \in Frames(c), g \in ToSet(pending) : f < g

\* A frame of a chunk that was handed to the worker is still on its way through
\* the worker, or has arrived.
UnderWay(f) ==
    \/ f \in lost
    \/ \E c \in disk : f \in Frames(c)
    \/ \E i \in DOMAIN queue : QueuedAt(i, f)
    \/ Unstored(Worker) /\ f \in Held(Worker)

DrainInv == \A t \in Threads : pc[t] = "drain" => \A f \in Held(t) : UnderWay(f)

\* The chunk a writer has just stored is where it put it, unless somebody has
\* removed it since.
StoredInv ==
    \A w \in Writers :
        pc[w] \in {"count", "retain"} => Held(w) \subseteq lost \/ batch[w] \in disk
=============================================================================
