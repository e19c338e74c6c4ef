------------------------- MODULE RollingDiskProofs -------------------------
(***************************************************************************)
(* Proofs about RollingDisk, for any number of appenders and owners and    *)
(* any limits, with failing writes, retention and restarts: close strands  *)
(* nothing, the files are in the order of the frames, what a drain waited  *)
(* for is stored, and no frame is lost or doubled on the way.              *)
(***************************************************************************)
EXTENDS RollingDisk, TLAPS, FiniteSetTheorems, WellFoundedInduction

\* Where the threads are, as far as the proof needs it.
PlaceInv ==
    /\ pc \in [Writers -> Places]
    /\ call \in [Threads -> Calls]

StrandInv == PlaceInv /\ NothingStranded

\* A thread that goes on from anywhere but the detaching section, and touches
\* neither the flag nor the list, strands nothing.
LEMMA GotoStrandsNothing ==
    ASSUME StrandInv, NEW w \in Writers, NEW at \in Places,
           pc[w] # "detach", Goto(w, at), UNCHANGED <<closed, pending>>
    PROVE  StrandInv'
<1>1. PlaceInv'
    BY DEF StrandInv, PlaceInv, Goto, Calls, Writers
<1>2. \A t \in Threads : call[t] = "close" /\ pc[t] = "detach"
                            => call'[t] = "close" /\ pc'[t] = "detach"
    BY DEF StrandInv, PlaceInv, Goto, Writers
<1>3. NothingStranded'
    BY <1>2 DEF StrandInv, NothingStranded
<1>4. QED
    BY <1>1, <1>3 DEF StrandInv

\* Where flush() goes on is a place.
LEMMA AfterIsPlace == ASSUME NEW t PROVE After(t) \in Places
BY DEF After, Places

\* A call other than close() that begins strands nothing.
LEMMA EnterStrandsNothing ==
    ASSUME StrandInv, NEW t \in Threads, NEW op \in Calls, NEW at \in Places,
           Enter(t, op, at), UNCHANGED <<closed, pending>>
    PROVE  StrandInv'
<1>1. PlaceInv'
    BY DEF StrandInv, PlaceInv, Enter, Writers
<1>2. \A u \in Threads : call[u] = "close" /\ pc[u] = "detach"
                            => call'[u] = "close" /\ pc'[u] = "detach"
    BY DEF StrandInv, PlaceInv, Enter, Writers
<1>3. NothingStranded'
    BY <1>2 DEF StrandInv, NothingStranded
<1>4. QED
    BY <1>1, <1>3 DEF StrandInv

\* The steps of a writer touch neither the flag nor the list.
LEMMA WritingStrandsNothing ==
    ASSUME StrandInv, NEW w \in Writers, WriterStep(w)
    PROVE  StrandInv'
<1> USE DEF process
<1>1. ASSUME NEW at \in Places, pc[w] # "detach", Goto(w, at), UNCHANGED <<closed, pending>>
      PROVE  StrandInv'
    BY <1>1, GotoStrandsNothing
<1>2. {"rename", "count", "retain", "resync", "get", "idle"} \subseteq Places
    BY DEF Places
<1>3. CASE WriteTmp(w)
    BY <1>1, <1>2, <1>3 DEF WriteTmp
<1>4. CASE Rename(w)
    BY <1>1, <1>2, <1>4 DEF Rename
<1>5. CASE Count(w)
    BY <1>1, <1>2, <1>5 DEF Count
<1>6. CASE WriteFails(w)
    BY <1>1, <1>2, <1>6 DEF WriteFails, Broken
<1>7. CASE SweepFails(w)
    BY <1>1, <1>2, <1>7 DEF SweepFails, Broken
<1>8. CASE NotDue(w)
    BY <1>1, <1>2, <1>8, AfterIsPlace DEF NotDue, Finish
<1>9. CASE Sweep(w)
    BY <1>1, <1>2, <1>9 DEF Sweep
<1>10. CASE Resync(w)
    BY <1>1, <1>2, <1>10, AfterIsPlace DEF Resync, Finish
<1>11. QED
    BY <1>3, <1>4, <1>5, <1>6, <1>7, <1>8, <1>9, <1>10 DEF WriterStep

\* Nor do the worker's.
LEMMA WorkerStrandsNothing ==
    ASSUME StrandInv, WorkerStep
    PROVE  StrandInv'
<1> USE DEF process
<1>1. Worker \in Writers
    BY DEF Writers
<1>2. ASSUME NEW at \in Places, pc[Worker] # "detach", Goto(Worker, at),
             UNCHANGED <<closed, pending>>
      PROVE  StrandInv'
    BY <1>1, <1>2, GotoStrandsNothing
<1>3. {"write", "done", "empty", "get"} \subseteq Places
    BY DEF Places
<1>4. CASE Take
    BY <1>2, <1>3, <1>4 DEF Take
<1>5. CASE TakeSentinel
    BY <1>2, <1>3, <1>5 DEF TakeSentinel
<1>6. CASE TakeNothing
    BY <1>2, <1>3, <1>6 DEF TakeNothing
<1>7. CASE LookClosed
    BY <1>2, <1>3, <1>7 DEF LookClosed
<1>8. CASE WriterStep(Worker)
    BY <1>1, <1>8, WritingStrandsNothing
<1>9. QED
    BY <1>4, <1>5, <1>6, <1>7, <1>8 DEF WorkerStep

\* Detaching empties the list, or finds it empty; the rest of flush() is past it.
LEMMA FlushStrandsNothing ==
    ASSUME StrandInv, NEW t \in Threads, FlushStep(t)
    PROVE  StrandInv'
<1> USE DEF process
<1>1. t \in Writers
    BY DEF Writers
<1>2. ASSUME NEW at \in Places, pc[t] # "detach", Goto(t, at), UNCHANGED <<closed, pending>>
      PROVE  StrandInv'
    BY <1>1, <1>2, GotoStrandsNothing
<1>3. {"build", "drain", "write", "idle"} \subseteq Places
    BY DEF Places
<1>4. ASSUME NEW at \in Places, Goto(t, at), pending' = <<>>
      PROVE  StrandInv'
    BY <1>1, <1>4 DEF StrandInv, PlaceInv, NothingStranded, Goto, Calls, Writers
<1>5. CASE Detach(t)
    BY <1>3, <1>4, <1>5 DEF Detach
<1>6. CASE DetachNothing(t)
    BY <1>3, <1>4, <1>6, AfterIsPlace DEF DetachNothing
<1>7. CASE KeyFails(t)
    BY <1>2, <1>3, <1>7 DEF KeyFails
<1>8. CASE SerializeFails(t)
    BY <1>2, <1>8, AfterIsPlace DEF SerializeFails
<1>9. CASE Put(t)
    BY <1>2, <1>3, <1>9, AfterIsPlace DEF Put
<1>10. CASE PutFull(t)
    BY <1>2, <1>3, <1>10 DEF PutFull
<1>11. CASE Drained(t)
    BY <1>2, <1>11, AfterIsPlace DEF Drained
<1>12. CASE DrainTimesOut(t)
    BY <1>2, <1>12, AfterIsPlace DEF DrainTimesOut
<1>13. CASE WriterStep(t)
    BY <1>1, <1>13, WritingStrandsNothing
<1>14. QED
    BY <1>5, <1>6, <1>7, <1>8, <1>9, <1>10, <1>11, <1>12, <1>13 DEF FlushStep

\* An append goes through while the buffer is open only; close() is itself on
\* its way to detach what is there; clear() empties the list.
LEMMA CallStrandsNothing ==
    ASSUME StrandInv, NEW t \in Threads,
           AppendFrame(t) \/ Flush(t) \/ Read(t) \/ Close(t) \/ Clear(t)
    PROVE  StrandInv'
<1> USE DEF process
<1>1. {"detach", "idle", "scan", "unlink"} \subseteq Places
    BY DEF Places
<1>2. ASSUME NEW op \in Calls, NEW at \in Places, Enter(t, op, at),
             ~closed' \/ pending' = <<>> \/ (op = "close" /\ at = "detach")
      PROVE  StrandInv'
    <2>1. PlaceInv'
        BY <1>2 DEF StrandInv, PlaceInv, Enter, Writers
    <2>2. CASE op = "close" /\ at = "detach"
        <3>1. call'[t] = "close" /\ pc'[t] = "detach"
            BY <1>2, <2>2 DEF StrandInv, PlaceInv, Enter, Writers
        <3>2. QED
            BY <2>1, <3>1 DEF StrandInv, NothingStranded
    <2>3. CASE ~closed' \/ pending' = <<>>
        BY <2>1, <2>3 DEF StrandInv, NothingStranded
    <2>4. QED
        BY <1>2, <2>2, <2>3
<1>3. CASE AppendFrame(t)
    BY <1>1, <1>2, <1>3 DEF AppendFrame, Calls
<1>4. CASE Flush(t)
    BY <1>1, <1>4, EnterStrandsNothing DEF Flush, Calls
<1>5. CASE Read(t)
    BY <1>1, <1>5, EnterStrandsNothing DEF Read, Calls
<1>6. CASE Close(t)
    BY <1>1, <1>2, <1>6 DEF Close, Calls
<1>7. CASE Clear(t)
    BY <1>1, <1>2, <1>7 DEF Clear, Calls
<1>8. QED
    BY <1>3, <1>4, <1>5, <1>6, <1>7

\* The rest of read, close and clear is past the list.
LEMMA OwnerStrandsNothing ==
    ASSUME StrandInv, NEW t \in Threads,
           \/ Settle(t) \/ Scan(t) \/ ScanKeyFails(t) \/ PutSentinel(t) \/ Join(t)
           \/ ClearChunks(t) \/ ClearTmp(t)
    PROVE  StrandInv'
<1> USE DEF process
<1>1. t \in Writers
    BY DEF Writers
<1>2. ASSUME NEW at \in Places, pc[t] # "detach", Goto(t, at), UNCHANGED <<closed, pending>>
      PROVE  StrandInv'
    BY <1>1, <1>2, GotoStrandsNothing
<1>3. {"scan", "idle", "join", "untmp"} \subseteq Places
    BY DEF Places
<1>4. QED
    BY <1>2, <1>3 DEF Settle, Scan, ScanKeyFails, PutSentinel, Join, ClearChunks, ClearTmp

\* A buffer that has just been opened is not closed.
LEMMA RestartStrandsNothing == ASSUME StrandInv, Restart PROVE StrandInv'
BY DEF StrandInv, PlaceInv, NothingStranded, Restart, Places, Calls

\* However appends, flushes, reads, clears and a close overlap, no frame is left
\* in _current_chunk_frames once close() has flushed: append() checks _closed in
\* the lock section in which it adds the frame.
THEOREM ClosedStrandsNothing == Spec => []NothingStranded
<1>1. Init => StrandInv
    BY DEF Init, StrandInv, PlaceInv, NothingStranded, Places, Calls
<1>2. StrandInv /\ [Next]_vars => StrandInv'
    <2> SUFFICES ASSUME StrandInv, [Next]_vars PROVE StrandInv'
        OBVIOUS
    <2>1. CASE WorkerStep
        BY <2>1, WorkerStrandsNothing
    <2>2. ASSUME NEW t \in Appenders, AppendFrame(t) PROVE StrandInv'
        BY <2>2, CallStrandsNothing DEF Threads
    <2>3. ASSUME NEW t \in Threads, FlushStep(t) PROVE StrandInv'
        BY <2>3, FlushStrandsNothing
    <2>4. ASSUME NEW t \in Owners, Flush(t) \/ Read(t) \/ Close(t) \/ Clear(t)
          PROVE  StrandInv'
        BY <2>4, CallStrandsNothing DEF Threads
    <2>5. ASSUME NEW t \in Owners,
                 \/ Settle(t) \/ Scan(t) \/ ScanKeyFails(t) \/ PutSentinel(t) \/ Join(t)
                 \/ ClearChunks(t) \/ ClearTmp(t)
          PROVE  StrandInv'
        BY <2>5, OwnerStrandsNothing DEF Threads
    <2>6. CASE Restart
        BY <2>6, RestartStrandsNothing
    <2>7. CASE UNCHANGED vars
        BY <2>7 DEF vars, process, locals, StrandInv, PlaceInv, NothingStranded
    <2>8. QED
        BY <2>1, <2>2, <2>3, <2>4, <2>5, <2>6, <2>7 DEF Next
<1>3. StrandInv => NothingStranded
    BY DEF StrandInv
<1>4. QED
    BY <1>1, <1>2, <1>3, PTL DEF Spec
-----------------------------------------------------------------------------
(* Sequences, sets and the numbering *)

\* What Append() adds to a list.
LEMMA Appended ==
    ASSUME NEW S, NEW s \in Seq(S), NEW e \in S
    PROVE  /\ Append(s, e) \in Seq(S)
           /\ Len(Append(s, e)) = Len(s) + 1
           /\ DOMAIN Append(s, e) = DOMAIN s \cup {Len(s) + 1}
           /\ \A i \in DOMAIN s : Append(s, e)[i] = s[i]
           /\ Append(s, e)[Len(s) + 1] = e
OBVIOUS

LEMMA AppendedSet ==
    ASSUME NEW S, NEW s \in Seq(S), NEW e \in S
    PROVE  ToSet(Append(s, e)) = ToSet(s) \cup {e}
BY Appended DEF ToSet

\* What Tail() leaves of one.
LEMMA TailOf ==
    ASSUME NEW S, NEW s \in Seq(S), s # <<>>
    PROVE  /\ Tail(s) \in Seq(S)
           /\ Len(s) \in Nat \ {0} /\ Len(Tail(s)) = Len(s) - 1
           /\ DOMAIN s = 1..Len(s) /\ DOMAIN Tail(s) = 1..(Len(s) - 1)
           /\ \A i \in DOMAIN Tail(s) : Tail(s)[i] = s[i + 1]
           /\ Head(s) = s[1] /\ Head(s) \in S
           /\ ToSet(Tail(s)) \subseteq ToSet(s) /\ Head(s) \in ToSet(s)
<1>1. /\ Tail(s) \in Seq(S)
      /\ Len(s) \in Nat \ {0} /\ Len(Tail(s)) = Len(s) - 1
      /\ DOMAIN s = 1..Len(s) /\ DOMAIN Tail(s) = 1..(Len(s) - 1)
      /\ \A i \in DOMAIN Tail(s) : Tail(s)[i] = s[i + 1]
      /\ Head(s) = s[1] /\ Head(s) \in S
    OBVIOUS
<1>2. ToSet(Tail(s)) \subseteq ToSet(s) /\ Head(s) \in ToSet(s)
    BY <1>1 DEF ToSet
<1>3. QED
    BY <1>1, <1>2

\* The empty list.
LEMMA EmptyList ==
    ASSUME NEW S
    PROVE  <<>> \in Seq(S) /\ Len(<<>>) = 0 /\ DOMAIN <<>> = {} /\ ToSet(<<>>) = {}
<1>1. <<>> \in Seq(S) /\ Len(<<>>) = 0 /\ DOMAIN <<>> = {}
    OBVIOUS
<1>2. QED
    BY <1>1 DEF ToSet

\* The entries of a list.
LEMMA ListEntries ==
    ASSUME NEW S, NEW s \in Seq(S)
    PROVE  ToSet(s) \subseteq S
BY DEF ToSet

\* A set of naturals below a bound has a maximum, which is what Max() chooses.
LEMMA MaxOf ==
    ASSUME NEW n \in Nat, NEW S \in SUBSET (0..n), S # {}
    PROVE  Max(S) \in S /\ \A y \in S : Max(S) >= y
<1> DEFINE T == {n - x : x \in S}
<1>0. \A x \in S : n - x \in Nat
    OBVIOUS
<1>1. T \subseteq Nat /\ T # {}
    BY <1>0
<1>2. PICK m \in T : \A y \in T : ~(<<y, m>> \in OpToRel(<, Nat))
    BY <1>1, NatLessThanWellFounded, WFMin
<1>3. \A y \in T : y >= m
    <2> SUFFICES ASSUME NEW y \in T, y < m PROVE FALSE
        BY <1>1
    <2>1. y \in Nat /\ m \in Nat
        BY <1>1
    <2>2. <<y, m>> \in OpToRel(<, Nat)
        BY <2>1 DEF OpToRel
    <2>3. QED
        BY <1>2, <2>2
<1>4. PICK x \in S : m = n - x
    OBVIOUS
<1>5. \A y \in S : x >= y
    <2> SUFFICES ASSUME NEW y \in S PROVE x >= y
        OBVIOUS
    <2>1. n - y \in T
        OBVIOUS
    <2>2. n - y >= n - x
        BY <1>3, <1>4, <2>1
    <2>3. QED
        BY <2>2
<1>6. QED
    BY <1>5 DEF Max
-----------------------------------------------------------------------------
(* Types, and the chunks there are *)

Typed == TypeOK /\ TaskInv /\ ChunkInv
DiskInv == Typed /\ BoundInv /\ OrderInv

\* Membership in Around.
LEMMA AroundIs ==
    ASSUME NEW c
    PROVE  c \in Around <=>
                \/ c \in disk
                \/ /\ c # NoChunk /\ c # Sentinel
                   /\ (\E w \in Writers : batch[w] = c) \/ c \in ToSet(queue)
BY DEF Around

\* Whatever is around is a chunk.
LEMMA AroundAreChunks == ASSUME Typed PROVE Around \subseteq Chunks
<1>1. ToSet(queue) \subseteq Chunks \cup {Sentinel}
    BY ListEntries DEF Typed, TypeOK
<1>2. QED
    BY <1>1 DEF Around, Typed, TypeOK

\* The frames of a chunk that is around, and the pending ones, were accepted.
LEMMA FramesWereAccepted ==
    ASSUME Typed, BoundInv
    PROVE  /\ \A c \in Around : Frames(c) \subseteq 1..accepted
           /\ \A w \in Writers : Held(w) \subseteq 1..accepted
           /\ ToSet(pending) \subseteq 1..accepted
<1>1. ASSUME NEW c \in Around PROVE Frames(c) \subseteq 1..accepted
    <2>1. Frames(c) \subseteq 1..MaxFrames
        <3>1. c.frames \in Seq(1..MaxFrames)
            BY AroundAreChunks DEF Chunks
        <3>2. QED
            BY <3>1, ListEntries DEF Frames
    <2>2. \A f \in Frames(c) : f <= accepted
        BY DEF BoundInv
    <2>3. QED
        BY <2>1, <2>2, RollingDiskAssumption DEF Typed, TypeOK
<1>2. ASSUME NEW w \in Writers PROVE Held(w) \subseteq 1..accepted
    <2>1. CASE batch[w] = NoChunk
        BY <2>1 DEF Held
    <2>2. CASE batch[w] # NoChunk
        <3>1. batch[w] \in Around
            BY <2>2, AroundIs, NoneIsNoChunk DEF Typed, TypeOK
        <3>2. QED
            BY <1>1, <2>2, <3>1 DEF Held
    <2>3. QED
        BY <2>1, <2>2
<1>3. ToSet(pending) \subseteq 1..MaxFrames
    BY ListEntries DEF Typed, TypeOK
<1>4. ToSet(pending) \subseteq 1..accepted
    BY <1>3, RollingDiskAssumption DEF BoundInv, Typed, TypeOK
<1>5. QED
    BY <1>1, <1>2, <1>4

\* Where Goto() leaves the threads.
LEMMA GotoLeaves ==
    ASSUME Typed, NEW w \in Writers, NEW at \in Places, Goto(w, at)
    PROVE  /\ pc' \in [Writers -> Places] /\ call' \in [Threads -> Calls]
           /\ pc'[w] = at /\ \A v \in Writers : v # w => pc'[v] = pc[v]
           /\ \A t \in Threads : t # w => call'[t] = call[t]
           /\ at # "idle" => call' = call
BY DEF Goto, Typed, TypeOK, Calls, Writers

\* Where Enter() does.
LEMMA EnterLeaves ==
    ASSUME Typed, NEW t \in Threads, NEW op \in Calls, NEW at \in Places, Enter(t, op, at)
    PROVE  /\ pc' \in [Writers -> Places] /\ call' \in [Threads -> Calls]
           /\ pc'[t] = at /\ \A v \in Writers : v # t => pc'[v] = pc[v]
           /\ pc[t] = "idle" /\ t \in Writers /\ t # Worker /\ Worker \in Writers
BY RollingDiskAssumption DEF Enter, Typed, TypeOK, Writers, Threads

\* The steps that build no chunk and move none through the queue: a writer goes
\* on, keeps its chunk or lets it go, and puts at most that chunk on the disk.
Onward(w, at) ==
    /\ Goto(w, at)
    /\ \/ batch' = batch /\ (at \in {"write", "rename"} => Unstored(w))
       \/ batch' = [batch EXCEPT ![w] = NoChunk] /\ at \notin {"write", "rename"}
    /\ at # "build"
    /\ closed' \in BOOLEAN /\ available' \in BOOLEAN
    /\ approx' \in Nat /\ total' \in [Writers -> Nat]
    /\ disk' \subseteq Chunks /\ IsFiniteSet(disk')
    /\ disk' \subseteq disk \cup {batch[w]}
    /\ tmp' \subseteq Writers /\ lost' \subseteq 1..accepted
    /\ UNCHANGED <<pending, chunkIndex, accepted, era, restarts, queue>>
    /\ w # Worker => unfinished' = unfinished
    /\ w = Worker =>
        /\ at \in Busy \cup {"get", "empty", "done"}
        /\ unfinished' = Len(queue) + IF at \in Busy THEN 1 ELSE 0

LEMMA OnwardTyped ==
    ASSUME Typed, NEW w \in Writers, NEW at \in Places, Onward(w, at)
    PROVE  Typed' /\ Around' \subseteq Around
<1>1. /\ pc' \in [Writers -> Places] /\ call' \in [Threads -> Calls]
      /\ pc'[w] = at /\ \A v \in Writers : v # w => pc'[v] = pc[v]
    BY GotoLeaves DEF Onward
<1>2. batch' \in [Writers -> Chunks \cup {NoChunk}]
    BY DEF Onward, Typed, TypeOK
<1>3. /\ \A v \in Writers : batch'[v] = batch[v] \/ batch'[v] = NoChunk
      /\ \A v \in Writers : v # w => batch'[v] = batch[v]
    BY DEF Onward, Typed, TypeOK
<1>4. TaskInv'
    <2>1. CASE w = Worker
        BY <1>1, <2>1 DEF Onward, TaskInv
    <2>2. CASE w # Worker
        <3>1. pc'[Worker] = pc[Worker]
            BY <1>1, <2>2 DEF Writers
        <3>2. QED
            BY <2>2, <3>1 DEF Onward, TaskInv, Typed
    <2>3. QED
        BY <2>1, <2>2
<1>5. unfinished' \in Nat
    <2>1. Len(queue') \in Nat
        BY DEF Onward, Typed, TypeOK
    <2>2. QED
        BY <1>4, <2>1 DEF TaskInv
<1>6. TypeOK'
    BY <1>1, <1>2, <1>5 DEF Onward, Typed, TypeOK
<1>7. ChunkInv'
    <2> SUFFICES ASSUME NEW v \in Writers, Unstored(v)' PROVE batch'[v] \in Chunks
        BY DEF ChunkInv
    <2>1. CASE v # w
        BY <1>1, <1>3, <2>1 DEF Unstored, Typed, ChunkInv
    <2>2. CASE v = w
        <3>1. at \in {"write", "rename"}
            BY <1>1, <2>2 DEF Unstored, Onward
        <3>2. batch' = batch /\ Unstored(w)
            BY <3>1 DEF Onward
        <3>3. QED
            BY <2>2, <3>2 DEF Typed, ChunkInv
    <2>3. QED
        BY <2>1, <2>2
<1>8. Around' \subseteq Around
    <2> SUFFICES ASSUME NEW c, c \in Around' PROVE c \in Around
        OBVIOUS
    <2>1. \/ c \in disk'
          \/ /\ c # NoChunk /\ c # Sentinel
             /\ (\E v \in Writers : batch'[v] = c) \/ c \in ToSet(queue')
        BY DEF Around
    <2>2. CASE c \in disk'
        <3>1. c # NoChunk /\ c # Sentinel
            BY <2>2, NoneIsNoChunk DEF Onward
        <3>2. QED
            BY <2>2, <3>1, AroundIs DEF Onward
    <2>3. CASE /\ c # NoChunk /\ c # Sentinel
               /\ (\E v \in Writers : batch'[v] = c) \/ c \in ToSet(queue')
        BY <1>3, <2>3, AroundIs DEF Onward
    <2>4. QED
        BY <2>1, <2>2, <2>3
<1>9. QED
    BY <1>4, <1>6, <1>7, <1>8 DEF Typed

\* A step after which no chunk is around that was not, and which touches neither
\* the pending list nor the numbering, keeps the order.
LEMMA NothingNew ==
    ASSUME BoundInv, OrderInv, Around' \subseteq Around,
           UNCHANGED <<pending, chunkIndex, accepted, era>>
    PROVE  BoundInv' /\ OrderInv'
<1>1. BoundInv'
    BY DEF BoundInv
<1>2. \A c, d \in Around' : InOrder(c, d)
    BY DEF OrderInv
<1>3. OrderInv'
    BY <1>2 DEF OrderInv, InOrder
<1>4. QED
    BY <1>1, <1>3
LEMMA OnwardKeeps ==
    ASSUME DiskInv, NEW w \in Writers, NEW at \in Places, Onward(w, at)
    PROVE  DiskInv'
<1>1. Typed' /\ Around' \subseteq Around
    BY OnwardTyped DEF DiskInv
<1>2. UNCHANGED <<pending, chunkIndex, accepted, era>>
    BY DEF Onward
<1>3. BoundInv' /\ OrderInv'
    BY <1>1, <1>2, NothingNew DEF DiskInv
<1>4. QED
    BY <1>1, <1>3 DEF DiskInv

\* Where flush() goes on.
LEMMA AfterIs == ASSUME NEW t PROVE After(t) \in {"sentinel", "settle", "idle"}
BY DEF After

\* Chunks that are removed were on the disk, and their frames were accepted.
LEMMA Removed ==
    ASSUME DiskInv, NEW gone, gone \subseteq disk, Unlink(gone)
    PROVE  /\ disk' \subseteq disk /\ IsFiniteSet(disk') /\ Cardinality(disk') \in Nat
           /\ lost' \subseteq 1..accepted
<1>1. disk' \subseteq disk /\ IsFiniteSet(disk)
    BY DEF Unlink, DiskInv, Typed, TypeOK
<1>2. IsFiniteSet(disk')
    BY <1>1, FS_Subset
<1>3. \A c \in gone : Frames(c) \subseteq 1..accepted
    BY FramesWereAccepted DEF DiskInv, Around
<1>4. lost' \subseteq 1..accepted
    BY <1>3 DEF Unlink, DiskInv, Typed, TypeOK
<1>5. QED
    BY <1>1, <1>2, <1>4, FS_CardinalityType

\* Giving a chunk up loses frames that were accepted.
LEMMA GivenUp ==
    ASSUME DiskInv, NEW w \in Writers, GiveUp(w)
    PROVE  lost' \subseteq 1..accepted
<1>1. Held(w) \subseteq 1..accepted
    BY FramesWereAccepted DEF DiskInv
<1>2. QED
    BY <1>1 DEF GiveUp, DiskInv, Typed, TypeOK

\* What the queue's count says of the worker.
LEMMA WorkerCounts ==
    ASSUME DiskInv
    PROVE  /\ Len(queue) \in Nat /\ pc[Worker] \in Busy \cup {"get", "empty", "done"}
           /\ pc[Worker] \in Busy => unfinished = Len(queue) + 1
           /\ pc[Worker] \notin Busy => unfinished = Len(queue)
           /\ Worker \in Writers
           /\ "get" \notin Busy /\ "empty" \notin Busy /\ "done" \notin Busy
BY DEF DiskInv, Typed, TypeOK, TaskInv, Writers, Busy

\* The steps of _write_chunk and of the sweep.
LEMMA WriterKeeps ==
    ASSUME DiskInv, NEW w \in Writers, WriterStep(w)
    PROVE  DiskInv'
<1> USE DEF process, files, fifo, history, Busy
<1>1. TypeOK
    BY DEF DiskInv, Typed
<1>2. {"write", "rename", "count", "retain", "resync", "get", "idle"} \subseteq Places
    BY DEF Places
<1>3. CASE WriteTmp(w)
    <2>1. Onward(w, "rename")
        BY <1>1, <1>3, WorkerCounts DEF WriteTmp, Onward, TypeOK, Unstored
    <2>2. QED
        BY <1>2, <2>1, OnwardKeeps
<1>4. CASE Rename(w)
    <2>1. Unstored(w) /\ batch[w] \in Chunks
        BY <1>4 DEF Rename, Unstored, DiskInv, Typed, ChunkInv
    <2>2. disk' \subseteq Chunks /\ IsFiniteSet(disk')
        BY <1>1, <1>4, <2>1, FS_AddElement DEF Rename, TypeOK
    <2>3. Onward(w, "count")
        BY <1>1, <1>4, <2>2, WorkerCounts DEF Rename, Onward, TypeOK
    <2>4. QED
        BY <1>2, <2>3, OnwardKeeps
<1>5. CASE Count(w)
    <2>1. Onward(w, "retain")
        BY <1>1, <1>5, WorkerCounts DEF Count, Onward, TypeOK
    <2>2. QED
        BY <1>2, <2>1, OnwardKeeps
<1>6. ASSUME pc[w] \in {"write", "rename", "retain"}, Broken(w), lost' \subseteq 1..accepted,
             tmp' \subseteq Writers, batch' = [batch EXCEPT ![w] = NoChunk],
             UNCHANGED <<process, queue, total, accepted, era, restarts>>
      PROVE  DiskInv'
    <2>1. disk' \subseteq disk /\ IsFiniteSet(disk')
        BY <1>1, <1>6, FS_Subset DEF Broken, TypeOK
    <2>2. CASE w = Worker
        <3>1. Onward(w, "get")
            BY <1>1, <1>6, <2>1, <2>2, WorkerCounts DEF Broken, Onward, TypeOK
        <3>2. QED
            BY <1>2, <3>1, OnwardKeeps
    <2>3. CASE w # Worker
        <3>1. Onward(w, "idle")
            BY <1>1, <1>6, <2>1, <2>3 DEF Broken, Onward, TypeOK
        <3>2. QED
            BY <1>2, <3>1, OnwardKeeps
    <2>4. QED
        BY <2>2, <2>3
<1>7. CASE WriteFails(w)
    <2>1. pc[w] \in {"write", "rename", "retain"} /\ tmp' \subseteq Writers
        BY <1>1, <1>7 DEF WriteFails, TypeOK
    <2>2. lost' \subseteq 1..accepted
        BY <1>7, GivenUp DEF WriteFails
    <2>3. QED
        BY <1>6, <1>7, <2>1, <2>2 DEF WriteFails, GiveUp
<1>8. CASE SweepFails(w)
    <2>1. lost' \subseteq 1..accepted
        BY <1>1, <1>8, FramesWereAccepted DEF SweepFails, TypeOK, DiskInv
    <2>2. QED
        BY <1>1, <1>6, <1>8, <2>1 DEF SweepFails, TypeOK
<1>9. ASSUME pc[w] \in {"retain", "resync"}, Finish(w), approx' \in Nat,
             total' \in [Writers -> Nat],
             UNCHANGED <<closed, available, pending, chunkIndex, files, queue, history>>
      PROVE  DiskInv'
    <2>1. CASE w = Worker
        <3>1. Onward(w, "get")
            BY <1>1, <1>9, <2>1, WorkerCounts DEF Finish, Onward, TypeOK
        <3>2. QED
            BY <1>2, <3>1, OnwardKeeps
    <2>2. CASE w # Worker
        <3>1. Onward(w, After(w))
            BY <1>1, <1>9, <2>2, AfterIs DEF Finish, Onward, TypeOK
        <3>2. QED
            BY <3>1, AfterIsPlace, OnwardKeeps
    <2>3. QED
        BY <2>1, <2>2
<1>10. CASE NotDue(w)
    BY <1>1, <1>9, <1>10 DEF NotDue, TypeOK
<1>11. CASE Sweep(w)
    <2>1. PICK old \in SUBSET disk :
            /\ Unlink(old \cup OverBudget(disk \ old))
            /\ total' = [total EXCEPT ![w] = Cardinality(disk')]
        BY <1>11 DEF Sweep
    <2>2. old \cup OverBudget(disk \ old) \subseteq disk
        BY DEF OverBudget
    <2>3. /\ disk' \subseteq disk /\ IsFiniteSet(disk') /\ Cardinality(disk') \in Nat
          /\ lost' \subseteq 1..accepted
        BY <2>1, <2>2, Removed
    <2>4. total' \in [Writers -> Nat]
        BY <1>1, <2>1, <2>3 DEF TypeOK
    <2>5. UNCHANGED <<accepted, era, restarts>>
        BY <2>1 DEF Unlink
    <2>6. Onward(w, "resync")
        BY <1>1, <1>11, <2>3, <2>4, <2>5, WorkerCounts DEF Sweep, Onward, TypeOK
    <2>7. QED
        BY <1>2, <2>6, OnwardKeeps
<1>12. CASE Resync(w)
    <2>1. approx' \in Nat /\ total' \in [Writers -> Nat]
        BY <1>1, <1>12 DEF Resync, TypeOK
    <2>2. QED
        BY <1>9, <1>12, <2>1 DEF Resync
<1>13. QED
    BY <1>3, <1>4, <1>5, <1>7, <1>8, <1>10, <1>11, <1>12 DEF WriterStep

\* The steps of flush(), from the one that builds the chunk on, but for the one
\* that queues it.
LEMMA FlushKeeps ==
    ASSUME DiskInv, NEW t \in Threads,
           \/ DetachNothing(t) \/ KeyFails(t) \/ SerializeFails(t) \/ PutFull(t)
           \/ Drained(t) \/ DrainTimesOut(t)
    PROVE  DiskInv'
<1> USE DEF process, files, fifo, history
<1>1. TypeOK
    BY DEF DiskInv, Typed
<1>2. {"write", "drain", "idle"} \subseteq Places
    BY DEF Places
<1>3. t \in Writers /\ t # Worker
    BY RollingDiskAssumption DEF Writers, Threads
<1>4. CASE DetachNothing(t)
    <2>1. PICK at \in {"drain", After(t)} : Goto(t, at)
        BY <1>4 DEF DetachNothing
    <2>2. at \in Places /\ at \notin {"build", "write", "rename"}
        BY <1>2, <2>1, AfterIs, AfterIsPlace
    <2>3. Onward(t, at)
        BY <1>1, <1>3, <1>4, <2>1, <2>2 DEF DetachNothing, Onward, TypeOK
    <2>4. QED
        BY <1>3, <2>2, <2>3, OnwardKeeps
<1>5. CASE KeyFails(t)
    <2>1. lost' \subseteq 1..accepted
        BY <1>3, <1>5, GivenUp DEF KeyFails
    <2>2. Onward(t, "idle")
        BY <1>1, <1>3, <1>5, <2>1 DEF KeyFails, GiveUp, Onward, TypeOK
    <2>3. QED
        BY <1>2, <1>3, <2>2, OnwardKeeps
<1>6. CASE SerializeFails(t)
    <2>1. lost' \subseteq 1..accepted
        BY <1>3, <1>6, GivenUp DEF SerializeFails
    <2>2. Onward(t, After(t))
        BY <1>1, <1>3, <1>6, <2>1, AfterIs DEF SerializeFails, GiveUp, Onward, TypeOK
    <2>3. QED
        BY <1>3, <2>2, AfterIsPlace, OnwardKeeps
<1>7. CASE PutFull(t)
    <2>1. Onward(t, "write")
        BY <1>1, <1>3, <1>7 DEF PutFull, Onward, TypeOK, Unstored
    <2>2. QED
        BY <1>2, <1>3, <2>1, OnwardKeeps
<1>8. CASE Drained(t) \/ DrainTimesOut(t)
    <2>1. Onward(t, After(t))
        BY <1>1, <1>3, <1>8, AfterIs DEF Drained, DrainTimesOut, Onward, TypeOK
    <2>2. QED
        BY <1>3, <2>1, AfterIsPlace, OnwardKeeps
<1>9. QED
    BY <1>4, <1>5, <1>6, <1>7, <1>8

\* The steps of read, close and clear after their first, but for the sentinel.
LEMMA OwnerKeeps ==
    ASSUME DiskInv, NEW t \in Threads,
           \/ Settle(t) \/ Scan(t) \/ ScanKeyFails(t) \/ Join(t)
           \/ ClearChunks(t) \/ ClearTmp(t)
    PROVE  DiskInv'
<1> USE DEF process, files, fifo, history
<1>1. TypeOK
    BY DEF DiskInv, Typed
<1>2. {"scan", "idle", "untmp"} \subseteq Places
    BY DEF Places
<1>3. t \in Writers /\ t # Worker
    BY RollingDiskAssumption DEF Writers, Threads
<1>4. CASE Settle(t)
    <2>1. Onward(t, "scan")
        BY <1>1, <1>3, <1>4 DEF Settle, Onward, TypeOK
    <2>2. QED
        BY <1>2, <1>3, <2>1, OnwardKeeps
<1>5. CASE Scan(t)
    <2>1. PICK bad \in SUBSET disk : Unlink(bad)
        BY <1>5 DEF Scan, TooLong
    <2>2. disk' \subseteq disk /\ IsFiniteSet(disk') /\ lost' \subseteq 1..accepted
        BY <2>1, Removed
    <2>3. Onward(t, "idle")
        BY <1>1, <1>3, <1>5, <2>1, <2>2 DEF Scan, Unlink, Onward, TypeOK
    <2>4. QED
        BY <1>2, <1>3, <2>3, OnwardKeeps
<1>6. CASE ScanKeyFails(t)
    <2>1. Onward(t, "idle")
        BY <1>1, <1>3, <1>6 DEF ScanKeyFails, Onward, TypeOK
    <2>2. QED
        BY <1>2, <1>3, <2>1, OnwardKeeps
<1>7. CASE Join(t)
    <2>1. Onward(t, "idle")
        BY <1>1, <1>3, <1>7 DEF Join, Onward, TypeOK
    <2>2. QED
        BY <1>2, <1>3, <2>1, OnwardKeeps
<1>8. CASE ClearChunks(t)
    <2>1. disk' \subseteq disk /\ IsFiniteSet(disk') /\ lost' \subseteq 1..accepted
        BY <1>8, Removed DEF ClearChunks
    <2>2. Onward(t, "untmp")
        BY <1>1, <1>3, <1>8, <2>1 DEF ClearChunks, Unlink, Onward, TypeOK
    <2>3. QED
        BY <1>2, <1>3, <2>2, OnwardKeeps
<1>9. CASE ClearTmp(t)
    <2>1. Onward(t, "idle")
        BY <1>1, <1>3, <1>9 DEF ClearTmp, Onward, TypeOK
    <2>2. QED
        BY <1>2, <1>3, <2>1, OnwardKeeps
<1>10. QED
    BY <1>4, <1>5, <1>6, <1>7, <1>8, <1>9

\* A call that begins: the other steps of append, flush, read, close and clear.
LEMMA EntersTyped ==
    ASSUME DiskInv, NEW t \in Threads, NEW op \in Calls, NEW at \in Places,
           at \notin {"build", "write", "rename"}, Enter(t, op, at),
           closed' \in BOOLEAN, available' \in BOOLEAN, approx' \in Nat,
           pending' \in Seq(1..MaxFrames), chunkIndex' \in Indices,
           accepted' \in 0..MaxFrames, lost' \subseteq 1..accepted', era' \in 0..MaxClears,
           UNCHANGED <<files, fifo, batch, total, restarts>>
    PROVE  Typed' /\ Around' = Around
<1> USE DEF files, fifo
<1>1. /\ pc' \in [Writers -> Places] /\ call' \in [Threads -> Calls]
      /\ pc'[t] = at /\ \A v \in Writers : v # t => pc'[v] = pc[v]
      /\ pc[t] = "idle" /\ t \in Writers /\ t # Worker /\ Worker \in Writers
    BY EnterLeaves DEF DiskInv
<1>2. TypeOK'
    BY <1>1 DEF DiskInv, Typed, TypeOK
<1>3. TaskInv'
    BY <1>1 DEF DiskInv, Typed, TaskInv
<1>4. ChunkInv'
    BY <1>1 DEF DiskInv, Typed, ChunkInv, Unstored
<1>5. QED
    BY <1>2, <1>3, <1>4 DEF Typed, Around

LEMMA EntersKeep ==
    ASSUME DiskInv, NEW t \in Threads,
           AppendFrame(t) \/ Flush(t) \/ Read(t) \/ Close(t) \/ Clear(t)
    PROVE  DiskInv'
<1> USE DEF process, files, fifo, history
<1>1. TypeOK
    BY DEF DiskInv, Typed
<1>2. {"detach", "idle", "scan", "unlink"} \subseteq Places
    BY DEF Places
<1>3. Calls = {"none", "append", "flush", "read", "close", "clear"}
    BY DEF Calls
<1>4. CASE AppendFrame(t)
    <2>1. accepted \in Nat /\ accepted' = accepted + 1 /\ accepted' \in 1..MaxFrames
        BY <1>1, <1>4, RollingDiskAssumption DEF AppendFrame, TypeOK
    <2>2. /\ pending' \in Seq(1..MaxFrames) /\ Len(pending') = Len(pending) + 1
          /\ ToSet(pending') = ToSet(pending) \cup {accepted'}
        <3>1. pending' = Append(pending, accepted') /\ pending \in Seq(1..MaxFrames)
            BY <1>1, <1>4, <2>1 DEF AppendFrame, TypeOK
        <3>2. ASSUME NEW e \in 1..MaxFrames
              PROVE  /\ Append(pending, e) \in Seq(1..MaxFrames)
                     /\ Len(Append(pending, e)) = Len(pending) + 1
                     /\ ToSet(Append(pending, e)) = ToSet(pending) \cup {e}
            <4>1. ToSet(Append(pending, e)) = ToSet(pending) \cup {e}
                <5> DEFINE S == 1..MaxFrames
                <5>1. pending \in Seq(S) /\ e \in S
                    BY <3>1
                <5> HIDE DEF S
                <5>2. QED
                    BY <5>1, AppendedSet
            <4>2. QED
                BY <3>1, <4>1
        <3>3. QED
            BY <2>1, <3>1, <3>2
    <2>3. lost' \subseteq 1..accepted'
        BY <1>1, <1>4, <2>1 DEF AppendFrame, TypeOK
    <2>4. PICK at \in {"detach", "idle"} : Enter(t, "append", at)
        BY <1>4 DEF AppendFrame
    <2>5. Typed' /\ Around' = Around
        <3>1. /\ at \in Places /\ at \notin {"build", "write", "rename"}
              /\ "append" \in Calls
            BY <1>2, <1>3
        <3>2. /\ closed' \in BOOLEAN /\ available' \in BOOLEAN /\ approx' \in Nat
              /\ chunkIndex' \in Indices /\ era' \in 0..MaxClears /\ accepted' \in 0..MaxFrames
              /\ UNCHANGED <<files, fifo, batch, total, restarts>>
            BY <1>1, <1>4, <2>1 DEF AppendFrame, TypeOK
        <3>3. QED
            BY <2>2, <2>3, <2>4, <3>1, <3>2, EntersTyped
    <2>6. /\ UNCHANGED <<chunkIndex, era>> /\ Len(pending) \in Nat /\ chunkIndex \in Nat
          /\ BoundInv /\ OrderInv
        BY <1>1, <1>4 DEF AppendFrame, DiskInv, TypeOK, Indices
    <2>7. \A c \in Around : c.index \in Nat /\ Frames(c) \subseteq 1..accepted
        BY FramesWereAccepted, AroundAreChunks DEF DiskInv, Chunks, Indices
    <2>8. ToSet(pending) \subseteq 1..accepted
        BY FramesWereAccepted DEF DiskInv
    <2>9. BoundInv'
        BY <2>1, <2>2, <2>5, <2>6, <2>7, <2>8 DEF BoundInv
    <2>10. \A c \in Around : \A f \in Frames(c) : f < accepted'
        BY <2>1, <2>7
    <2>11. OrderInv'
        BY <2>2, <2>5, <2>6, <2>10 DEF OrderInv, InOrder
    <2>12. QED
        BY <2>5, <2>9, <2>11 DEF DiskInv
<1>5. ASSUME Typed' /\ Around' = Around, UNCHANGED <<pending, chunkIndex, accepted, era>>
      PROVE  DiskInv'
    BY <1>5, NothingNew DEF DiskInv
<1>6. CASE Flush(t)
    <2>1. Typed' /\ Around' = Around
        BY <1>1, <1>2, <1>3, <1>6, EntersTyped DEF Flush, TypeOK
    <2>2. QED
        BY <1>5, <1>6, <2>1 DEF Flush
<1>7. CASE Read(t)
    <2>1. PICK at \in {"scan", "detach"} : Enter(t, "read", at)
        BY <1>7 DEF Read
    <2>2. Typed' /\ Around' = Around
        BY <1>1, <1>2, <1>3, <1>7, <2>1, EntersTyped DEF Read, TypeOK
    <2>3. QED
        BY <1>5, <1>7, <2>2 DEF Read
<1>8. CASE Close(t)
    <2>1. Typed' /\ Around' = Around
        BY <1>1, <1>2, <1>3, <1>8, EntersTyped DEF Close, TypeOK
    <2>2. QED
        BY <1>5, <1>8, <2>1 DEF Close
<1>9. CASE Clear(t)
    <2>1. /\ pending' \in Seq(1..MaxFrames) /\ Len(pending') = 0 /\ ToSet(pending') = {}
          /\ chunkIndex' = 0 /\ 0 \in Indices /\ era' = era + 1 /\ accepted' = accepted
        BY <1>9, EmptyList, RollingDiskAssumption DEF Clear, Indices
    <2>2. lost' \subseteq 1..accepted'
        BY <1>1, <1>9, FramesWereAccepted DEF Clear, TypeOK, DiskInv
    <2>3. era \in Nat /\ era' \in 0..MaxClears
        BY <1>1, <1>9, RollingDiskAssumption DEF Clear, TypeOK
    <2>4. Typed' /\ Around' = Around
        BY <1>1, <1>2, <1>3, <1>9, <2>1, <2>2, <2>3, EntersTyped DEF Clear, TypeOK
    <2>5. \A c \in Around : c.era \in Nat
        BY AroundAreChunks DEF DiskInv, Chunks
    <2>6. accepted \in Nat
        BY <1>1 DEF TypeOK
    <2>7. BoundInv'
        BY <2>1, <2>3, <2>4, <2>5, <2>6 DEF BoundInv, DiskInv
    <2>8. \A c \in Around : c.era # era'
        BY <2>1, <2>3, <2>5 DEF BoundInv, DiskInv
    <2>9. OrderInv'
        BY <2>4, <2>8 DEF OrderInv, InOrder, DiskInv
    <2>10. QED
        BY <2>4, <2>7, <2>9 DEF DiskInv
<1>10. QED
    BY <1>4, <1>6, <1>7, <1>8, <1>9

\* The first section of flush() builds the youngest chunk of the numbering.
LEMMA DetachedIsYoungest ==
    ASSUME DiskInv, NEW t \in Threads, Detach(t)
    PROVE  DiskInv'
<1> USE DEF process, files, fifo, history
<1> DEFINE new == [index |-> chunkIndex, era |-> era, frames |-> pending]
<1>1. TypeOK /\ BoundInv /\ OrderInv
    BY DEF DiskInv, Typed
<1>2. t \in Writers /\ t # Worker /\ "build" \in Places
    BY RollingDiskAssumption DEF Writers, Threads, Places
<1>3. /\ pc' \in [Writers -> Places] /\ call' \in [Threads -> Calls]
      /\ pc'[t] = "build" /\ \A v \in Writers : v # t => pc'[v] = pc[v]
    BY <1>2, GotoLeaves DEF Detach, DiskInv
<1>4. /\ new \in Chunks /\ new # NoChunk /\ new # Sentinel /\ Frames(new) = ToSet(pending)
      /\ new.index = chunkIndex /\ new.era = era
    BY <1>1, NoneIsNoChunk DEF TypeOK, Chunks, Frames
<1>5. /\ batch' = [batch EXCEPT ![t] = new]
      /\ UNCHANGED <<closed, available, approx, disk, tmp, queue, unfinished, total,
                     accepted, lost, era, restarts>>
    BY DEF Detach
<1>6. /\ Len(pending) \in Nat \ {0} /\ pending \in Seq(1..MaxFrames)
      /\ pending' = <<>> /\ Len(pending') = 0 /\ ToSet(pending') = {}
      /\ chunkIndex \in Nat /\ chunkIndex' = chunkIndex + 1
    BY <1>1, EmptyList DEF Detach, TypeOK, Indices
<1>7. chunkIndex' <= accepted /\ accepted \in 0..MaxFrames /\ MaxFrames \in Nat
    BY <1>1, <1>6, RollingDiskAssumption DEF BoundInv, TypeOK
<1>8. TypeOK'
    <2>1. chunkIndex' \in Indices
        BY <1>6, <1>7 DEF Indices
    <2>2. pending' \in Seq(1..MaxFrames)
        BY <1>6, EmptyList
    <2>3. batch' \in [Writers -> Chunks \cup {NoChunk}]
        BY <1>1, <1>4, <1>5 DEF TypeOK
    <2>4. QED
        BY <1>1, <1>3, <1>5, <2>1, <2>2, <2>3 DEF TypeOK
<1>9. TaskInv'
    <2>1. pc'[Worker] = pc[Worker]
        BY <1>2, <1>3 DEF Writers
    <2>2. QED
        BY <1>5, <2>1 DEF DiskInv, Typed, TaskInv
<1>10. ChunkInv'
    BY <1>1, <1>3, <1>4, <1>5 DEF DiskInv, Typed, ChunkInv, Unstored, TypeOK
<1>11. Around' \subseteq Around \cup {new}
    BY <1>1, <1>5 DEF Around, TypeOK
<1>12. \A c \in Around : c.index \in Nat /\ Frames(c) \subseteq 1..accepted
    BY FramesWereAccepted, AroundAreChunks DEF DiskInv, Chunks, Indices
<1>13. BoundInv'
    <2>1. new.index < accepted /\ new.era <= era /\ \A f \in Frames(new) : f <= accepted
        BY <1>1, <1>4, <1>6, <1>7, RollingDiskAssumption DEF BoundInv, TypeOK
    <2>2. QED
        BY <1>1, <1>5, <1>6, <1>7, <1>11, <2>1 DEF BoundInv
<1>14. \A c, d \in Around' : InOrder(c, d)
    <2> SUFFICES ASSUME NEW c \in Around', NEW d \in Around' PROVE InOrder(c, d)
        OBVIOUS
    <2>1. CASE c \in Around /\ d \in Around
        BY <1>1, <2>1 DEF OrderInv
    <2>2. CASE c = new /\ d = new
        BY <2>2 DEF InOrder
    <2>3. CASE c \in Around /\ d = new
        <3>1. c.era = era => c.index < chunkIndex
                    /\ \A f \in Frames(c), g \in ToSet(pending) : f < g
            BY <1>1, <2>3 DEF OrderInv
        <3>2. QED
            BY <1>4, <1>6, <1>12, <2>3, <3>1 DEF InOrder
    <2>4. CASE c = new /\ d \in Around
        <3>1. d.era = era => d.index < chunkIndex
            BY <1>1, <2>4 DEF OrderInv
        <3>2. QED
            BY <1>4, <1>6, <1>12, <2>4, <3>1 DEF InOrder
    <2>5. QED
        BY <1>11, <2>1, <2>2, <2>3, <2>4
<1>15. \A c \in Around' : c.era = era => c.index < chunkIndex'
    BY <1>1, <1>4, <1>6, <1>11, <1>12 DEF OrderInv
<1>16. OrderInv'
    BY <1>5, <1>6, <1>14, <1>15 DEF OrderInv, InOrder
<1>17. QED
    BY <1>8, <1>9, <1>10, <1>13, <1>16 DEF DiskInv, Typed

\* A step that puts something into the queue, or takes something out, moves
\* chunks that are around already.
LEMMA QueueStep ==
    ASSUME DiskInv, NEW w \in Writers, NEW at \in Places, Goto(w, at),
           queue' \in Seq(Chunks \cup {Sentinel}), Len(queue') <= QueueSize,
           ToSet(queue') \subseteq ToSet(queue) \cup {Sentinel, batch[w]},
           unfinished' \in Nat, TaskInv',
           at \notin {"build", "rename"},
           batch' \in [Writers -> Chunks \cup {NoChunk}],
           \A v \in Writers : v # w => batch'[v] = batch[v],
           batch'[w] \in {batch[w], NoChunk} \cup (ToSet(queue) \ {Sentinel}),
           at = "write" => batch'[w] \in Chunks,
           UNCHANGED <<process, files, total, history>>
    PROVE  DiskInv'
<1> USE DEF process, files, history
<1>1. /\ pc' \in [Writers -> Places] /\ call' \in [Threads -> Calls]
      /\ pc'[w] = at /\ \A v \in Writers : v # w => pc'[v] = pc[v]
    BY GotoLeaves DEF DiskInv
<1>2. TypeOK'
    BY <1>1 DEF DiskInv, Typed, TypeOK
<1>3. ChunkInv'
    BY <1>1 DEF DiskInv, Typed, ChunkInv, Unstored
<1>4. Around' \subseteq Around
    <2> SUFFICES ASSUME NEW c, c \in Around' PROVE c \in Around
        OBVIOUS
    <2>1. \/ c \in disk
          \/ /\ c # NoChunk /\ c # Sentinel
             /\ (\E v \in Writers : batch'[v] = c) \/ c \in ToSet(queue')
        BY DEF Around
    <2>2. QED
        BY <2>1, AroundIs
<1>5. BoundInv' /\ OrderInv'
    BY <1>4, NothingNew DEF DiskInv
<1>6. QED
    BY <1>2, <1>3, <1>5 DEF DiskInv, Typed

LEMMA PutKeeps ==
    ASSUME DiskInv, NEW t \in Threads, Put(t) \/ PutSentinel(t)
    PROVE  DiskInv'
<1> USE DEF fifo
<1>1. TypeOK /\ TaskInv
    BY DEF DiskInv, Typed
<1>2. t \in Writers /\ t # Worker /\ {"drain", "idle", "join"} \subseteq Places
    BY RollingDiskAssumption DEF Writers, Threads, Places
<1>3. queue \in Seq(Chunks \cup {Sentinel})
    BY <1>1 DEF TypeOK
<1>4. ASSUME NEW e \in Chunks \cup {Sentinel}, queue' = Append(queue, e),
             Len(queue) < QueueSize, unfinished' = unfinished + 1,
             pc'[Worker] = pc[Worker]
      PROVE  /\ queue' \in Seq(Chunks \cup {Sentinel}) /\ Len(queue') <= QueueSize
             /\ ToSet(queue') = ToSet(queue) \cup {e}
             /\ unfinished' \in Nat /\ TaskInv'
    <2>1. /\ queue' \in Seq(Chunks \cup {Sentinel}) /\ Len(queue') = Len(queue) + 1
          /\ Len(queue) \in Nat
        BY <1>3, <1>4, Appended
    <2>2. ToSet(queue') = ToSet(queue) \cup {e}
        BY <1>3, <1>4, AppendedSet
    <2>3. TaskInv' /\ unfinished' \in Nat
        BY <1>1, <1>4, <2>1 DEF TaskInv, TypeOK
    <2>4. QED
        BY <1>4, <2>1, <2>2, <2>3, RollingDiskAssumption
<1>5. CASE Put(t)
    <2>1. batch[t] \in Chunks
        BY <1>2, <1>5 DEF Put, DiskInv, Typed, ChunkInv, Unstored
    <2>2. PICK at \in {"drain", After(t)} : /\ Goto(t, at)
                                            /\ at \notin {"build", "write", "rename"}
        BY <1>5, AfterIs DEF Put
    <2>3. at \in Places
        BY <1>2, <2>2, AfterIsPlace
    <2>4. pc'[Worker] = pc[Worker]
        BY <1>2, <2>2, <2>3, GotoLeaves DEF DiskInv, Writers
    <2>5. /\ queue' \in Seq(Chunks \cup {Sentinel}) /\ Len(queue') <= QueueSize
          /\ ToSet(queue') = ToSet(queue) \cup {batch[t]}
          /\ unfinished' \in Nat /\ TaskInv'
        BY <1>4, <1>5, <2>1, <2>4 DEF Put
    <2>6. /\ batch' \in [Writers -> Chunks \cup {NoChunk}]
          /\ \A v \in Writers : v # t => batch'[v] = batch[v]
          /\ batch'[t] \in {batch[t], NoChunk}
        BY <1>1, <1>2, <1>5 DEF Put, TypeOK
    <2>7. QED
        BY <1>2, <1>5, <2>2, <2>3, <2>5, <2>6, QueueStep DEF Put
<1>6. CASE PutSentinel(t)
    <2>1. Goto(t, "join") /\ UNCHANGED <<process, files, batch, total, history>>
        BY <1>6 DEF PutSentinel
    <2>2. pc'[Worker] = pc[Worker]
        BY <1>2, <2>1, GotoLeaves DEF DiskInv, Writers
    <2>3. /\ queue' \in Seq(Chunks \cup {Sentinel}) /\ Len(queue') <= QueueSize
          /\ ToSet(queue') \subseteq ToSet(queue) \cup {Sentinel}
          /\ unfinished' \in Nat /\ TaskInv'
        <3>1. CASE /\ Len(queue) < QueueSize
                   /\ queue' = Append(queue, Sentinel) /\ unfinished' = unfinished + 1
            BY <1>4, <2>2, <3>1
        <3>2. CASE UNCHANGED fifo
            BY <1>1, <2>2, <3>2 DEF TypeOK, TaskInv
        <3>3. QED
            BY <1>6, <3>1, <3>2 DEF PutSentinel
    <2>4. /\ batch' \in [Writers -> Chunks \cup {NoChunk}]
          /\ \A v \in Writers : batch'[v] = batch[v]
        BY <1>1, <2>1 DEF TypeOK
    <2>5. QED
        BY <1>2, <2>1, <2>3, <2>4, QueueStep
<1>7. QED
    BY <1>5, <1>6

\* The worker takes the oldest entry out of the queue.
LEMMA TakeKeeps ==
    ASSUME DiskInv, Take \/ TakeSentinel
    PROVE  DiskInv'
<1> USE DEF fifo
<1>1. TypeOK /\ TaskInv
    BY DEF DiskInv, Typed
<1>2. Worker \in Writers /\ {"write", "done"} \subseteq Places
    BY DEF Writers, Places
<1>3. queue \in Seq(Chunks \cup {Sentinel}) /\ queue # <<>> /\ queue' = Tail(queue)
    BY <1>1 DEF Take, TakeSentinel, TypeOK
<1>4. /\ queue' \in Seq(Chunks \cup {Sentinel}) /\ ToSet(queue') \subseteq ToSet(queue)
      /\ Len(queue) \in Nat \ {0} /\ Len(queue') = Len(queue) - 1
      /\ Head(queue) \in Chunks \cup {Sentinel} /\ Head(queue) \in ToSet(queue)
    BY <1>3, TailOf
<1>5. Len(queue') <= QueueSize
    BY <1>1, <1>4, RollingDiskAssumption DEF TypeOK
<1>6. CASE Take
    <2>1. /\ Goto(Worker, "write") /\ UNCHANGED <<process, files, total, history>>
          /\ Head(queue) \in Chunks
        BY <1>4, <1>6 DEF Take
    <2>2. pc'[Worker] = "write" /\ pc[Worker] = "get"
        BY <1>2, <1>6, <2>1, GotoLeaves DEF Take, DiskInv
    <2>3. unfinished' \in Nat /\ TaskInv'
        BY <1>1, <1>4, <1>6, <2>2 DEF Take, TaskInv, Busy, TypeOK
    <2>4. /\ batch' \in [Writers -> Chunks \cup {NoChunk}]
          /\ \A v \in Writers : v # Worker => batch'[v] = batch[v]
          /\ batch'[Worker] = Head(queue)
        BY <1>1, <1>2, <1>6, <2>1 DEF Take, TypeOK
    <2>5. Head(queue) \in ToSet(queue) \ {Sentinel}
        BY <1>4, <1>6 DEF Take
    <2>6. QED
        BY <1>2, <1>4, <1>5, <2>1, <2>3, <2>4, <2>5, QueueStep
<1>7. CASE TakeSentinel
    <2>1. /\ Goto(Worker, "done") /\ UNCHANGED <<process, files, batch, total, history>>
        BY <1>7 DEF TakeSentinel
    <2>2. pc'[Worker] = "done" /\ pc[Worker] = "get"
        BY <1>2, <1>7, <2>1, GotoLeaves DEF TakeSentinel, DiskInv
    <2>3. unfinished' \in Nat /\ TaskInv'
        BY <1>1, <1>4, <1>7, <2>2 DEF TakeSentinel, TaskInv, Busy, TypeOK
    <2>4. /\ batch' \in [Writers -> Chunks \cup {NoChunk}]
          /\ \A v \in Writers : batch'[v] = batch[v]
        BY <1>1, <2>1 DEF TypeOK
    <2>5. QED
        BY <1>2, <1>4, <1>5, <2>1, <2>3, <2>4, QueueStep
<1>8. QED
    BY <1>6, <1>7

LEMMA WorkerKeeps ==
    ASSUME DiskInv, WorkerStep
    PROVE  DiskInv'
<1> USE DEF process, files, fifo, history
<1>1. TypeOK
    BY DEF DiskInv, Typed
<1>2. Worker \in Writers /\ {"get", "empty", "done"} \subseteq Places
    BY DEF Writers, Places
<1>3. CASE Take \/ TakeSentinel
    BY <1>3, TakeKeeps
<1>4. CASE TakeNothing
    <2>1. Onward(Worker, "empty")
        BY <1>1, <1>4, WorkerCounts DEF TakeNothing, Onward, TypeOK
    <2>2. QED
        BY <1>2, <2>1, OnwardKeeps
<1>5. CASE LookClosed
    <2>1. PICK at \in {"done", "get"} : Goto(Worker, at)
        BY <1>5 DEF LookClosed
    <2>2. Onward(Worker, at)
        BY <1>1, <1>5, <2>1, WorkerCounts DEF LookClosed, Onward, TypeOK
    <2>3. at \in Places
        BY <1>2, <2>1
    <2>4. QED
        BY <1>2, <2>2, <2>3, OnwardKeeps
<1>6. CASE WriterStep(Worker)
    BY <1>2, <1>6, WriterKeeps
<1>7. QED
    BY <1>3, <1>4, <1>5, <1>6 DEF WorkerStep

\* The index after a restart is greater than that of every chunk left.
LEMMA NextIndexIsNew ==
    ASSUME NEW n \in Nat, NEW fs, \A c \in fs : c.index \in Nat /\ c.index < n
    PROVE  /\ NextChunkIndex(fs) \in 0..n
           /\ \A c \in fs : c.index < NextChunkIndex(fs)
<1> DEFINE S == {c.index : c \in fs}
<1>1. CASE fs = {}
    BY <1>1 DEF NextChunkIndex
<1>2. CASE fs # {}
    <2>1. S \in SUBSET (0..n) /\ S # {}
        BY <1>2
    <2>2. Max(S) \in S /\ \A y \in S : Max(S) >= y
        BY <2>1, MaxOf
    <2>3. NextChunkIndex(fs) = Max(S) + 1
        BY <1>2 DEF NextChunkIndex
    <2>4. Max(S) \in Nat /\ Max(S) < n
        BY <2>2
    <2>5. \A c \in fs : Max(S) >= c.index
        BY <2>2
    <2>6. QED
        BY <2>3, <2>4, <2>5
<1>3. QED
    BY <1>1, <1>2

\* After a restart there is nothing but what the directory has kept.
LEMMA RestartKeeps ==
    ASSUME DiskInv, Restart
    PROVE  DiskInv'
<1>1. TypeOK /\ BoundInv /\ OrderInv
    BY DEF DiskInv, Typed
<1>2. PICK kept \in SUBSET disk :
        /\ disk' = kept /\ chunkIndex' = NextChunkIndex(kept)
        /\ lost' = (1..accepted) \ UNION {Frames(c) : c \in kept}
    BY DEF Restart
<1>3. kept \subseteq Around /\ kept \subseteq Chunks /\ IsFiniteSet(kept)
    BY <1>1, FS_Subset DEF Around, TypeOK
<1>4. accepted \in Nat /\ accepted <= MaxFrames /\ MaxFrames \in Nat
    BY <1>1, RollingDiskAssumption DEF TypeOK
<1>5. \A c \in kept : c.index \in Nat /\ c.index < accepted
    BY <1>1, <1>3 DEF BoundInv, Chunks, Indices
<1>6. chunkIndex' \in 0..accepted /\ \A c \in kept : c.index < chunkIndex'
    BY <1>2, <1>4, <1>5, NextIndexIsNew
<1>7. /\ pending' = <<>> /\ queue' = <<>> /\ Len(pending') = 0 /\ Len(queue') = 0
      /\ ToSet(pending') = {} /\ ToSet(queue') = {}
      /\ pending' \in Seq(1..MaxFrames) /\ queue' \in Seq(Chunks \cup {Sentinel})
    BY EmptyList DEF Restart
<1>8. /\ pc' = [w \in Writers |-> IF w = Worker THEN "get" ELSE "idle"]
      /\ call' = [t \in Threads |-> "none"]
      /\ batch' = [w \in Writers |-> NoChunk] /\ total' = [w \in Writers |-> 0]
      /\ closed' = FALSE /\ available' = TRUE /\ approx' = 0 /\ unfinished' = 0 /\ tmp' = {}
      /\ restarts < MaxRestarts /\ restarts' = restarts + 1
      /\ UNCHANGED <<accepted, era>>
    BY DEF Restart
<1>9. TypeOK'
    <2>1. chunkIndex' \in Indices
        BY <1>4, <1>6 DEF Indices
    <2>2. restarts' \in 0..MaxRestarts
        BY <1>1, <1>8, RollingDiskAssumption DEF TypeOK
    <2>3. pc' \in [Writers -> Places] /\ call' \in [Threads -> Calls]
        BY <1>8 DEF Places, Calls
    <2>4. lost' \subseteq 1..accepted'
        BY <1>2, <1>8
    <2>5. batch' \in [Writers -> Chunks \cup {NoChunk}] /\ total' \in [Writers -> Nat]
        BY <1>8
    <2>6. /\ disk' \subseteq Chunks /\ IsFiniteSet(disk') /\ tmp' \subseteq Writers
          /\ accepted' \in 0..MaxFrames /\ era' \in 0..MaxClears
        BY <1>1, <1>2, <1>3, <1>8 DEF TypeOK
    <2>7. Len(queue') <= QueueSize /\ approx' \in Nat /\ unfinished' \in Nat
        BY <1>7, <1>8, RollingDiskAssumption
    <2>8. QED
        BY <1>7, <1>8, <2>1, <2>2, <2>3, <2>4, <2>5, <2>6, <2>7 DEF TypeOK
<1>10. TaskInv'
    <2>1. pc'[Worker] = "get"
        BY <1>8 DEF Writers
    <2>2. QED
        BY <1>7, <1>8, <2>1 DEF TaskInv, Busy
<1>11. ChunkInv'
    BY <1>8 DEF ChunkInv, Unstored
<1>12. Around' = kept
    BY <1>2, <1>7, <1>8 DEF Around
<1>13. BoundInv'
    <2>1. chunkIndex' + Len(pending') <= accepted'
        <3>1. Len(pending') = 0 /\ accepted' = accepted
            BY <1>7, <1>8
        <3>2. chunkIndex' \in Nat /\ chunkIndex' <= accepted
            BY <1>4, <1>6
        <3>3. ASSUME NEW n \in Nat, NEW m \in Nat, n <= m PROVE n + 0 <= m
            BY <3>3
        <3>4. QED
            BY <1>4, <3>1, <3>2, <3>3
    <2>2. \A c \in kept : /\ c.index < accepted /\ c.era <= era
                          /\ \A f \in Frames(c) : f <= accepted
        BY <1>1, <1>3 DEF BoundInv
    <2>3. QED
        BY <1>7, <1>8, <1>12, <2>1, <2>2 DEF BoundInv
<1>14. OrderInv'
    BY <1>1, <1>3, <1>6, <1>7, <1>12 DEF OrderInv, InOrder
<1>15. QED
    BY <1>9, <1>10, <1>11, <1>13, <1>14 DEF DiskInv, Typed

LEMMA DiskInitial == Init => DiskInv
<1> SUFFICES ASSUME Init PROVE DiskInv
    OBVIOUS
<1>1. /\ pending = <<>> /\ queue = <<>> /\ Len(pending) = 0 /\ Len(queue) = 0
      /\ ToSet(pending) = {} /\ ToSet(queue) = {}
      /\ pending \in Seq(1..MaxFrames) /\ queue \in Seq(Chunks \cup {Sentinel})
    BY EmptyList DEF Init
<1>2. IsFiniteSet(disk) /\ disk = {}
    BY FS_EmptySet DEF Init
<1>3. TypeOK
    <2>1. pc \in [Writers -> Places] /\ call \in [Threads -> Calls]
        BY DEF Init, Places, Calls
    <2>2. batch \in [Writers -> Chunks \cup {NoChunk}] /\ total \in [Writers -> Nat]
        BY DEF Init
    <2>3. /\ chunkIndex \in Indices /\ accepted \in 0..MaxFrames /\ era \in 0..MaxClears
          /\ restarts \in 0..MaxRestarts /\ Len(queue) <= QueueSize /\ lost \subseteq 1..accepted
        BY <1>1, RollingDiskAssumption DEF Init, Indices
    <2>4. /\ closed \in BOOLEAN /\ available \in BOOLEAN /\ approx \in Nat /\ unfinished \in Nat
          /\ disk \subseteq Chunks /\ tmp \subseteq Writers
        BY DEF Init
    <2>5. QED
        BY <1>1, <1>2, <2>1, <2>2, <2>3, <2>4 DEF TypeOK
<1>4. pc[Worker] = "get"
    BY DEF Init, Writers
<1>5. TaskInv
    BY <1>1, <1>4 DEF Init, TaskInv, Busy
<1>6. ChunkInv
    BY DEF Init, ChunkInv, Unstored
<1>7. Around = {}
    BY <1>1 DEF Init, Around
<1>8. BoundInv /\ OrderInv
    BY <1>1, <1>7 DEF Init, BoundInv, OrderInv
<1>9. QED
    BY <1>3, <1>5, <1>6, <1>8 DEF DiskInv, Typed

LEMMA DiskStep == DiskInv /\ [Next]_vars => DiskInv'
<1> SUFFICES ASSUME DiskInv, [Next]_vars PROVE DiskInv'
    OBVIOUS
<1>1. CASE WorkerStep
    BY <1>1, WorkerKeeps
<1>2. ASSUME NEW t \in Appenders, AppendFrame(t) PROVE DiskInv'
    BY <1>2, EntersKeep DEF Threads
<1>3. ASSUME NEW t \in Threads, FlushStep(t) PROVE DiskInv'
    <2>1. t \in Writers
        BY DEF Writers
    <2>2. CASE Detach(t)
        BY <2>2, DetachedIsYoungest
    <2>3. CASE Put(t)
        BY <2>3, PutKeeps
    <2>4. CASE WriterStep(t)
        BY <2>1, <2>4, WriterKeeps
    <2>5. QED
        BY <1>3, <2>2, <2>3, <2>4, FlushKeeps DEF FlushStep
<1>4. ASSUME NEW t \in Owners, Flush(t) \/ Read(t) \/ Close(t) \/ Clear(t) PROVE DiskInv'
    BY <1>4, EntersKeep DEF Threads
<1>5. ASSUME NEW t \in Owners, PutSentinel(t) PROVE DiskInv'
    BY <1>5, PutKeeps DEF Threads
<1>6. ASSUME NEW t \in Owners,
             \/ Settle(t) \/ Scan(t) \/ ScanKeyFails(t) \/ Join(t)
             \/ ClearChunks(t) \/ ClearTmp(t)
      PROVE  DiskInv'
    BY <1>6, OwnerKeeps DEF Threads
<1>7. CASE Restart
    BY <1>7, RestartKeeps
<1>8. CASE UNCHANGED vars
    <2>1. UNCHANGED <<closed, available, pending, chunkIndex, approx, disk, tmp, queue,
                      unfinished, pc, call, batch, total, accepted, lost, era, restarts>>
        BY <1>8 DEF vars, process, files, fifo, locals, history
    <2>2. Around' = Around
        BY <2>1 DEF Around
    <2>3. Typed'
        BY <2>1 DEF DiskInv, Typed, TypeOK, TaskInv, ChunkInv, Unstored
    <2>4. BoundInv' /\ OrderInv'
        BY <2>1, <2>2, NothingNew DEF DiskInv
    <2>5. QED
        BY <2>3, <2>4 DEF DiskInv
<1>9. QED
    BY <1>1, <1>2, <1>3, <1>4, <1>5, <1>6, <1>7, <1>8 DEF Next

\* Every variable of the recorder keeps its type: in particular the queue never
\* holds more than its bound, its count of unfinished tasks never goes below
\* zero, and the chunk index stays below the number of frames accepted.
THEOREM TypeCorrect == Spec => []TypeOK
<1>1. DiskInv => TypeOK
    BY DEF DiskInv, Typed
<1>2. QED
    BY <1>1, DiskInitial, DiskStep, PTL DEF Spec

\* However flushes, the worker, synchronous writes, retention, clear() and
\* restarts interleave, the order of the file names is the order of the frames,
\* which read_all_stored_frames() relies on: an index is given out in the lock
\* section that takes the frames, and a restart goes on above the highest one.
THEOREM FilesAreOrdered == Spec => []StoredInOrder
<1>1. DiskInv => StoredInOrder
    BY DEF DiskInv, OrderInv, InOrder, StoredInOrder, Around
<1>2. QED
    BY <1>1, DiskInitial, DiskStep, PTL DEF Spec
-----------------------------------------------------------------------------
(* What is handed to the worker arrives *)

KeptInv == HolderInv /\ DrainInv /\ StoredInv

\* A step in which no frame is lost sight of between the queue and the disk.
Passes ==
    /\ lost \subseteq lost'
    /\ \A c \in disk : c \in disk' \/ Frames(c) \subseteq lost'
    /\ \A c \in ToSet(queue) \ {Sentinel} :
        c \in ToSet(queue') \/ (Unstored(Worker)' /\ batch'[Worker] = c)
    /\ Unstored(Worker) =>
        \/ Held(Worker) \subseteq lost'
        \/ batch[Worker] \in disk'
        \/ Unstored(Worker)' /\ batch'[Worker] = batch[Worker]

\* In terms of the entries of the queue.
LEMMA QueuedIs ==
    ASSUME NEW f
    PROVE  (\E i \in DOMAIN queue : QueuedAt(i, f))
                <=> (\E c \in ToSet(queue) : c # Sentinel /\ f \in Frames(c))
BY DEF QueuedAt, ToSet

LEMMA QueuedIsNext ==
    ASSUME NEW f
    PROVE  (\E c \in ToSet(queue') : c # Sentinel /\ f \in Frames(c))
                => UnderWay(f)'
BY DEF QueuedAt, ToSet, UnderWay

LEMMA PassesOn ==
    ASSUME DiskInv, Passes, NEW f, UnderWay(f)
    PROVE  UnderWay(f)'
<1>1. CASE f \in lost
    BY <1>1 DEF Passes, UnderWay
<1>2. CASE \E c \in disk : f \in Frames(c)
    BY <1>2 DEF Passes, UnderWay
<1>3. CASE \E i \in DOMAIN queue : QueuedAt(i, f)
    <2>1. PICK c \in ToSet(queue) : c # Sentinel /\ f \in Frames(c)
        BY <1>3, QueuedIs
    <2>2. CASE c \in ToSet(queue')
        BY <2>1, <2>2, QueuedIsNext
    <2>3. CASE Unstored(Worker)' /\ batch'[Worker] = c
        <3>1. c # NoChunk
            BY <2>1, NoneIsNoChunk, ListEntries DEF DiskInv, Typed, TypeOK
        <3>2. QED
            BY <2>1, <2>3, <3>1 DEF UnderWay, Held
    <2>4. QED
        BY <2>1, <2>2, <2>3 DEF Passes
<1>4. CASE Unstored(Worker) /\ f \in Held(Worker)
    <2>1. batch[Worker] # NoChunk /\ f \in Frames(batch[Worker])
        BY <1>4 DEF Held
    <2>2. CASE Held(Worker) \subseteq lost'
        BY <1>4, <2>2 DEF UnderWay
    <2>3. CASE batch[Worker] \in disk'
        BY <2>1, <2>3 DEF UnderWay
    <2>4. CASE Unstored(Worker)' /\ batch'[Worker] = batch[Worker]
        BY <2>1, <2>4 DEF UnderWay, Held
    <2>5. QED
        BY <1>4, <2>2, <2>3, <2>4 DEF Passes
<1>5. QED
    BY <1>1, <1>2, <1>3, <1>4 DEF UnderWay

\* A step of one writer that loses sight of nothing, and leaves that writer as
\* the invariants want it.
LEMMA KeptBy ==
    ASSUME DiskInv, KeptInv, Passes, NEW w \in Writers,
           \A v \in Writers : v # w => pc'[v] = pc[v] /\ batch'[v] = batch[v],
           batch'[w] # NoChunk => pc'[w] \in Busy \cup {"build", "drain"},
           pc'[w] = "drain" => \A f \in Held(w)' : UnderWay(f)',
           pc'[w] \in {"count", "retain"} =>
                batch'[w] \in disk' \/ Held(w)' \subseteq lost'
    PROVE  KeptInv'
<1>1. HolderInv'
    BY DEF KeptInv, HolderInv
<1>2. DrainInv'
    <2> SUFFICES ASSUME NEW t \in Threads, pc'[t] = "drain", NEW f \in Held(t)'
                 PROVE  UnderWay(f)'
        BY DEF DrainInv
    <2>1. CASE t = w
        BY <2>1
    <2>2. CASE t # w
        <3>1. pc[t] = "drain" /\ f \in Held(t)
            BY <2>2 DEF Held, Writers
        <3>2. UnderWay(f)
            BY <3>1 DEF KeptInv, DrainInv
        <3>3. QED
            BY <3>2, PassesOn
    <2>3. QED
        BY <2>1, <2>2
<1>3. StoredInv'
    <2> SUFFICES ASSUME NEW v \in Writers, pc'[v] \in {"count", "retain"}
                 PROVE  Held(v)' \subseteq lost' \/ batch'[v] \in disk'
        BY DEF StoredInv
    <2>1. CASE v = w
        BY <2>1
    <2>2. CASE v # w
        <3>1. pc[v] \in {"count", "retain"} /\ Held(v)' = Held(v) /\ batch'[v] = batch[v]
            BY <2>2 DEF Held
        <3>2. CASE Held(v) \subseteq lost
            BY <3>1, <3>2 DEF Passes
        <3>3. CASE batch[v] \in disk
            <4>1. batch[v] # NoChunk /\ Held(v) = Frames(batch[v])
                BY <3>3, NoneIsNoChunk DEF DiskInv, Typed, TypeOK, Held
            <4>2. QED
                BY <3>1, <3>3, <4>1 DEF Passes
        <3>4. QED
            BY <3>1, <3>2, <3>3 DEF KeptInv, StoredInv
    <2>3. QED
        BY <2>1, <2>2
<1>4. QED
    BY <1>1, <1>2, <1>3 DEF KeptInv

\* A step of a thread leaves the worker and what it has alone.
LEMMA ThreadKept ==
    ASSUME DiskInv, KeptInv, NEW t \in Threads,
           \A v \in Writers : v # t => pc'[v] = pc[v] /\ batch'[v] = batch[v],
           lost \subseteq lost',
           \A c \in disk : c \in disk' \/ Frames(c) \subseteq lost',
           ToSet(queue) \ {Sentinel} \subseteq ToSet(queue'),
           batch'[t] # NoChunk => pc'[t] \in Busy \cup {"build", "drain"},
           pc'[t] = "drain" => \A f \in Held(t)' : UnderWay(f)',
           pc'[t] \in {"count", "retain"} =>
                batch'[t] \in disk' \/ Held(t)' \subseteq lost'
    PROVE  KeptInv'
<1>1. t \in Writers /\ Worker \in Writers /\ t # Worker
    BY RollingDiskAssumption DEF Writers, Threads
<1>2. pc'[Worker] = pc[Worker] /\ batch'[Worker] = batch[Worker]
    BY <1>1
<1>3. Passes
    BY <1>2 DEF Passes, Unstored
<1>4. QED
    BY <1>1, <1>3, KeptBy

\* What a removal of chunks takes from the disk it announces.
LEMMA UnlinkAnnounces ==
    ASSUME NEW gone, Unlink(gone)
    PROVE  /\ lost \subseteq lost'
           /\ \A c \in disk : c \in disk' \/ Frames(c) \subseteq lost'
BY DEF Unlink

\* A thread that goes on without a chunk.
LEMMA LetsGo ==
    ASSUME DiskInv, KeptInv, NEW t \in Threads, NEW at \in Places, Goto(t, at),
           batch' = [batch EXCEPT ![t] = NoChunk], UNCHANGED queue,
           lost \subseteq lost',
           \A c \in disk : c \in disk' \/ Frames(c) \subseteq lost'
    PROVE  KeptInv'
<1>1. t \in Writers /\ batch \in [Writers -> Chunks \cup {NoChunk}]
    BY DEF Writers, DiskInv, Typed, TypeOK
<1>2. \A v \in Writers : v # t => pc'[v] = pc[v] /\ batch'[v] = batch[v]
    BY <1>1, GotoLeaves DEF DiskInv
<1>3. batch'[t] = NoChunk /\ Held(t)' = {}
    BY <1>1 DEF Held
<1>4. QED
    BY <1>2, <1>3, ThreadKept

\* Who is not at work on a chunk has none.
LEMMA Idle ==
    ASSUME DiskInv, KeptInv, NEW t \in Threads,
           pc[t] \notin Busy \cup {"build", "drain"}
    PROVE  batch = [batch EXCEPT ![t] = NoChunk]
<1>1. t \in Writers /\ batch \in [Writers -> Chunks \cup {NoChunk}]
    BY DEF Writers, DiskInv, Typed, TypeOK
<1>2. batch[t] = NoChunk
    BY <1>1 DEF KeptInv, HolderInv
<1>3. QED
    BY <1>1, <1>2

\* The steps of _write_chunk and of the sweep, in a caller.
LEMMA CallerWriteKept ==
    ASSUME DiskInv, KeptInv, NEW t \in Threads, WriterStep(t)
    PROVE  KeptInv'
<1> USE DEF process, files, fifo, history
<1>1. t \in Writers /\ t # Worker /\ batch \in [Writers -> Chunks \cup {NoChunk}]
    BY RollingDiskAssumption DEF Writers, Threads, DiskInv, Typed, TypeOK
<1>2. {"rename", "count", "retain", "resync", "idle"} \subseteq Places
    BY DEF Places
<1>3. ASSUME NEW at \in Places, Goto(t, at), at \in {"rename", "count", "retain", "resync"},
             UNCHANGED <<batch, queue>>, lost \subseteq lost',
             \A c \in disk : c \in disk' \/ Frames(c) \subseteq lost',
             at \in {"count", "retain"} =>
                batch'[t] \in disk' \/ Held(t)' \subseteq lost'
      PROVE  KeptInv'
    <2>1. pc'[t] = at /\ \A v \in Writers : v # t => pc'[v] = pc[v]
        BY <1>1, <1>3, GotoLeaves DEF DiskInv
    <2>2. at \in Busy
        BY <1>3 DEF Busy
    <2>3. QED
        BY <1>3, <2>1, <2>2, ThreadKept
<1>4. CASE WriteTmp(t)
    BY <1>2, <1>3, <1>4 DEF WriteTmp
<1>5. CASE Rename(t)
    BY <1>2, <1>3, <1>5 DEF Rename
<1>6. CASE Count(t)
    <2>1. batch'[t] \in disk' \/ Held(t)' \subseteq lost'
        BY <1>1, <1>6 DEF Count, KeptInv, StoredInv, Held
    <2>2. QED
        BY <1>2, <1>3, <1>6, <2>1 DEF Count
<1>7. CASE WriteFails(t)
    BY <1>1, <1>2, <1>7, LetsGo DEF WriteFails, GiveUp, Broken
<1>8. CASE SweepFails(t)
    BY <1>1, <1>2, <1>8, LetsGo DEF SweepFails, Broken
<1>9. CASE NotDue(t)
    BY <1>1, <1>9, AfterIsPlace, LetsGo DEF NotDue, Finish
<1>10. CASE Sweep(t)
    <2>1. PICK old \in SUBSET disk : Unlink(old \cup OverBudget(disk \ old))
        BY <1>10 DEF Sweep
    <2>2. lost \subseteq lost' /\ \A c \in disk : c \in disk' \/ Frames(c) \subseteq lost'
        BY <2>1, UnlinkAnnounces
    <2>3. Goto(t, "resync") /\ UNCHANGED <<batch, queue>>
        BY <1>10 DEF Sweep
    <2>4. QED
        BY <1>2, <1>3, <2>2, <2>3
<1>11. CASE Resync(t)
    BY <1>1, <1>11, AfterIsPlace, LetsGo DEF Resync, Finish
<1>12. QED
    BY <1>4, <1>5, <1>6, <1>7, <1>8, <1>9, <1>10, <1>11 DEF WriterStep

\* The steps of a thread outside _write_chunk.
LEMMA FlushKept ==
    ASSUME DiskInv, KeptInv, NEW t \in Threads, FlushStep(t)
    PROVE  KeptInv'
<1> USE DEF process, files, fifo, history
<1>1. t \in Writers /\ t # Worker /\ batch \in [Writers -> Chunks \cup {NoChunk}]
    BY RollingDiskAssumption DEF Writers, Threads, DiskInv, Typed, TypeOK
<1>2. {"build", "drain", "write", "idle"} \subseteq Places
    BY DEF Places
<1>3. CASE Detach(t)
    <2>1. pc'[t] = "build" /\ \A v \in Writers : v # t => pc'[v] = pc[v]
        BY <1>1, <1>2, <1>3, GotoLeaves DEF Detach, DiskInv
    <2>2. /\ \A v \in Writers : v # t => batch'[v] = batch[v]
          /\ UNCHANGED <<lost, disk, queue>>
        BY <1>1, <1>3 DEF Detach
    <2>3. QED
        BY <2>1, <2>2, ThreadKept
<1>4. CASE DetachNothing(t)
    <2>1. PICK at \in {"drain", After(t)} : Goto(t, at)
        BY <1>4 DEF DetachNothing
    <2>2. batch = [batch EXCEPT ![t] = NoChunk]
        BY <1>4, Idle DEF DetachNothing, Busy
    <2>3. at \in Places
        BY <1>2, <2>1, AfterIsPlace
    <2>4. QED
        BY <1>4, <2>1, <2>2, <2>3, LetsGo DEF DetachNothing
<1>5. CASE KeyFails(t)
    BY <1>2, <1>5, LetsGo DEF KeyFails, GiveUp
<1>6. CASE SerializeFails(t)
    BY <1>6, AfterIsPlace, LetsGo DEF SerializeFails, GiveUp
<1>7. CASE Put(t)
    <2>1. queue \in Seq(Chunks \cup {Sentinel}) /\ batch[t] \in Chunks
        BY <1>1, <1>7 DEF Put, DiskInv, Typed, TypeOK, ChunkInv, Unstored
    <2>2. ToSet(queue') = ToSet(queue) \cup {batch[t]}
        BY <1>7, <2>1, AppendedSet DEF Put
    <2>3. CASE call[t] = "append"
        <3>1. /\ batch' = [batch EXCEPT ![t] = NoChunk] /\ Goto(t, After(t))
              /\ UNCHANGED <<lost, disk>>
            BY <1>7, <2>3 DEF Put
        <3>2. pc'[t] = After(t) /\ \A v \in Writers : v # t => pc'[v] = pc[v]
            BY <1>1, <3>1, AfterIsPlace, GotoLeaves DEF DiskInv
        <3>3. batch'[t] = NoChunk /\ \A v \in Writers : v # t => batch'[v] = batch[v]
            BY <1>1, <3>1
        <3>4. QED
            BY <2>2, <3>1, <3>2, <3>3, AfterIs, ThreadKept
    <2>4. CASE call[t] # "append"
        <3>1. Goto(t, "drain") /\ UNCHANGED <<batch, lost, disk>>
            BY <1>7, <2>4 DEF Put
        <3>2. pc'[t] = "drain" /\ \A v \in Writers : v # t => pc'[v] = pc[v]
            BY <1>1, <1>2, <3>1, GotoLeaves DEF DiskInv
        <3>3. ASSUME NEW f \in Held(t)' PROVE UnderWay(f)'
            <4>1. batch[t] # Sentinel /\ f \in Frames(batch[t])
                BY <2>1, <3>1, NoneIsNoChunk DEF Held
            <4>2. QED
                BY <2>2, <4>1, QueuedIsNext
        <3>4. QED
            BY <2>2, <3>1, <3>2, <3>3, ThreadKept
    <2>5. QED
        BY <2>3, <2>4
<1>8. CASE PutFull(t)
    <2>1. pc'[t] = "write" /\ \A v \in Writers : v # t => pc'[v] = pc[v]
        BY <1>1, <1>2, <1>8, GotoLeaves DEF PutFull, DiskInv
    <2>2. UNCHANGED <<batch, lost, disk, queue>>
        BY <1>8 DEF PutFull
    <2>3. QED
        BY <2>1, <2>2, ThreadKept DEF Busy
<1>9. CASE Drained(t) \/ DrainTimesOut(t)
    BY <1>9, AfterIsPlace, LetsGo DEF Drained, DrainTimesOut
<1>10. CASE WriterStep(t)
    BY <1>10, CallerWriteKept
<1>11. QED
    BY <1>3, <1>4, <1>5, <1>6, <1>7, <1>8, <1>9, <1>10 DEF FlushStep

\* An entry of a list is its head or in its tail.
LEMMA HeadAndTail ==
    ASSUME NEW S, NEW s \in Seq(S), s # <<>>
    PROVE  \A c \in ToSet(s) : c = Head(s) \/ c \in ToSet(Tail(s))
<1> SUFFICES ASSUME NEW i \in DOMAIN s PROVE s[i] = Head(s) \/ s[i] \in ToSet(Tail(s))
    BY DEF ToSet
<1>1. DOMAIN s = 1..Len(s) /\ DOMAIN Tail(s) = 1..(Len(s) - 1) /\ Len(s) \in Nat /\ Head(s) = s[1]
    BY TailOf
<1>2. CASE i = 1
    BY <1>1, <1>2
<1>3. CASE i # 1
    <2>1. i - 1 \in DOMAIN Tail(s) /\ (i - 1) + 1 = i
        BY <1>1, <1>3
    <2>2. Tail(s)[i - 1] = s[i]
        BY <2>1, TailOf
    <2>3. QED
        BY <2>1, <2>2 DEF ToSet
<1>4. QED
    BY <1>2, <1>3

\* A call that begins has no chunk; nor has a thread that reads, closes or clears.
LEMMA OwnerKept ==
    ASSUME DiskInv, KeptInv, NEW t \in Threads,
           \/ AppendFrame(t) \/ Flush(t) \/ Read(t) \/ Close(t) \/ Clear(t)
           \/ Settle(t) \/ Scan(t) \/ ScanKeyFails(t) \/ PutSentinel(t) \/ Join(t)
           \/ ClearChunks(t) \/ ClearTmp(t)
    PROVE  KeptInv'
<1> USE DEF process, files, fifo, history
<1>1. t \in Writers /\ batch \in [Writers -> Chunks \cup {NoChunk}]
    BY DEF Writers, DiskInv, Typed, TypeOK
<1>2. {"detach", "idle", "scan", "unlink", "untmp", "join"} \subseteq Places
    BY DEF Places
<1>3. CASE AppendFrame(t) \/ Flush(t) \/ Read(t) \/ Close(t) \/ Clear(t)
    <2>1. PICK op \in Calls, at \in {"detach", "idle", "scan", "unlink"} : Enter(t, op, at)
        BY <1>3 DEF AppendFrame, Flush, Read, Close, Clear, Calls
    <2>2. /\ pc'[t] = at /\ pc[t] = "idle"
          /\ \A v \in Writers : v # t => pc'[v] = pc[v]
        BY <1>2, <2>1, EnterLeaves DEF DiskInv
    <2>3. UNCHANGED <<batch, disk, queue>> /\ lost \subseteq lost'
        BY <1>3 DEF AppendFrame, Flush, Read, Close, Clear
    <2>4. batch[t] = NoChunk
        BY <1>1, <2>2 DEF KeptInv, HolderInv, Busy
    <2>5. QED
        BY <2>1, <2>2, <2>3, <2>4, ThreadKept
<1>4. ASSUME pc[t] \in {"settle", "scan", "sentinel", "join", "unlink", "untmp"},
             NEW at \in Places, at \in {"scan", "idle", "join", "untmp"}, Goto(t, at),
             UNCHANGED batch, lost \subseteq lost',
             \A c \in disk : c \in disk' \/ Frames(c) \subseteq lost',
             ToSet(queue) \subseteq ToSet(queue')
      PROVE  KeptInv'
    <2>1. pc'[t] = at /\ \A v \in Writers : v # t => pc'[v] = pc[v]
        BY <1>1, <1>4, GotoLeaves DEF DiskInv
    <2>2. batch[t] = NoChunk
        BY <1>1, <1>4 DEF KeptInv, HolderInv, Busy
    <2>3. QED
        BY <1>4, <2>1, <2>2, ThreadKept
<1>5. CASE Settle(t)
    BY <1>2, <1>4, <1>5 DEF Settle
<1>6. CASE Scan(t)
    <2>1. PICK bad \in SUBSET disk : Unlink(bad)
        BY <1>6 DEF Scan, TooLong
    <2>2. lost \subseteq lost' /\ \A c \in disk : c \in disk' \/ Frames(c) \subseteq lost'
        BY <2>1, UnlinkAnnounces
    <2>3. QED
        BY <1>2, <1>4, <1>6, <2>2 DEF Scan
<1>7. CASE ScanKeyFails(t)
    BY <1>2, <1>4, <1>7 DEF ScanKeyFails
<1>8. CASE PutSentinel(t)
    <2>1. queue \in Seq(Chunks \cup {Sentinel})
        BY DEF DiskInv, Typed, TypeOK
    <2>2. ToSet(queue) \subseteq ToSet(queue')
        <3>1. CASE queue' = Append(queue, Sentinel)
            BY <2>1, <3>1, AppendedSet
        <3>2. QED
            BY <1>8, <3>1 DEF PutSentinel
    <2>3. QED
        BY <1>2, <1>4, <1>8, <2>2 DEF PutSentinel
<1>9. CASE Join(t)
    BY <1>2, <1>4, <1>9 DEF Join
<1>10. CASE ClearChunks(t)
    <2>1. lost \subseteq lost' /\ \A c \in disk : c \in disk' \/ Frames(c) \subseteq lost'
        BY <1>10, UnlinkAnnounces DEF ClearChunks
    <2>2. QED
        BY <1>2, <1>4, <1>10, <2>1 DEF ClearChunks
<1>11. CASE ClearTmp(t)
    BY <1>2, <1>4, <1>11 DEF ClearTmp
<1>12. QED
    BY <1>3, <1>5, <1>6, <1>7, <1>8, <1>9, <1>10, <1>11

\* The worker: what it takes out of the queue it holds, what it holds it stores
\* or announces as lost.
LEMMA WorkerKept ==
    ASSUME DiskInv, KeptInv, WorkerStep
    PROVE  KeptInv'
<1> USE DEF process, files, fifo, history
<1>1. Worker \in Writers /\ batch \in [Writers -> Chunks \cup {NoChunk}]
    BY DEF Writers, DiskInv, Typed, TypeOK
<1>2. {"rename", "count", "retain", "resync", "get", "write", "done", "empty"} \subseteq Places
    BY DEF Places
<1>3. ASSUME NEW at \in Places, Goto(Worker, at), at # "drain",
             batch'[Worker] # NoChunk => at \in Busy,
             \A v \in Writers : v # Worker => batch'[v] = batch[v],
             at \in {"count", "retain"} =>
                batch'[Worker] \in disk' \/ Held(Worker)' \subseteq lost',
             pc'[Worker] = at => Passes
      PROVE  KeptInv'
    <2>1. pc'[Worker] = at /\ \A v \in Writers : v # Worker => pc'[v] = pc[v]
        BY <1>1, <1>3, GotoLeaves DEF DiskInv
    <2>2. Passes
        BY <1>3, <2>1
    <2>3. QED
        BY <1>1, <1>3, <2>1, <2>2, KeptBy
<1>4. CASE Take
    <2>1. queue \in Seq(Chunks \cup {Sentinel}) /\ queue # <<>>
        BY <1>4 DEF Take, DiskInv, Typed, TypeOK
    <2>2. \A c \in ToSet(queue) : c = Head(queue) \/ c \in ToSet(Tail(queue))
        BY <2>1, HeadAndTail
    <2>3. ~Unstored(Worker)
        BY <1>4 DEF Take, Unstored
    <2>4. /\ batch'[Worker] = Head(queue)
          /\ \A v \in Writers : v # Worker => batch'[v] = batch[v]
        BY <1>1, <1>4 DEF Take
    <2>5. pc'[Worker] = "write" => Passes
        BY <1>4, <2>2, <2>3, <2>4 DEF Take, Passes, Unstored
    <2>6. Goto(Worker, "write")
        BY <1>4 DEF Take
    <2>7. QED
        BY <1>2, <1>3, <2>4, <2>5, <2>6 DEF Busy
<1>5. CASE TakeSentinel
    <2>1. queue \in Seq(Chunks \cup {Sentinel}) /\ queue # <<>>
        BY <1>5 DEF TakeSentinel, DiskInv, Typed, TypeOK
    <2>2. \A c \in ToSet(queue) : c = Head(queue) \/ c \in ToSet(Tail(queue))
        BY <2>1, HeadAndTail
    <2>3. ~Unstored(Worker) /\ batch[Worker] = NoChunk
        BY <1>1, <1>5 DEF TakeSentinel, Unstored, KeptInv, HolderInv, Busy
    <2>4. pc'[Worker] = "done" => Passes
        BY <1>5, <2>2, <2>3 DEF TakeSentinel, Passes
    <2>5. Goto(Worker, "done") /\ UNCHANGED batch
        BY <1>5 DEF TakeSentinel
    <2>6. QED
        BY <1>2, <1>3, <2>3, <2>4, <2>5
<1>6. CASE TakeNothing \/ LookClosed
    <2>1. PICK at \in {"empty", "done", "get"} : Goto(Worker, at)
        BY <1>6 DEF TakeNothing, LookClosed
    <2>2. UNCHANGED <<batch, queue, disk, lost>>
        BY <1>6 DEF TakeNothing, LookClosed
    <2>3. ~Unstored(Worker) /\ batch[Worker] = NoChunk
        BY <1>1, <1>6 DEF TakeNothing, LookClosed, Unstored, KeptInv, HolderInv, Busy
    <2>4. Passes
        BY <2>2, <2>3 DEF Passes
    <2>5. QED
        BY <1>2, <1>3, <2>1, <2>2, <2>3, <2>4
<1>7. ASSUME NEW at \in Places, at \in {"rename", "count", "retain", "resync"},
             Goto(Worker, at), UNCHANGED <<batch, queue>>, lost \subseteq lost',
             \A c \in disk : c \in disk' \/ Frames(c) \subseteq lost',
             at # "rename" /\ Unstored(Worker) => batch[Worker] \in disk',
             at \in {"count", "retain"} =>
                batch'[Worker] \in disk' \/ Held(Worker)' \subseteq lost'
      PROVE  KeptInv'
    <2>1. pc'[Worker] = at => Passes
        BY <1>7 DEF Passes, Unstored
    <2>2. QED
        BY <1>3, <1>7, <2>1 DEF Busy
<1>8. CASE WriteTmp(Worker)
    BY <1>2, <1>7, <1>8 DEF WriteTmp
<1>9. CASE Rename(Worker)
    BY <1>2, <1>7, <1>9 DEF Rename
<1>10. CASE Count(Worker)
    <2>1. batch'[Worker] \in disk' \/ Held(Worker)' \subseteq lost'
        BY <1>1, <1>10 DEF Count, KeptInv, StoredInv, Held
    <2>2. ~Unstored(Worker)
        BY <1>10 DEF Count, Unstored
    <2>3. QED
        BY <1>2, <1>7, <1>10, <2>1, <2>2 DEF Count
<1>11. ASSUME Goto(Worker, "get"), batch' = [batch EXCEPT ![Worker] = NoChunk],
              UNCHANGED queue, lost \subseteq lost',
              \A c \in disk : c \in disk' \/ Frames(c) \subseteq lost',
              Unstored(Worker) => Held(Worker) \subseteq lost'
       PROVE  KeptInv'
    <2>1. batch'[Worker] = NoChunk /\ \A v \in Writers : v # Worker => batch'[v] = batch[v]
        BY <1>1, <1>11
    <2>2. Passes
        BY <1>11 DEF Passes
    <2>3. QED
        BY <1>2, <1>3, <1>11, <2>1, <2>2
<1>12. CASE WriteFails(Worker) \/ SweepFails(Worker)
    <2>1. /\ lost' = lost \cup Held(Worker) /\ disk' = disk \ {batch[Worker]}
          /\ Goto(Worker, "get") /\ batch' = [batch EXCEPT ![Worker] = NoChunk]
          /\ UNCHANGED queue
        BY <1>12 DEF WriteFails, SweepFails, GiveUp, Broken
    <2>2. batch[Worker] \in disk => Held(Worker) = Frames(batch[Worker])
        BY NoneIsNoChunk DEF DiskInv, Typed, TypeOK, Held
    <2>3. QED
        BY <1>11, <2>1, <2>2
<1>13. CASE NotDue(Worker) \/ Resync(Worker)
    <2>1. /\ Goto(Worker, "get") /\ batch' = [batch EXCEPT ![Worker] = NoChunk]
          /\ UNCHANGED <<queue, lost, disk>> /\ ~Unstored(Worker)
        BY <1>13 DEF NotDue, Resync, Finish, Unstored
    <2>2. QED
        BY <1>11, <2>1
<1>14. CASE Sweep(Worker)
    <2>1. PICK old \in SUBSET disk : Unlink(old \cup OverBudget(disk \ old))
        BY <1>14 DEF Sweep
    <2>2. lost \subseteq lost' /\ \A c \in disk : c \in disk' \/ Frames(c) \subseteq lost'
        BY <2>1, UnlinkAnnounces
    <2>3. /\ Goto(Worker, "resync") /\ UNCHANGED <<batch, queue>> /\ ~Unstored(Worker)
        BY <1>14 DEF Sweep, Unstored
    <2>4. QED
        BY <1>2, <1>7, <2>2, <2>3
<1>15. QED
    BY <1>4, <1>5, <1>6, <1>8, <1>9, <1>10, <1>12, <1>13, <1>14 DEF WorkerStep, WriterStep

LEMMA KeptInitial == Init => KeptInv
BY DEF Init, KeptInv, HolderInv, DrainInv, StoredInv, Writers, Threads

LEMMA KeptStep == DiskInv /\ KeptInv /\ [Next]_vars => KeptInv'
<1> SUFFICES ASSUME DiskInv, KeptInv, [Next]_vars PROVE KeptInv'
    OBVIOUS
<1>1. CASE WorkerStep
    BY <1>1, WorkerKept
<1>2. ASSUME NEW t \in Appenders, AppendFrame(t) PROVE KeptInv'
    BY <1>2, OwnerKept DEF Threads
<1>3. ASSUME NEW t \in Threads, FlushStep(t) PROVE KeptInv'
    BY <1>3, FlushKept
<1>4. ASSUME NEW t \in Owners,
             \/ Flush(t) \/ Read(t) \/ Close(t) \/ Clear(t)
             \/ Settle(t) \/ Scan(t) \/ ScanKeyFails(t) \/ PutSentinel(t) \/ Join(t)
             \/ ClearChunks(t) \/ ClearTmp(t)
      PROVE  KeptInv'
    BY <1>4, OwnerKept DEF Threads
<1>5. CASE Restart
    <2>1. /\ pc' = [w \in Writers |-> IF w = Worker THEN "get" ELSE "idle"]
          /\ batch' = [w \in Writers |-> NoChunk]
        BY <1>5 DEF Restart
    <2>2. QED
        BY <2>1 DEF KeptInv, HolderInv, DrainInv, StoredInv, Writers, Threads
<1>6. CASE UNCHANGED vars
    <2>1. UNCHANGED <<pc, batch, disk, queue, lost>>
        BY <1>6 DEF vars, files, fifo, locals, history
    <2>2. QED
        BY <2>1 DEF KeptInv, HolderInv, DrainInv, StoredInv, UnderWay, Unstored, Held,
                    QueuedAt
<1>7. QED
    BY <1>1, <1>2, <1>3, <1>4, <1>5, <1>6 DEF Next

\* Once the queue has nothing unfinished, the frames a waiting flush handed over
\* are on disk or were given up on a path the code announces: task_done() is
\* called only after the chunk is stored or set aside, whatever fails in between.
THEOREM DrainedIsStored == Spec => []DrainIsDurable
<1>1. DiskInv /\ KeptInv => DrainIsDurable
    <2> SUFFICES ASSUME DiskInv, KeptInv, NEW t \in Threads, pc[t] = "drain", unfinished = 0,
                        NEW f \in Held(t)
                 PROVE  f \in lost \/ \E c \in disk : f \in Frames(c)
        BY DEF DrainIsDurable
    <2>1. UnderWay(f)
        BY DEF KeptInv, DrainInv
    <2>2. Len(queue) = 0 /\ pc[Worker] \notin Busy
        BY WorkerCounts
    <2>3. DOMAIN queue = {}
        BY <2>2 DEF DiskInv, Typed, TypeOK
    <2>4. ~Unstored(Worker)
        BY <2>2, WorkerCounts DEF Unstored, Busy
    <2>5. QED
        BY <2>1, <2>3, <2>4 DEF UnderWay
<1>2. QED
    BY <1>1, DiskInitial, DiskStep, KeptInitial, KeptStep, PTL DEF Spec
-----------------------------------------------------------------------------
(* The ledger of frames *)

HeldBy(w, f) == Unstored(w) /\ f \in Held(w)

IsPending(f) == \E i \in DOMAIN pending : pending[i] = f
IsHeld(f) == \E w \in Writers : HeldBy(w, f)
IsQueued(f) == \E i \in DOMAIN queue : QueuedAt(i, f)
IsStored(f) == \E c \in disk : f \in Frames(c)

\* A frame is in one place at most ...
OnePlace(f) ==
    /\ \A i, j \in DOMAIN pending : pending[i] = f /\ pending[j] = f => i = j
    /\ \A v, w \in Writers : HeldBy(v, f) /\ HeldBy(w, f) => v = w
    /\ \A i, j \in DOMAIN queue : QueuedAt(i, f) /\ QueuedAt(j, f) => i = j
    /\ \A c, d \in disk : f \in Frames(c) /\ f \in Frames(d) => c = d
    /\ IsPending(f) => ~IsHeld(f) /\ ~IsQueued(f) /\ ~IsStored(f)
    /\ IsHeld(f) => ~IsQueued(f) /\ ~IsStored(f)
    /\ IsQueued(f) => ~IsStored(f)

Somewhere(f) == IsPending(f) \/ IsHeld(f) \/ IsQueued(f) \/ IsStored(f)

\* ... and in none exactly if it was given up.
Accounted(f) == OnePlace(f) /\ (f \in lost <=> ~Somewhere(f))

LedgerInv == \A f \in 1..accepted : Accounted(f)

\* A frame whose places do not change stays accounted for.
LEMMA Untouched ==
    ASSUME NEW f, Accounted(f), f \in lost' <=> f \in lost, UNCHANGED <<pending, queue>>,
           \A w \in Writers : HeldBy(w, f)' <=> HeldBy(w, f),
           \A c : c \in disk' /\ f \in Frames(c) <=> c \in disk /\ f \in Frames(c)
    PROVE  Accounted(f)'
<1>1. /\ IsPending(f)' <=> IsPending(f)
      /\ IsHeld(f)' <=> IsHeld(f)
      /\ IsStored(f)' <=> IsStored(f)
    BY DEF IsPending, IsHeld, IsStored
<1>2. \A i : QueuedAt(i, f)' <=> QueuedAt(i, f)
    BY DEF QueuedAt
<1>3. IsQueued(f)' <=> IsQueued(f)
    BY <1>2 DEF IsQueued
<1>4. OnePlace(f)'
    BY <1>1, <1>2, <1>3 DEF OnePlace, Accounted
<1>5. QED
    BY <1>1, <1>3, <1>4 DEF Accounted, Somewhere

\* Who keeps what he holds, or holds nothing before and after, changes no place.
LEMMA HoldsOn ==
    ASSUME NEW w \in Writers, NEW f,
           \A v \in Writers : v # w => pc'[v] = pc[v] /\ batch'[v] = batch[v],
           \/ ~Unstored(w) /\ ~Unstored(w)'
           \/ batch'[w] = batch[w] /\ Unstored(w) /\ Unstored(w)'
    PROVE  \A v \in Writers : HeldBy(v, f)' <=> HeldBy(v, f)
BY DEF HeldBy, Held, Unstored

\* Chunks that are removed from the disk are lost, and nothing else is.
LEMMA UnlinkedIsLost ==
    ASSUME LedgerInv, NEW gone \in SUBSET disk, Unlink(gone), UNCHANGED <<pending, queue>>,
           \A f \in 1..accepted, w \in Writers : HeldBy(w, f)' <=> HeldBy(w, f)
    PROVE  LedgerInv'
<1> SUFFICES ASSUME NEW f \in 1..accepted PROVE Accounted(f)'
    BY DEF LedgerInv, Unlink
<1>1. Accounted(f)
    BY DEF LedgerInv
<1>2. CASE \E c \in gone : f \in Frames(c)
    <2>1. f \in lost' /\ ~IsStored(f)'
        BY <1>1, <1>2 DEF Unlink, Accounted, OnePlace, IsStored
    <2>2. ~IsPending(f) /\ ~IsHeld(f) /\ ~IsQueued(f)
        BY <1>1, <1>2 DEF Accounted, OnePlace, IsStored
    <2>3. ~IsPending(f)' /\ ~IsHeld(f)' /\ ~IsQueued(f)'
        BY <2>2 DEF IsPending, IsHeld, IsQueued, QueuedAt
    <2>4. QED
        BY <2>1, <2>3 DEF Somewhere, Accounted, OnePlace, IsPending, IsHeld, IsQueued, IsStored
<1>3. CASE \A c \in gone : f \notin Frames(c)
    BY <1>1, <1>3, Untouched DEF Unlink
<1>4. QED
    BY <1>2, <1>3

\* A writer that gives its chunk up, and takes it from the disk if it had got there.
LEMMA GivenUpIsLost ==
    ASSUME DiskInv, StoredInv, LedgerInv, NEW w \in Writers,
           Unstored(w) \/ pc[w] = "retain",
           lost' = lost \cup Held(w), disk' \in {disk \ {batch[w]}, disk},
           Unstored(w) \/ disk' = disk \ {batch[w]},
           UNCHANGED <<pending, queue, accepted>>, ~Unstored(w)',
           \A v \in Writers : v # w => pc'[v] = pc[v] /\ batch'[v] = batch[v]
    PROVE  LedgerInv'
<1> SUFFICES ASSUME NEW f \in 1..accepted PROVE Accounted(f)'
    BY DEF LedgerInv
<1>1. Accounted(f)
    BY DEF LedgerInv
<1>2. \A v \in Writers : v # w => (HeldBy(v, f)' <=> HeldBy(v, f))
    BY DEF HeldBy, Held, Unstored
<1>3. ~HeldBy(w, f)'
    BY DEF HeldBy
<1>4. batch[w] \in disk => Held(w) = Frames(batch[w])
    BY NoneIsNoChunk DEF DiskInv, Typed, TypeOK, Held
<1>5. CASE f \in Held(w)
    <2>1. f \in lost'
        BY <1>5
    <2>2. batch[w] # NoChunk /\ Held(w) = Frames(batch[w])
        BY <1>5 DEF Held
    <2>3. ~IsPending(f) /\ ~IsQueued(f) /\ ~IsHeld(f)'
        <3>1. CASE Unstored(w)
            BY <1>1, <1>2, <1>3, <1>5, <3>1 DEF Accounted, OnePlace, IsHeld, HeldBy
        <3>2. CASE pc[w] = "retain"
            <4>1. f \in lost \/ IsStored(f)
                BY <1>5, <2>2, <3>2 DEF StoredInv, IsStored
            <4>2. ~IsPending(f) /\ ~IsQueued(f) /\ ~IsHeld(f)
                BY <1>1, <4>1 DEF Accounted, OnePlace, Somewhere
            <4>3. QED
                BY <1>2, <1>3, <4>2 DEF IsHeld
        <3>3. QED
            BY <3>1, <3>2
    <2>4. ~IsStored(f)'
        <3>1. CASE Unstored(w)
            <4>1. ~IsStored(f)
                BY <1>1, <1>5, <3>1 DEF Accounted, OnePlace, IsHeld, HeldBy
            <4>2. QED
                BY <4>1 DEF IsStored
        <3>2. CASE pc[w] = "retain" /\ disk' = disk \ {batch[w]}
            BY <1>1, <1>5, <2>2, <3>2 DEF StoredInv, IsStored, Accounted, OnePlace, Somewhere
        <3>3. QED
            BY <3>1, <3>2
    <2>5. ~IsPending(f)' /\ ~IsQueued(f)'
        BY <2>3 DEF IsPending, IsQueued, QueuedAt
    <2>6. ~Somewhere(f)'
        BY <2>3, <2>4, <2>5 DEF Somewhere
    <2>7. QED
        BY <2>1, <2>6 DEF Accounted, Somewhere, OnePlace, IsPending, IsHeld, IsQueued, IsStored
<1>6. CASE f \notin Held(w)
    <2>1. \A v \in Writers : HeldBy(v, f)' <=> HeldBy(v, f)
        BY <1>2, <1>3, <1>6 DEF HeldBy
    <2>2. \A c : c \in disk' /\ f \in Frames(c) <=> c \in disk /\ f \in Frames(c)
        BY <1>4, <1>6
    <2>3. QED
        BY <1>1, <1>6, <2>1, <2>2, Untouched
<1>7. QED
    BY <1>5, <1>6

\* A step of a writer that leaves the lists and the disk alone and keeps what it
\* holds, or held and holds nothing that is not stored.
LEMMA NoneMoves ==
    ASSUME LedgerInv, NEW w \in Writers, UNCHANGED <<pending, queue, disk, lost, accepted>>,
           \A v \in Writers : v # w => pc'[v] = pc[v] /\ batch'[v] = batch[v],
           \/ ~Unstored(w) /\ ~Unstored(w)'
           \/ batch'[w] = batch[w] /\ Unstored(w) /\ Unstored(w)'
    PROVE  LedgerInv'
<1> SUFFICES ASSUME NEW f \in 1..accepted PROVE Accounted(f)'
    BY DEF LedgerInv
<1>1. Accounted(f)
    BY DEF LedgerInv
<1>2. \A v \in Writers : HeldBy(v, f)' <=> HeldBy(v, f)
    BY HoldsOn
<1>3. QED
    BY <1>1, <1>2, Untouched

\* The steps of _write_chunk and of the sweep.
LEMMA WriterAccounts ==
    ASSUME DiskInv, StoredInv, LedgerInv, NEW w \in Writers, WriterStep(w)
    PROVE  LedgerInv'
<1> USE DEF process, files, fifo, history
<1>1. batch \in [Writers -> Chunks \cup {NoChunk}]
    BY DEF DiskInv, Typed, TypeOK
<1>2. {"rename", "count", "retain", "resync", "get", "idle"} \subseteq Places
    BY DEF Places
<1>3. ASSUME NEW at \in Places, Goto(w, at)
      PROVE  pc'[w] = at /\ \A v \in Writers : v # w => pc'[v] = pc[v]
    BY <1>3, GotoLeaves DEF DiskInv
<1>4. CASE WriteTmp(w)
    <2>1. Unstored(w) /\ Unstored(w)' /\ \A v \in Writers : v # w => pc'[v] = pc[v]
        BY <1>2, <1>3, <1>4 DEF WriteTmp, Unstored
    <2>2. UNCHANGED <<batch, pending, queue, disk, lost, accepted>>
        BY <1>4 DEF WriteTmp
    <2>3. QED
        BY <2>1, <2>2, NoneMoves
<1>5. CASE Rename(w)
    <2>1. Unstored(w) /\ ~Unstored(w)' /\ \A v \in Writers : v # w => pc'[v] = pc[v]
        BY <1>2, <1>3, <1>5 DEF Rename, Unstored
    <2>2. /\ UNCHANGED <<batch, pending, queue, lost, accepted>>
          /\ disk' = disk \cup {batch[w]} /\ Held(w) = Frames(batch[w])
        BY <1>5, <2>1, NoneIsNoChunk DEF Rename, DiskInv, Typed, ChunkInv, Held
    <2> SUFFICES ASSUME NEW f \in 1..accepted PROVE Accounted(f)'
        BY <2>2 DEF LedgerInv
    <2>3. Accounted(f)
        BY DEF LedgerInv
    <2>4. \A v \in Writers : v # w => (HeldBy(v, f)' <=> HeldBy(v, f))
        BY <2>1, <2>2 DEF HeldBy, Held, Unstored
    <2>5. ~HeldBy(w, f)'
        BY <2>1 DEF HeldBy
    <2>6. CASE f \in Held(w)
        <3>1. /\ HeldBy(w, f) /\ ~IsPending(f) /\ ~IsQueued(f) /\ ~IsStored(f) /\ f \notin lost
              /\ \A v \in Writers : v # w => ~HeldBy(v, f)
            BY <2>1, <2>3, <2>6 DEF HeldBy, Accounted, OnePlace, Somewhere, IsHeld
        <3>2. ~IsPending(f)' /\ ~IsHeld(f)' /\ ~IsQueued(f)'
            BY <2>2, <2>4, <2>5, <3>1 DEF IsPending, IsHeld, IsQueued, QueuedAt
        <3>3. IsStored(f)' /\ \A c \in disk' : f \in Frames(c) => c = batch[w]
            BY <2>2, <2>6, <3>1 DEF IsStored
        <3>4. QED
            BY <2>2, <3>1, <3>2, <3>3
            DEF Accounted, OnePlace, Somewhere, IsPending, IsHeld, IsQueued
    <2>7. CASE f \notin Held(w)
        <3>1. \A v \in Writers : HeldBy(v, f)' <=> HeldBy(v, f)
            BY <2>4, <2>5, <2>7 DEF HeldBy
        <3>2. QED
            BY <2>2, <2>3, <2>7, <3>1, Untouched
    <2>8. QED
        BY <2>6, <2>7
<1>6. ASSUME NEW at \in Places, Goto(w, at), ~Unstored(w), at \notin {"build", "write", "rename"},
             UNCHANGED <<pending, queue, disk, lost, accepted>>,
             batch' = batch \/ batch' = [batch EXCEPT ![w] = NoChunk]
      PROVE  LedgerInv'
    <2>1. ~Unstored(w)' /\ \A v \in Writers : v # w => pc'[v] = pc[v]
        BY <1>3, <1>6 DEF Unstored
    <2>2. \A v \in Writers : v # w => batch'[v] = batch[v]
        BY <1>1, <1>6
    <2>3. QED
        BY <1>6, <2>1, <2>2, NoneMoves
<1>7. CASE Count(w)
    BY <1>2, <1>6, <1>7 DEF Count, Unstored
<1>8. CASE WriteFails(w)
    <2>1. PICK at \in {"get", "idle"} : Goto(w, at)
        BY <1>8 DEF WriteFails, Broken
    <2>2. ~Unstored(w)' /\ \A v \in Writers : v # w => pc'[v] = pc[v]
        BY <1>2, <1>3, <2>1 DEF Unstored
    <2>3. /\ Unstored(w) /\ lost' = lost \cup Held(w) /\ disk' \in {disk \ {batch[w]}, disk}
          /\ UNCHANGED <<pending, queue, accepted>>
        BY <1>8 DEF WriteFails, GiveUp, Broken, Unstored
    <2>4. \A v \in Writers : v # w => batch'[v] = batch[v]
        BY <1>1, <1>8 DEF WriteFails, GiveUp
    <2>5. QED
        BY <2>2, <2>3, <2>4, GivenUpIsLost
<1>9. CASE SweepFails(w)
    <2>1. PICK at \in {"get", "idle"} : Goto(w, at)
        BY <1>9 DEF SweepFails, Broken
    <2>2. ~Unstored(w)' /\ \A v \in Writers : v # w => pc'[v] = pc[v]
        BY <1>2, <1>3, <2>1 DEF Unstored
    <2>3. /\ pc[w] = "retain" /\ UNCHANGED <<pending, queue, accepted>>
          /\ \A v \in Writers : v # w => batch'[v] = batch[v]
        BY <1>1, <1>9 DEF SweepFails
    <2>4. CASE w = Worker
        <3>1. lost' = lost \cup Held(w) /\ disk' = disk \ {batch[w]}
            BY <1>9, <2>4 DEF SweepFails, Broken
        <3>2. QED
            BY <2>2, <2>3, <3>1, GivenUpIsLost
    <2>5. CASE w # Worker
        <3>1. Goto(w, "idle") /\ UNCHANGED <<disk, lost>> /\ ~Unstored(w)
            BY <1>9, <2>5 DEF SweepFails, Broken, Unstored
        <3>2. QED
            BY <1>2, <1>6, <1>9, <2>3, <3>1 DEF SweepFails
    <2>6. QED
        BY <2>4, <2>5
<1>10. CASE NotDue(w) \/ Resync(w)
    <2>1. PICK at \in {"get", After(w)} : Goto(w, at)
        BY <1>10 DEF NotDue, Resync, Finish
    <2>2. at \in Places /\ at \notin {"build", "write", "rename"}
        BY <1>2, <2>1, AfterIs, AfterIsPlace
    <2>3. /\ ~Unstored(w) /\ UNCHANGED <<pending, queue, disk, lost, accepted>>
          /\ batch' = [batch EXCEPT ![w] = NoChunk]
        BY <1>10 DEF NotDue, Resync, Finish, Unstored
    <2>4. QED
        BY <1>6, <2>1, <2>2, <2>3
<1>11. CASE Sweep(w)
    <2>1. PICK old \in SUBSET disk : Unlink(old \cup OverBudget(disk \ old))
        BY <1>11 DEF Sweep
    <2>2. old \cup OverBudget(disk \ old) \in SUBSET disk
        BY DEF OverBudget
    <2>3. ~Unstored(w) /\ ~Unstored(w)' /\ \A v \in Writers : v # w => pc'[v] = pc[v]
        BY <1>2, <1>3, <1>11 DEF Sweep, Unstored
    <2>4. UNCHANGED <<pending, queue, batch>>
        BY <1>11 DEF Sweep
    <2>5. \A f \in 1..accepted, v \in Writers : HeldBy(v, f)' <=> HeldBy(v, f)
        BY <2>3, <2>4, HoldsOn
    <2>6. QED
        BY <2>1, <2>2, <2>4, <2>5, UnlinkedIsLost
<1>12. QED
    BY <1>4, <1>5, <1>7, <1>8, <1>9, <1>10, <1>11 DEF WriterStep

\* Detaching moves the pending frames into the chunk of the thread.
LEMMA DetachAccounts ==
    ASSUME DiskInv, LedgerInv, NEW t \in Threads, Detach(t)
    PROVE  LedgerInv'
<1> USE DEF process, files, fifo, history
<1> DEFINE new == [index |-> chunkIndex, era |-> era, frames |-> pending]
<1>1. TypeOK /\ t \in Writers /\ "build" \in Places
    BY DEF DiskInv, Typed, Writers, Places
<1>2. pc'[t] = "build" /\ \A v \in Writers : v # t => pc'[v] = pc[v]
    BY <1>1, GotoLeaves DEF Detach, DiskInv
<1>3. new # NoChunk /\ Frames(new) = ToSet(pending)
    BY <1>1, NoneIsNoChunk DEF TypeOK, Chunks, Frames
<1>4. /\ batch'[t] = new /\ \A v \in Writers : v # t => batch'[v] = batch[v]
      /\ UNCHANGED <<queue, disk, lost, accepted>> /\ pending' = <<>> /\ pc[t] = "detach"
    BY <1>1 DEF Detach, TypeOK
<1>5. ~Unstored(t) /\ Unstored(t)' /\ Held(t)' = ToSet(pending)
    BY <1>2, <1>3, <1>4 DEF Unstored, Held
<1>6. DOMAIN pending' = {}
    BY <1>4, EmptyList
<1> SUFFICES ASSUME NEW f \in 1..accepted PROVE Accounted(f)'
    BY <1>4 DEF LedgerInv
<1>7. Accounted(f)
    BY DEF LedgerInv
<1>8. \A v \in Writers : v # t => (HeldBy(v, f)' <=> HeldBy(v, f))
    BY <1>2, <1>4 DEF HeldBy, Held, Unstored
<1>9. ~HeldBy(t, f) /\ (HeldBy(t, f)' <=> IsPending(f))
    BY <1>5 DEF HeldBy, IsPending, ToSet
<1>10. ~IsPending(f)'
    BY <1>6 DEF IsPending
<1>11. /\ IsQueued(f)' <=> IsQueued(f)
       /\ IsStored(f)' <=> IsStored(f)
       /\ \A i : QueuedAt(i, f)' <=> QueuedAt(i, f)
    BY <1>4 DEF IsQueued, IsStored, QueuedAt
<1>12. IsHeld(f)' <=> IsHeld(f) \/ IsPending(f)
    BY <1>1, <1>8, <1>9 DEF IsHeld
<1>13. \A v, w \in Writers : HeldBy(v, f)' /\ HeldBy(w, f)' => v = w
    BY <1>7, <1>8, <1>9 DEF Accounted, OnePlace, IsHeld
<1>14. OnePlace(f)'
    BY <1>4, <1>6, <1>7, <1>10, <1>11, <1>12, <1>13 DEF Accounted, OnePlace
<1>15. QED
    BY <1>4, <1>7, <1>10, <1>11, <1>12, <1>14 DEF Accounted, Somewhere

\* Queueing moves the chunk of the thread behind the others in the queue.
LEMMA PutAccounts ==
    ASSUME DiskInv, LedgerInv, NEW t \in Threads, Put(t)
    PROVE  LedgerInv'
<1> USE DEF process, files, fifo, history
<1>1. TypeOK /\ t \in Writers /\ {"drain", "idle"} \subseteq Places
    BY DEF DiskInv, Typed, Writers, Places
<1>2. PICK at \in {"drain", After(t)} : Goto(t, at)
    BY DEF Put
<1>3. at \in Places /\ at \notin {"build", "write", "rename"}
    BY <1>1, <1>2, AfterIs, AfterIsPlace
<1>4. pc'[t] = at /\ \A v \in Writers : v # t => pc'[v] = pc[v]
    BY <1>1, <1>2, <1>3, GotoLeaves DEF DiskInv
<1>5. /\ queue' = Append(queue, batch[t]) /\ UNCHANGED <<pending, disk, lost, accepted>>
      /\ \A v \in Writers : v # t => batch'[v] = batch[v]
    BY <1>1 DEF Put, TypeOK
<1>6. Unstored(t) /\ ~Unstored(t)' /\ batch[t] \in Chunks
    BY <1>1, <1>3, <1>4 DEF Put, Unstored, DiskInv, Typed, ChunkInv
<1>7. batch[t] # NoChunk /\ batch[t] # Sentinel /\ Held(t) = Frames(batch[t])
    BY <1>6, NoneIsNoChunk DEF Held
<1>8. PICK last :
            /\ DOMAIN queue' = DOMAIN queue \cup {last} /\ last \notin DOMAIN queue
            /\ \A i \in DOMAIN queue : queue'[i] = queue[i]
            /\ queue'[last] = batch[t]
    <2>1. queue \in Seq(Chunks \cup {Sentinel}) /\ batch[t] \in Chunks \cup {Sentinel}
        BY <1>1, <1>6 DEF TypeOK
    <2>2. Len(queue) + 1 \notin DOMAIN queue
        BY <2>1
    <2>3. QED
        BY <1>5, <2>1, <2>2, Appended
<1> SUFFICES ASSUME NEW f \in 1..accepted PROVE Accounted(f)'
    BY <1>5 DEF LedgerInv
<1>9. Accounted(f)
    BY DEF LedgerInv
<1>10. \A v \in Writers : v # t => (HeldBy(v, f)' <=> HeldBy(v, f))
    BY <1>4, <1>5 DEF HeldBy, Held, Unstored
<1>11. ~HeldBy(t, f)' /\ (QueuedAt(last, f)' <=> HeldBy(t, f))
    BY <1>6, <1>7, <1>8 DEF HeldBy, QueuedAt
<1>12. \A i \in DOMAIN queue : QueuedAt(i, f)' <=> QueuedAt(i, f)
    BY <1>8 DEF QueuedAt
<1>13. /\ IsPending(f)' <=> IsPending(f)
       /\ IsStored(f)' <=> IsStored(f)
    BY <1>5 DEF IsPending, IsStored
<1>14. IsQueued(f)' <=> IsQueued(f) \/ HeldBy(t, f)
    BY <1>8, <1>11, <1>12 DEF IsQueued
<1>15. IsHeld(f)' <=> IsHeld(f) /\ ~HeldBy(t, f)
    BY <1>1, <1>9, <1>10, <1>11 DEF IsHeld, Accounted, OnePlace
<1>16. \A v, w \in Writers : HeldBy(v, f)' /\ HeldBy(w, f)' => v = w
    BY <1>9, <1>10, <1>11 DEF Accounted, OnePlace
<1>17. HeldBy(t, f) => IsHeld(f)
    BY <1>1 DEF IsHeld
<1>18. \A i, j \in DOMAIN queue' : QueuedAt(i, f)' /\ QueuedAt(j, f)' => i = j
    BY <1>8, <1>9, <1>11, <1>12, <1>17 DEF Accounted, OnePlace, IsQueued
<1>19. OnePlace(f)'
    BY <1>5, <1>9, <1>13, <1>14, <1>15, <1>16, <1>17, <1>18 DEF Accounted, OnePlace
<1>20. QED
    BY <1>5, <1>9, <1>13, <1>14, <1>15, <1>17, <1>19 DEF Accounted, Somewhere

\* The sentinel carries no frame.
LEMMA SentinelAccounts ==
    ASSUME DiskInv, LedgerInv, NEW t \in Threads, PutSentinel(t)
    PROVE  LedgerInv'
<1> USE DEF process, files, fifo, history
<1>1. TypeOK /\ t \in Writers /\ "join" \in Places
    BY DEF DiskInv, Typed, Writers, Places
<1>2. pc'[t] = "join" /\ \A v \in Writers : v # t => pc'[v] = pc[v]
    BY <1>1, GotoLeaves DEF PutSentinel, DiskInv
<1>3. ~Unstored(t) /\ ~Unstored(t)' /\ UNCHANGED <<batch, pending, disk, lost, accepted>>
    BY <1>2 DEF PutSentinel, Unstored
<1>4. CASE UNCHANGED queue
    BY <1>1, <1>2, <1>3, <1>4, NoneMoves
<1>5. CASE queue' = Append(queue, Sentinel)
    <2>1. PICK last :
            /\ DOMAIN queue' = DOMAIN queue \cup {last}
            /\ \A i \in DOMAIN queue : queue'[i] = queue[i]
            /\ queue'[last] = Sentinel
        <3>1. queue \in Seq(Chunks \cup {Sentinel}) /\ Sentinel \in Chunks \cup {Sentinel}
            BY <1>1 DEF TypeOK
        <3>2. QED
            BY <1>5, <3>1, Appended
    <2> SUFFICES ASSUME NEW f \in 1..accepted PROVE Accounted(f)'
        BY <1>3 DEF LedgerInv
    <2>2. Accounted(f)
        BY DEF LedgerInv
    <2>3. \A v \in Writers : HeldBy(v, f)' <=> HeldBy(v, f)
        BY <1>1, <1>2, <1>3, HoldsOn
    <2>4. ~QueuedAt(last, f)' /\ \A i \in DOMAIN queue : QueuedAt(i, f)' <=> QueuedAt(i, f)
        BY <2>1 DEF QueuedAt
    <2>5. /\ IsPending(f)' <=> IsPending(f)
          /\ IsHeld(f)' <=> IsHeld(f)
          /\ IsStored(f)' <=> IsStored(f)
        BY <1>3, <2>3 DEF IsPending, IsHeld, IsStored
    <2>6. IsQueued(f)' <=> IsQueued(f)
        BY <2>1, <2>4 DEF IsQueued
    <2>7. \A i, j \in DOMAIN queue' : QueuedAt(i, f)' /\ QueuedAt(j, f)' => i = j
        BY <2>1, <2>2, <2>4 DEF Accounted, OnePlace
    <2>8. OnePlace(f)'
        BY <1>3, <2>2, <2>3, <2>5, <2>6, <2>7 DEF Accounted, OnePlace
    <2>9. QED
        BY <1>3, <2>2, <2>5, <2>6, <2>8 DEF Accounted, Somewhere
<1>6. QED
    BY <1>4, <1>5 DEF PutSentinel

\* Taking an entry out of the queue moves the others up, and the frames of a chunk
\* into the worker's hands.
LEMMA TakeAccounts ==
    ASSUME DiskInv, LedgerInv, Take \/ TakeSentinel
    PROVE  LedgerInv'
<1> USE DEF process, files, fifo, history
<1>1. TypeOK /\ Worker \in Writers /\ {"write", "done"} \subseteq Places
    BY DEF DiskInv, Typed, Writers, Places
<1>2. /\ queue \in Seq(Chunks \cup {Sentinel}) /\ queue # <<>> /\ queue' = Tail(queue)
      /\ UNCHANGED <<pending, disk, lost, accepted>>
      /\ ~Unstored(Worker)
    BY <1>1 DEF Take, TakeSentinel, TypeOK, Unstored
<1>3. PICK at \in {"write", "done"} : Goto(Worker, at) /\ (at = "write" <=> Head(queue) # Sentinel)
    BY DEF Take, TakeSentinel
<1>4. pc'[Worker] = at /\ \A v \in Writers : v # Worker => pc'[v] = pc[v]
    BY <1>1, <1>3, GotoLeaves DEF DiskInv
<1>5. /\ \A v \in Writers : v # Worker => batch'[v] = batch[v]
      /\ Head(queue) # Sentinel => batch'[Worker] = Head(queue)
    BY <1>1 DEF Take, TakeSentinel, TypeOK
<1>6. /\ Len(queue) \in Nat \ {0} /\ DOMAIN queue = 1..Len(queue)
      /\ DOMAIN queue' = 1..(Len(queue) - 1)
      /\ \A i \in DOMAIN queue' : queue'[i] = queue[i + 1]
      /\ Head(queue) = queue[1] /\ Head(queue) \in Chunks \cup {Sentinel}
    BY <1>2, TailOf
<1>7. Head(queue) # Sentinel => Head(queue) # NoChunk
    BY <1>6, NoneIsNoChunk
<1> SUFFICES ASSUME NEW f \in 1..accepted PROVE Accounted(f)'
    BY <1>2 DEF LedgerInv
<1>8. Accounted(f)
    BY DEF LedgerInv
<1>9. \A v \in Writers : v # Worker => (HeldBy(v, f)' <=> HeldBy(v, f))
    BY <1>4, <1>5 DEF HeldBy, Held, Unstored
<1>10. ~HeldBy(Worker, f) /\ (HeldBy(Worker, f)' <=> QueuedAt(1, f))
    BY <1>2, <1>3, <1>4, <1>5, <1>6, <1>7 DEF HeldBy, Held, Unstored, QueuedAt
<1>11. \A i \in DOMAIN queue' : i + 1 \in DOMAIN queue /\ (QueuedAt(i, f)' <=> QueuedAt(i + 1, f))
    BY <1>6 DEF QueuedAt
<1>12. /\ IsPending(f)' <=> IsPending(f)
       /\ IsStored(f)' <=> IsStored(f)
    BY <1>2 DEF IsPending, IsStored
<1>13. 1 \in DOMAIN queue /\ \A i \in DOMAIN queue' : i + 1 # 1
    BY <1>6
<1>14. QueuedAt(1, f) => IsQueued(f)
    BY <1>13 DEF IsQueued
<1>15. IsHeld(f)' <=> IsHeld(f) \/ QueuedAt(1, f)
    BY <1>1, <1>9, <1>10 DEF IsHeld
<1>16. IsQueued(f)' <=> IsQueued(f) /\ ~QueuedAt(1, f)
    <2>1. ASSUME IsQueued(f)' PROVE IsQueued(f) /\ ~QueuedAt(1, f)
        <3>1. PICK i \in DOMAIN queue' : QueuedAt(i, f)'
            BY <2>1 DEF IsQueued
        <3>2. i + 1 \in DOMAIN queue /\ QueuedAt(i + 1, f)
            BY <1>11, <3>1
        <3>3. ~QueuedAt(1, f)
            BY <1>8, <1>13, <3>2 DEF Accounted, OnePlace
        <3>4. QED
            BY <3>2, <3>3 DEF IsQueued
    <2>2. ASSUME IsQueued(f), ~QueuedAt(1, f) PROVE IsQueued(f)'
        <3>1. PICK i \in DOMAIN queue : QueuedAt(i, f)
            BY <2>2 DEF IsQueued
        <3>2. i # 1
            BY <2>2, <3>1
        <3>3. i - 1 \in DOMAIN queue' /\ (i - 1) + 1 = i
            BY <1>6, <3>2
        <3>4. QueuedAt(i - 1, f)'
            BY <1>6, <3>1, <3>3 DEF QueuedAt
        <3>5. QED
            BY <3>3, <3>4 DEF IsQueued
    <2>3. QED
        BY <2>1, <2>2
<1>17. \A v, w \in Writers : HeldBy(v, f)' /\ HeldBy(w, f)' => v = w
    BY <1>8, <1>9, <1>10, <1>14 DEF Accounted, OnePlace, IsHeld
<1>18. \A i, j \in DOMAIN queue' : QueuedAt(i, f)' /\ QueuedAt(j, f)' => i = j
    <2> SUFFICES ASSUME NEW i \in DOMAIN queue', NEW j \in DOMAIN queue',
                        QueuedAt(i, f)', QueuedAt(j, f)'
                 PROVE  i = j
        OBVIOUS
    <2>1. i + 1 = j + 1
        BY <1>8, <1>11 DEF Accounted, OnePlace
    <2>2. QED
        BY <1>6, <2>1
<1>19. OnePlace(f)'
    BY <1>2, <1>8, <1>12, <1>14, <1>15, <1>16, <1>17, <1>18 DEF Accounted, OnePlace
<1>20. QED
    BY <1>2, <1>8, <1>12, <1>14, <1>15, <1>16, <1>19 DEF Accounted, Somewhere

\* The rest of flush(): a frame moves only when the chunk is given up.
LEMMA FlushAccounts ==
    ASSUME DiskInv, KeptInv, LedgerInv, NEW t \in Threads, FlushStep(t)
    PROVE  LedgerInv'
<1> USE DEF process, files, fifo, history
<1>1. t \in Writers /\ batch \in [Writers -> Chunks \cup {NoChunk}]
    BY DEF Writers, DiskInv, Typed, TypeOK
<1>2. {"write", "drain", "idle"} \subseteq Places
    BY DEF Places
<1>3. CASE Detach(t)
    BY <1>3, DetachAccounts
<1>4. CASE Put(t)
    BY <1>4, PutAccounts
<1>5. CASE WriterStep(t)
    BY <1>1, <1>5, WriterAccounts DEF KeptInv
<1>6. CASE KeyFails(t) \/ SerializeFails(t)
    <2>1. PICK at \in {"idle", After(t)} : Goto(t, at)
        BY <1>6 DEF KeyFails, SerializeFails
    <2>2. at \in Places /\ at \notin {"build", "write", "rename"}
        BY <1>2, <2>1, AfterIs, AfterIsPlace
    <2>3. pc'[t] = at /\ \A v \in Writers : v # t => pc'[v] = pc[v]
        BY <1>1, <2>1, <2>2, GotoLeaves DEF DiskInv
    <2>4. /\ Unstored(t) /\ lost' = lost \cup Held(t)
          /\ UNCHANGED <<pending, queue, disk, accepted>>
          /\ \A v \in Writers : v # t => batch'[v] = batch[v]
        BY <1>1, <1>6 DEF KeyFails, SerializeFails, GiveUp, Unstored
    <2>5. ~Unstored(t)'
        BY <2>2, <2>3 DEF Unstored
    <2>6. QED
        BY <1>1, <2>3, <2>4, <2>5, GivenUpIsLost DEF KeptInv
<1>7. CASE PutFull(t)
    <2>1. pc'[t] = "write" /\ \A v \in Writers : v # t => pc'[v] = pc[v]
        BY <1>1, <1>2, <1>7, GotoLeaves DEF PutFull, DiskInv
    <2>2. Unstored(t) /\ Unstored(t)' /\ UNCHANGED <<batch, pending, queue, disk, lost, accepted>>
        BY <1>7, <2>1 DEF PutFull, Unstored
    <2>3. QED
        BY <1>1, <2>1, <2>2, NoneMoves
<1>8. CASE DetachNothing(t) \/ Drained(t) \/ DrainTimesOut(t)
    <2>1. PICK at \in {"drain", After(t)} : Goto(t, at)
        BY <1>8 DEF DetachNothing, Drained, DrainTimesOut
    <2>2. at \in Places /\ at \notin {"build", "write", "rename"}
        BY <1>2, <2>1, AfterIs, AfterIsPlace
    <2>3. pc'[t] = at /\ \A v \in Writers : v # t => pc'[v] = pc[v]
        BY <1>1, <2>1, <2>2, GotoLeaves DEF DiskInv
    <2>4. /\ ~Unstored(t) /\ UNCHANGED <<pending, queue, disk, lost, accepted>>
          /\ \A v \in Writers : v # t => batch'[v] = batch[v]
        BY <1>1, <1>8 DEF DetachNothing, Drained, DrainTimesOut, Unstored
    <2>5. ~Unstored(t)'
        BY <2>2, <2>3 DEF Unstored
    <2>6. QED
        BY <1>1, <2>3, <2>4, <2>5, NoneMoves
<1>9. QED
    BY <1>3, <1>4, <1>5, <1>6, <1>7, <1>8 DEF FlushStep

\* A frame that append() takes is in the pending list, and nowhere else; the
\* frames of the list that clear() empties are lost.
LEMMA EnterAccounts ==
    ASSUME DiskInv, LedgerInv, NEW t \in Threads,
           AppendFrame(t) \/ Flush(t) \/ Read(t) \/ Close(t) \/ Clear(t)
    PROVE  LedgerInv'
<1> USE DEF process, files, fifo, history
<1>1. TypeOK /\ t \in Writers
    BY DEF DiskInv, Typed, Writers
<1>2. {"detach", "idle", "scan", "unlink"} \subseteq Places
    BY DEF Places
<1>3. PICK op \in Calls, at \in {"detach", "idle", "scan", "unlink"} : Enter(t, op, at)
    BY DEF AppendFrame, Flush, Read, Close, Clear, Calls
<1>4. pc'[t] = at /\ pc[t] = "idle" /\ \A v \in Writers : v # t => pc'[v] = pc[v]
    BY <1>2, <1>3, EnterLeaves DEF DiskInv
<1>5. UNCHANGED <<batch, disk, queue>> /\ ~Unstored(t) /\ ~Unstored(t)'
    BY <1>4 DEF AppendFrame, Flush, Read, Close, Clear, Unstored
<1>6. ASSUME NEW f PROVE \A v \in Writers : HeldBy(v, f)' <=> HeldBy(v, f)
    BY <1>1, <1>4, <1>5, HoldsOn
<1>7. CASE Flush(t) \/ Read(t) \/ Close(t)
    <2>1. UNCHANGED <<pending, lost, accepted>>
        BY <1>7 DEF Flush, Read, Close
    <2>2. QED
        BY <1>1, <1>4, <1>5, <2>1, NoneMoves
<1>8. CASE AppendFrame(t)
    <2>1. /\ accepted \in Nat /\ accepted' = accepted + 1 /\ accepted' \in 1..MaxFrames
          /\ pending' = Append(pending, accepted') /\ lost' = lost /\ lost \subseteq 1..accepted
        BY <1>1, <1>8, RollingDiskAssumption DEF AppendFrame, TypeOK
    <2>2. PICK last :
            /\ DOMAIN pending' = DOMAIN pending \cup {last} /\ last \notin DOMAIN pending
            /\ \A i \in DOMAIN pending : pending'[i] = pending[i]
            /\ pending'[last] = accepted'
        <3>1. pending \in Seq(1..MaxFrames)
            BY <1>1 DEF TypeOK
        <3>2. Len(pending) + 1 \notin DOMAIN pending
            BY <3>1
        <3>3. QED
            BY <2>1, <3>1, <3>2, Appended
    <2>3. \A i \in DOMAIN pending : pending[i] \in 1..accepted
        BY FramesWereAccepted DEF DiskInv, ToSet
    <2>4. ASSUME NEW f \in 1..accepted PROVE Accounted(f)'
        <3>1. Accounted(f) /\ f # accepted'
            BY <2>1 DEF LedgerInv
        <3>2. \A v \in Writers : HeldBy(v, f)' <=> HeldBy(v, f)
            BY <1>6
        <3>3. \A i : QueuedAt(i, f)' <=> QueuedAt(i, f)
            BY <1>5 DEF QueuedAt
        <3>4. /\ IsPending(f)' <=> IsPending(f)
              /\ IsHeld(f)' <=> IsHeld(f)
              /\ IsQueued(f)' <=> IsQueued(f)
              /\ IsStored(f)' <=> IsStored(f)
            BY <1>5, <2>2, <3>1, <3>2, <3>3 DEF IsPending, IsHeld, IsQueued, IsStored
        <3>5. \A i, j \in DOMAIN pending' : pending'[i] = f /\ pending'[j] = f => i = j
            BY <2>2, <3>1 DEF Accounted, OnePlace
        <3>6. OnePlace(f)'
            BY <1>5, <3>1, <3>2, <3>3, <3>4, <3>5 DEF Accounted, OnePlace
        <3>7. QED
            BY <2>1, <3>1, <3>4, <3>6 DEF Accounted, Somewhere
    <2>5. ASSUME NEW f, f = accepted' PROVE Accounted(f)'
        <3>1. f \notin 1..accepted
            BY <2>1, <2>5
        <3>2. /\ \A c \in Around : f \notin Frames(c)
              /\ \A v \in Writers : f \notin Held(v)
            BY <3>1, FramesWereAccepted DEF DiskInv
        <3>3. \A i \in DOMAIN queue : ~QueuedAt(i, f)
            <4> SUFFICES ASSUME NEW i \in DOMAIN queue, QueuedAt(i, f) PROVE FALSE
                OBVIOUS
            <4>1. queue[i] \in Chunks \cup {Sentinel}
                BY <1>1 DEF TypeOK
            <4>2. queue[i] \in Around
                BY <4>1, NoneIsNoChunk DEF QueuedAt, Around, ToSet
            <4>3. QED
                BY <3>2, <4>2 DEF QueuedAt
        <3>4. \A c \in disk : f \notin Frames(c)
            BY <3>2 DEF Around
        <3>5. ~IsHeld(f)' /\ ~IsQueued(f)' /\ ~IsStored(f)'
            BY <1>5, <1>6, <3>2, <3>3, <3>4 DEF IsHeld, HeldBy, IsQueued, QueuedAt, IsStored
        <3>6. IsPending(f)' /\ \A i \in DOMAIN pending' : pending'[i] = f => i = last
            BY <2>2, <2>3, <2>5, <3>1 DEF IsPending
        <3>7. f \notin lost'
            BY <2>1, <3>1
        <3>8. QED
            BY <3>5, <3>6, <3>7 DEF Accounted, OnePlace, Somewhere, IsHeld, IsQueued, IsStored
    <2>6. \A f \in 1..accepted' : f \in 1..accepted \/ f = accepted'
        BY <2>1
    <2>7. QED
        BY <2>4, <2>5, <2>6 DEF LedgerInv
<1>9. CASE Clear(t)
    <2>1. lost' = lost \cup ToSet(pending) /\ pending' = <<>> /\ accepted' = accepted
        BY <1>9 DEF Clear
    <2>2. DOMAIN pending' = {}
        BY <2>1, EmptyList
    <2> SUFFICES ASSUME NEW f \in 1..accepted PROVE Accounted(f)'
        BY <2>1 DEF LedgerInv
    <2>3. Accounted(f) /\ ~IsPending(f)'
        BY <2>2 DEF LedgerInv, IsPending
    <2>4. \A v \in Writers : HeldBy(v, f)' <=> HeldBy(v, f)
        BY <1>6
    <2>5. \A i : QueuedAt(i, f)' <=> QueuedAt(i, f)
        BY <1>5 DEF QueuedAt
    <2>6. /\ IsHeld(f)' <=> IsHeld(f)
          /\ IsQueued(f)' <=> IsQueued(f)
          /\ IsStored(f)' <=> IsStored(f)
        BY <1>5, <2>4, <2>5 DEF IsHeld, IsQueued, IsStored
    <2>7. f \in lost' <=> f \in lost \/ IsPending(f)
        BY <2>1 DEF IsPending, ToSet
    <2>8. OnePlace(f)'
        BY <1>5, <2>2, <2>3, <2>4, <2>5, <2>6 DEF Accounted, OnePlace
    <2>9. QED
        BY <2>3, <2>6, <2>7, <2>8 DEF Accounted, OnePlace, Somewhere
<1>10. QED
    BY <1>7, <1>8, <1>9

\* The rest of read, close and clear: a frame leaves the disk when it is lost.
LEMMA OwnerAccounts ==
    ASSUME DiskInv, LedgerInv, NEW t \in Threads,
           \/ Settle(t) \/ Scan(t) \/ ScanKeyFails(t) \/ Join(t)
           \/ ClearChunks(t) \/ ClearTmp(t)
    PROVE  LedgerInv'
<1> USE DEF process, files, fifo, history
<1>1. t \in Writers /\ {"scan", "idle", "untmp"} \subseteq Places
    BY DEF Writers, Places
<1>2. PICK at \in {"scan", "idle", "untmp"} : Goto(t, at)
    BY DEF Settle, Scan, ScanKeyFails, Join, ClearChunks, ClearTmp
<1>3. pc'[t] = at /\ \A v \in Writers : v # t => pc'[v] = pc[v]
    BY <1>1, <1>2, GotoLeaves DEF DiskInv
<1>4. ~Unstored(t) /\ ~Unstored(t)' /\ UNCHANGED <<batch, pending, queue>>
    BY <1>3 DEF Settle, Scan, ScanKeyFails, Join, ClearChunks, ClearTmp, Unstored
<1>5. ASSUME NEW gone \in SUBSET disk, Unlink(gone) PROVE LedgerInv'
    <2>1. \A f \in 1..accepted, v \in Writers : HeldBy(v, f)' <=> HeldBy(v, f)
        BY <1>1, <1>3, <1>4, HoldsOn
    <2>2. QED
        BY <1>4, <1>5, <2>1, UnlinkedIsLost
<1>6. CASE Scan(t)
    <2>1. PICK bad \in SUBSET disk : Unlink(bad)
        BY <1>6 DEF Scan, TooLong
    <2>2. QED
        BY <1>5, <2>1
<1>7. CASE ClearChunks(t)
    BY <1>5, <1>7 DEF ClearChunks
<1>8. CASE Settle(t) \/ ScanKeyFails(t) \/ Join(t) \/ ClearTmp(t)
    <2>1. UNCHANGED <<disk, lost, accepted>>
        BY <1>8 DEF Settle, ScanKeyFails, Join, ClearTmp
    <2>2. QED
        BY <1>1, <1>3, <1>4, <2>1, NoneMoves
<1>9. QED
    BY <1>6, <1>7, <1>8

LEMMA WorkerAccounts ==
    ASSUME DiskInv, KeptInv, LedgerInv, WorkerStep
    PROVE  LedgerInv'
<1> USE DEF process, files, fifo, history
<1>1. Worker \in Writers /\ {"get", "empty", "done"} \subseteq Places
    BY DEF Writers, Places
<1>2. CASE TakeNothing \/ LookClosed
    <2>1. PICK at \in {"get", "empty", "done"} : Goto(Worker, at)
        BY <1>2 DEF TakeNothing, LookClosed
    <2>2. pc'[Worker] = at /\ \A v \in Writers : v # Worker => pc'[v] = pc[v]
        BY <1>1, <2>1, GotoLeaves DEF DiskInv
    <2>3. /\ ~Unstored(Worker) /\ ~Unstored(Worker)'
          /\ UNCHANGED <<batch, pending, queue, disk, lost, accepted>>
        BY <1>2, <2>2 DEF TakeNothing, LookClosed, Unstored
    <2>4. QED
        BY <1>1, <2>2, <2>3, NoneMoves
<1>3. CASE WriterStep(Worker)
    BY <1>1, <1>3, WriterAccounts DEF KeptInv
<1>4. QED
    BY <1>2, <1>3, TakeAccounts DEF WorkerStep

\* After a restart a frame is on disk, or lost.
LEMMA RestartAccounts ==
    ASSUME LedgerInv, Restart
    PROVE  LedgerInv'
<1>1. PICK kept \in SUBSET disk :
        disk' = kept /\ lost' = (1..accepted) \ UNION {Frames(c) : c \in kept}
    BY DEF Restart
<1>2. /\ pending' = <<>> /\ queue' = <<>> /\ accepted' = accepted
      /\ pc' = [w \in Writers |-> IF w = Worker THEN "get" ELSE "idle"]
    BY DEF Restart
<1>3. DOMAIN pending' = {} /\ DOMAIN queue' = {}
    BY <1>2, EmptyList
<1>4. \A w \in Writers : ~Unstored(w)'
    BY <1>2 DEF Unstored
<1> SUFFICES ASSUME NEW f \in 1..accepted PROVE Accounted(f)'
    BY <1>2 DEF LedgerInv
<1>5. Accounted(f)
    BY DEF LedgerInv
<1>6. ~IsPending(f)' /\ ~IsQueued(f)' /\ ~IsHeld(f)'
    BY <1>3, <1>4 DEF IsPending, IsQueued, IsHeld, HeldBy
<1>7. f \in lost' <=> ~IsStored(f)'
    BY <1>1 DEF IsStored
<1>8. OnePlace(f)'
    BY <1>1, <1>3, <1>4, <1>5, <1>6 DEF Accounted, OnePlace, HeldBy
<1>9. QED
    BY <1>6, <1>7, <1>8 DEF Accounted, Somewhere

LEMMA LedgerStep == DiskInv /\ KeptInv /\ LedgerInv /\ [Next]_vars => LedgerInv'
<1> SUFFICES ASSUME DiskInv, KeptInv, LedgerInv, [Next]_vars PROVE LedgerInv'
    OBVIOUS
<1>1. CASE WorkerStep
    BY <1>1, WorkerAccounts
<1>2. ASSUME NEW t \in Appenders, AppendFrame(t) PROVE LedgerInv'
    BY <1>2, EnterAccounts DEF Threads
<1>3. ASSUME NEW t \in Threads, FlushStep(t) PROVE LedgerInv'
    BY <1>3, FlushAccounts
<1>4. ASSUME NEW t \in Owners, Flush(t) \/ Read(t) \/ Close(t) \/ Clear(t) PROVE LedgerInv'
    BY <1>4, EnterAccounts DEF Threads
<1>5. ASSUME NEW t \in Owners, PutSentinel(t) PROVE LedgerInv'
    BY <1>5, SentinelAccounts DEF Threads
<1>6. ASSUME NEW t \in Owners,
             \/ Settle(t) \/ Scan(t) \/ ScanKeyFails(t) \/ Join(t)
             \/ ClearChunks(t) \/ ClearTmp(t)
      PROVE  LedgerInv'
    BY <1>6, OwnerAccounts DEF Threads
<1>7. CASE Restart
    BY <1>7, RestartAccounts
<1>8. CASE UNCHANGED vars
    <2>1. UNCHANGED <<pc, batch, pending, queue, disk, lost, accepted>>
        BY <1>8 DEF vars, process, files, fifo, locals, history
    <2> SUFFICES ASSUME NEW f \in 1..accepted PROVE Accounted(f)'
        BY <2>1 DEF LedgerInv
    <2>2. \A w \in Writers : HeldBy(w, f)' <=> HeldBy(w, f)
        BY <2>1 DEF HeldBy, Held, Unstored
    <2>3. QED
        BY <2>1, <2>2, Untouched DEF LedgerInv
<1>9. QED
    BY <1>1, <1>2, <1>3, <1>4, <1>5, <1>6, <1>7, <1>8 DEF Next

\* The set of places the property counts has no element or one.
LEMMA LedgerCounts ==
    ASSUME NEW f, Accounted(f)
    PROVE  Cardinality(Sites(f)) = IF f \in lost THEN 0 ELSE 1
<1>1. CASE f \in lost
    <2>1. Sites(f) = {}
        BY <1>1 DEF Accounted, Somewhere, IsPending, IsHeld, IsQueued, IsStored, HeldBy, Sites
    <2>2. QED
        BY <1>1, <2>1, FS_EmptySet
<1>2. CASE f \notin lost
    <2>1. Somewhere(f) /\ OnePlace(f)
        BY <1>2 DEF Accounted
    <2>2. CASE IsPending(f)
        <3>1. PICK i \in DOMAIN pending : pending[i] = f
            BY <2>2 DEF IsPending
        <3>2. Sites(f) = {<<"pending", i>>}
            BY <2>1, <2>2, <3>1 DEF OnePlace, IsHeld, IsQueued, IsStored, HeldBy, Sites
        <3>3. QED
            BY <1>2, <3>2, FS_Singleton
    <2>3. CASE IsHeld(f)
        <3>1. PICK w \in Writers : HeldBy(w, f)
            BY <2>3 DEF IsHeld
        <3>2. Sites(f) = {<<"held", w>>}
            BY <2>1, <2>3, <3>1 DEF OnePlace, IsPending, IsQueued, IsStored, HeldBy, Sites
        <3>3. QED
            BY <1>2, <3>2, FS_Singleton
    <2>4. CASE IsQueued(f)
        <3>1. PICK i \in DOMAIN queue : QueuedAt(i, f)
            BY <2>4 DEF IsQueued
        <3>2. Sites(f) = {<<"queued", i>>}
            BY <2>1, <2>4, <3>1 DEF OnePlace, IsPending, IsHeld, IsStored, HeldBy, Sites
        <3>3. QED
            BY <1>2, <3>2, FS_Singleton
    <2>5. CASE IsStored(f)
        <3>1. PICK c \in disk : f \in Frames(c)
            BY <2>5 DEF IsStored
        <3>2. Sites(f) = {<<"stored", c>>}
            BY <2>1, <2>5, <3>1 DEF OnePlace, IsPending, IsHeld, IsQueued, HeldBy, Sites
        <3>3. QED
            BY <1>2, <3>2, FS_Singleton
    <2>6. QED
        BY <2>1, <2>2, <2>3, <2>4, <2>5 DEF Somewhere
<1>3. QED
    BY <1>1, <1>2

\* However appends, flushes, synchronous writes, the worker, retention, reads,
\* clear(), close and restarts interleave, every frame that append() took is in
\* exactly one place (the pending list, a writer's hands, the queue, a file), or
\* was given up on a path the code announces.
THEOREM NoFrameLostOrDoubled == Spec => []FrameLedger
<1>1. Init => LedgerInv
    BY DEF Init, LedgerInv
<1>2. LedgerInv => FrameLedger
    BY LedgerCounts DEF LedgerInv, FrameLedger
<1>3. QED
    BY <1>1, <1>2, DiskInitial, DiskStep, KeptInitial, KeptStep, LedgerStep, PTL DEF Spec
=============================================================================
