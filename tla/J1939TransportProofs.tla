------------------------ MODULE J1939TransportProofs ------------------------
(***************************************************************************)
(* Proofs about J1939Transport, for any sources, messages, windows,        *)
(* timeouts and limits, and whatever frames arrive.                        *)
(*                                                                         *)
(* The quota slots of a source are exactly those of its sessions, and a    *)
(* source has one session of each kind.  The two are proved together: two  *)
(* sessions that differ in nothing but their age would become one when     *)
(* time passes, and the slot of the other would leak.                      *)
(*                                                                         *)
(* For sources that have one transfer at a time, a completed message is    *)
(* whole and an acknowledged one was delivered.  Both rest on the order of *)
(* the bus: behind the announcement of a transfer come its own packets,    *)
(* those of a younger transfer behind its own announcement, and those of   *)
(* transfers that opened no session.                                       *)
(*                                                                         *)
(* And no transfer stalls silently: the receiver answers at the boundary   *)
(* of each window, and every grant leads to the next boundary, unless the  *)
(* first one was cut shorter than a window.                                *)
(***************************************************************************)
EXTENDS J1939Transport, FiniteSetTheorems, SequenceTheorems, TLAPS

\* A session is a record of these fields.
IsSession(s) ==
    s = [x \in {"sa", "bam", "pgn", "id", "next", "age", "pieces"} |-> s[x]]

\* count holds the slots of the sessions in S.
Exact(count, S) ==
    /\ count \in [Source -> Nat]
    /\ \A a \in Source : count[a] = Cardinality({s \in S : s.sa = a})

Unique(S) == \A s, t \in S : Prefix(s) = Prefix(t) => s = t

TableInv ==
    /\ \A s \in rx : IsSession(s)
    /\ IsFiniteSet(rx)
    /\ perSa \in [Source -> Nat]
    /\ SlotsExact
    /\ OneSessionPerPrefix
-----------------------------------------------------------------------------
LEMMA TableParts ==
    TableInv <=> (\A s \in rx : IsSession(s)) /\ IsFiniteSet(rx) /\ Exact(perSa, rx) /\ Unique(rx)
BY DEF TableInv, Exact, Unique, SlotsExact, OneSessionPerPrefix

\* Releasing sessions of the table leaves the slots of the others.
LEMMA Released ==
    ASSUME NEW S, IsFiniteSet(S), NEW count, Exact(count, S), NEW gone \in SUBSET S
    PROVE  IsFiniteSet(S \ gone) /\ Exact(FreeSlots(count, gone), S \ gone)
<1> DEFINE Of(R, a) == {s \in R : s.sa = a}
<1>1. IsFiniteSet(S \ gone)
  BY FS_Subset
<1>2. ASSUME NEW a \in Source
      PROVE  /\ Cardinality(Of(gone, a)) \in Nat
             /\ Cardinality(Of(gone, a)) =< count[a]
             /\ Cardinality(Of(S \ gone, a)) = count[a] - Cardinality(Of(gone, a))
  <2>1. IsFiniteSet(Of(S, a)) /\ IsFiniteSet(Of(gone, a))
    <3>1. Of(S, a) \in SUBSET S /\ Of(gone, a) \in SUBSET S
      OBVIOUS
    <3> QED BY <3>1, FS_Subset
  <2>2. Of(gone, a) \in SUBSET Of(S, a)
    OBVIOUS
  <2>3. Cardinality(Of(gone, a)) \in Nat /\ Cardinality(Of(gone, a)) =< Cardinality(Of(S, a))
    BY <2>1, <2>2, FS_Subset, FS_CardinalityType
  <2>4. Of(S \ gone, a) = Of(S, a) \ Of(gone, a) /\ Of(S, a) \cap Of(gone, a) = Of(gone, a)
    OBVIOUS
  <2>5. Cardinality(Of(S, a) \ Of(gone, a))
            = Cardinality(Of(S, a)) - Cardinality(Of(S, a) \cap Of(gone, a))
    BY <2>1, FS_Difference
  <2>6. count[a] = Cardinality(Of(S, a))
    BY DEF Exact
  <2> HIDE DEF Of
  <2> QED BY <2>3, <2>4, <2>5, <2>6
<1>3. \A a \in Source : FreeSlots(count, gone)[a] = count[a] - Cardinality(Of(gone, a))
  <2> SUFFICES ASSUME NEW a \in Source
               PROVE  FreeSlots(count, gone)[a] = count[a] - Cardinality(Of(gone, a))
    OBVIOUS
  <2>1. FreeSlots(count, gone)[a] = IF Cardinality(Of(gone, a)) > count[a] THEN 0
                                    ELSE count[a] - Cardinality(Of(gone, a))
    BY DEF FreeSlots
  <2>2. count[a] \in Nat
    BY DEF Exact
  <2> HIDE DEF Of
  <2> QED BY <1>2, <2>1, <2>2
<1>4. \A a \in Source : count[a] \in Nat
  BY DEF Exact
<1>5. FreeSlots(count, gone) \in [Source -> Nat]
  <2>1. \A a \in Source : FreeSlots(count, gone)[a] \in Nat
    <3> HIDE DEF Of
    <3> QED BY <1>2, <1>3, <1>4
  <2>2. FreeSlots(count, gone) = [a \in Source |-> FreeSlots(count, gone)[a]]
    BY DEF FreeSlots
  <2> QED BY <2>1, <2>2
<1> QED
  BY <1>1, <1>2, <1>3, <1>5 DEF Exact

\* A new session takes a slot of its source.
LEMMA Opens ==
    ASSUME NEW S, IsFiniteSet(S), NEW count, Exact(count, S), NEW t, t \notin S
    PROVE  /\ IsFiniteSet(S \cup {t})
           /\ Exact([count EXCEPT ![t.sa] = @ + 1], S \cup {t})
<1> DEFINE Of(R, a) == {s \in R : s.sa = a}
           more == [count EXCEPT ![t.sa] = @ + 1]
<1>1. IsFiniteSet(S \cup {t})
  BY FS_AddElement
<1>2. more \in [Source -> Nat]
  <2>1. count \in [Source -> Nat]
    BY DEF Exact
  <2>2. CASE t.sa \in Source
    BY <2>1, <2>2
  <2>3. CASE t.sa \notin Source
    <3>1. more = count
      BY <2>1, <2>3
    <3> QED BY <2>1, <3>1
  <2> QED BY <2>2, <2>3
<1>3. ASSUME NEW a \in Source PROVE more[a] = Cardinality(Of(S \cup {t}, a))
  <2>1. IsFiniteSet(Of(S, a)) /\ t \notin Of(S, a)
    <3>1. Of(S, a) \in SUBSET S
      OBVIOUS
    <3> QED BY <3>1, FS_Subset
  <2>2. CASE t.sa = a
    <3>1. Of(S \cup {t}, a) = Of(S, a) \cup {t}
      BY <2>2
    <3>2. Cardinality(Of(S, a) \cup {t}) = Cardinality(Of(S, a)) + 1
      BY <2>1, FS_AddElement
    <3> QED BY <2>2, <3>1, <3>2 DEF Exact
  <2>3. CASE t.sa # a
    <3>1. Of(S \cup {t}, a) = Of(S, a)
      BY <2>3
    <3> QED BY <2>3, <3>1 DEF Exact
  <2> QED BY <2>2, <2>3
<1> QED BY <1>1, <1>2, <1>3 DEF Exact

\* The slots are the same for sessions that change in anything but their source.
LEMMA Renewed ==
    ASSUME NEW S, IsFiniteSet(S), NEW count, Exact(count, S), Unique(S),
           NEW T, NEW F \in Surjection(S, T),
           \A s \in S : Prefix(F[s]) = Prefix(s)
    PROVE  IsFiniteSet(T) /\ Exact(count, T) /\ Unique(T)
<1> DEFINE Of(R, a) == {s \in R : s.sa = a}
<1>0. F \in [S -> T] /\ \A t \in T : \E s \in S : F[s] = t
  BY DEF Surjection
<1>1. F \in Bijection(S, T)
  <2>1. \A s, t \in S : F[s] = F[t] => s = t
    BY DEF Unique
  <2> QED BY <1>0, <2>1 DEF Bijection, Injection, IsInjective
<1>2. IsFiniteSet(T)
  BY <1>1, FS_Bijection DEF ExistsBijection
<1>3. Unique(T)
  BY <1>0 DEF Unique
<1>4. ASSUME NEW a \in Source PROVE Cardinality(Of(T, a)) = Cardinality(Of(S, a))
  <2> DEFINE G == [s \in Of(S, a) |-> F[s]]
  <2>1. IsFiniteSet(Of(S, a))
    <3>1. Of(S, a) \in SUBSET S
      OBVIOUS
    <3> QED BY <3>1, FS_Subset
  <2>2. \A s \in S : F[s].sa = s.sa
    BY DEF Prefix
  <2>3. G \in [Of(S, a) -> Of(T, a)]
    BY <1>0, <2>2
  <2>4. \A u \in Of(T, a) : \E s \in Of(S, a) : G[s] = u
    BY <1>0, <2>2
  <2>5. \A s, t \in Of(S, a) : G[s] = G[t] => s = t
    BY DEF Unique
  <2>6. G \in Bijection(Of(S, a), Of(T, a))
    <3> HIDE DEF G, Of
    <3> QED BY <2>3, <2>4, <2>5 DEF Bijection, Surjection, Injection, IsInjective
  <2> HIDE DEF G, Of
  <2> QED BY <2>1, <2>6, FS_Bijection DEF ExistsBijection
<1> QED BY <1>2, <1>3, <1>4 DEF Exact
-----------------------------------------------------------------------------
(* The steps of the receiver. *)

LEMMA TableInit == Init => TableInv
<1> SUFFICES ASSUME Init PROVE TableInv
  OBVIOUS
<1>1. rx = {} /\ perSa = [a \in Source |-> 0]
  BY DEF Init
<1>2. \A a \in Source : {s \in rx : s.sa = a} = {}
  BY <1>1
<1>3. IsFiniteSet({}) /\ Cardinality({}) = 0
  BY FS_EmptySet
<1> QED BY <1>1, <1>2, <1>3 DEF TableInv, SlotsExact, OneSessionPerPrefix

\* Sessions leave the table.
LEMMA Leave ==
    ASSUME TableInv, NEW gone \in SUBSET rx,
           rx' = rx \ gone, perSa' = FreeSlots(perSa, gone)
    PROVE  TableInv'
<1>1. IsFiniteSet(rx \ gone) /\ Exact(FreeSlots(perSa, gone), rx \ gone)
  BY TableParts, Released
<1> QED BY <1>1 DEF TableInv, SlotsExact, OneSessionPerPrefix, Exact, IsSession, Prefix

\* A session opens where no session of its source and kind is left.
LEMMA OpenStep ==
    ASSUME TableInv, NEW f, NEW old \in SUBSET Fresh, OpenSession(f, old),
           \A s \in Fresh \ old : Prefix(s) # <<f.sa, f.bam>>
    PROVE  TableInv'
<1> DEFINE kept == Fresh \ old
           free == FreeSlots(perSa, rx \ kept)
<1>1. kept \in SUBSET rx /\ rx \ (rx \ kept) = kept
  BY DEF Fresh
<1>2. IsFiniteSet(kept) /\ Exact(free, kept)
  <2>1. IsFiniteSet(rx \ (rx \ kept)) /\ Exact(free, rx \ (rx \ kept))
    BY TableParts, Released
  <2> QED BY <1>1, <2>1
<1>3. CASE rx' = kept /\ perSa' = free
  BY <1>1, <1>2, <1>3 DEF TableInv, SlotsExact, OneSessionPerPrefix, Exact
<1>4. ASSUME NEW out \in SUBSET kept,
             rx' = (kept \ out) \cup {Opened(f)},
             perSa' = [FreeSlots(free, out) EXCEPT ![f.sa] = @ + 1]
      PROVE  TableInv'
  <2>1. IsFiniteSet(kept \ out) /\ Exact(FreeSlots(free, out), kept \ out)
    <3> HIDE DEF kept, free
    <3> QED BY <1>2, Released
  <2>2. Opened(f).sa = f.sa /\ Prefix(Opened(f)) = <<f.sa, f.bam>> /\ IsSession(Opened(f))
    BY DEF Opened, Prefix, IsSession
  <2>3. Opened(f) \notin kept \ out
    BY <2>2
  <2>4. IsFiniteSet(rx') /\ Exact(perSa', rx')
    <3> HIDE DEF kept, free
    <3> QED BY <1>4, <2>1, <2>2, <2>3, Opens
  <2>5. \A s \in rx' : IsSession(s)
    BY <1>1, <1>4, <2>2 DEF TableInv
  <2>6. \A s, t \in rx' : Prefix(s) = Prefix(t) => s = t
    BY <1>1, <1>4, <2>2 DEF TableInv, OneSessionPerPrefix
  <2> QED BY <2>4, <2>5, <2>6 DEF TableInv, SlotsExact, OneSessionPerPrefix, Exact
<1>5. \/ rx' = kept /\ perSa' = free
      \/ \E out \in SUBSET kept :
            /\ rx' = (kept \ out) \cup {Opened(f)}
            /\ perSa' = [FreeSlots(free, out) EXCEPT ![f.sa] = @ + 1]
  BY DEF OpenSession
<1> QED BY <1>3, <1>4, <1>5

LEMMA AnnouncedStep == TableInv /\ Announced => TableInv'
<1> SUFFICES ASSUME TableInv, Announced PROVE TableInv'
  OBVIOUS
<1>1. PICK f : f = Head(toRx)
  OBVIOUS
<1>2. PICK same : same = {s \in Fresh : Key(s) = Key(f)}
  OBVIOUS
<1>3. PICK live : live = {s \in Fresh : Prefix(s) = Prefix(f)}
  OBVIOUS
<1>4. Prefix(f) = <<f.sa, f.bam>> /\ Key(f) = <<f.sa, f.bam, f.pgn>>
  BY DEF Prefix, Key
<1>5. Fresh \subseteq rx /\ same \in SUBSET Fresh /\ live \in SUBSET Fresh /\ same \subseteq live
  BY <1>2, <1>3 DEF Fresh, Key, Prefix
<1>6. \A s, t \in live : s = t
  BY <1>3, <1>5 DEF TableInv, OneSessionPerPrefix
<1>7. CASE (same # {} \/ live = {}) /\ OpenSession(f, same)
  <2>1. \A s \in Fresh \ same : Prefix(s) # <<f.sa, f.bam>>
    BY <1>3, <1>4, <1>5, <1>6, <1>7
  <2> QED BY <1>5, <1>7, <2>1, OpenStep
<1>8. ASSUME NEW s \in live, OpenSession(f, {s}) PROVE TableInv'
  <2>1. \A t \in Fresh \ {s} : Prefix(t) # <<f.sa, f.bam>>
    BY <1>3, <1>4, <1>5, <1>6
  <2>2. {s} \in SUBSET Fresh
    BY <1>5
  <2> QED BY <1>8, <2>1, <2>2, OpenStep
<1>9. CASE rx' = Fresh /\ perSa' = FreeSlots(perSa, rx \ Fresh)
  <2>1. rx' = rx \ (rx \ Fresh)
    BY <1>5, <1>9
  <2> QED BY <1>9, <2>1, Leave
<1> QED BY <1>1, <1>2, <1>3, <1>7, <1>8, <1>9 DEF Announced

LEMMA DataTakenStep == TableInv /\ DataTaken => TableInv'
<1> SUFFICES ASSUME TableInv, DataTaken PROVE TableInv'
  OBVIOUS
<1>2. PICK s, n, d :
        /\ s \in rx
        /\ \/ rx' = rx \ {s} /\ perSa' = FreeSlots(perSa, {s})
           \/ /\ rx' = (rx \ {s}) \cup {[s EXCEPT !.next = n, !.age = 0, !.pieces = d]}
              /\ perSa' = perSa
  BY Zenon DEF DataTaken, Drops
<1>3. CASE rx' = rx \ {s} /\ perSa' = FreeSlots(perSa, {s})
  BY <1>2, <1>3, Leave
<1>4. ASSUME NEW t, IsSession(t), Prefix(t) = Prefix(s), t.sa = s.sa,
             rx' = (rx \ {s}) \cup {t}, perSa' = perSa
      PROVE  TableInv'
  <2> DEFINE F == [u \in rx |-> IF u = s THEN t ELSE u]
             T == (rx \ {s}) \cup {t}
  <2>1. F \in Surjection(rx, T)
    BY <1>2 DEF Surjection
  <2>2. \A u \in rx : Prefix(F[u]) = Prefix(u)
    BY <1>4
  <2>3. IsFiniteSet(T) /\ Exact(perSa, T) /\ Unique(T)
    <3> HIDE DEF F, T
    <3> QED BY <2>1, <2>2, TableParts, Renewed
  <2>4. \A u \in T : IsSession(u)
    BY <1>4 DEF TableInv
  <2> QED BY <1>4, <2>3, <2>4 DEF TableInv, SlotsExact, OneSessionPerPrefix, Exact, Unique
<1>5. PICK t : t = [s EXCEPT !.next = n, !.age = 0, !.pieces = d]
  OBVIOUS
<1>6. IsSession(t) /\ Prefix(t) = Prefix(s) /\ t.sa = s.sa
  <2>1. IsSession(s)
    BY <1>2 DEF TableInv
  <2>2. LET u == [s EXCEPT !.next = n, !.age = 0, !.pieces = d] IN
        IsSession(u) /\ Prefix(u) = Prefix(s) /\ u.sa = s.sa
    BY <2>1 DEF IsSession, Prefix
  <2> QED BY <1>5, <2>2, Zenon
<1> QED BY <1>2, <1>3, <1>4, <1>5, <1>6

LEMMA TickStep == TableInv /\ Tick => TableInv'
<1> SUFFICES ASSUME TableInv, Tick PROVE TableInv'
  OBVIOUS
<1> DEFINE k(s) == Older(s.age, IF s.bam THEN T1 ELSE T4)
           F == [s \in rx |-> [s EXCEPT !.age = k(s)]]
           T == {[s EXCEPT !.age = k(s)] : s \in rx}
<1>1. rx' = T /\ perSa' = perSa
  BY DEF Tick
<1>2. \A s \in rx : IsSession(F[s]) /\ Prefix(F[s]) = Prefix(s)
  <2> SUFFICES ASSUME NEW s \in rx PROVE IsSession(F[s]) /\ Prefix(F[s]) = Prefix(s)
    OBVIOUS
  <2>2. F[s] = [s EXCEPT !.age = k(s)]
    OBVIOUS
  <2>3. IsSession(s)
    BY DEF TableInv
  <2> HIDE DEF F, k
  <2>4. LET u == [s EXCEPT !.age = k(s)] IN IsSession(u) /\ Prefix(u) = Prefix(s)
    BY <2>3 DEF IsSession, Prefix
  <2> QED BY <2>2, <2>4, Zenon
<1>3. T = {F[s] : s \in rx}
  OBVIOUS
<1>4. F \in Surjection(rx, T)
  <2>1. F = [s \in rx |-> F[s]]
    OBVIOUS
  <2> HIDE DEF F, T
  <2> QED BY <1>3, <2>1 DEF Surjection
<1> HIDE DEF F, T
<1>5. IsFiniteSet(T) /\ Exact(perSa, T) /\ Unique(T)
  BY <1>2, <1>4, TableParts, Renewed
<1>6. \A s \in T : IsSession(s)
  BY <1>2, <1>3
<1> QED BY <1>1, <1>5, <1>6 DEF TableInv, SlotsExact, OneSessionPerPrefix, Exact, Unique

LEMMA TableNext == TableInv /\ [Next]_vars => TableInv'
<1> SUFFICES ASSUME TableInv, [Next]_vars PROVE TableInv'
  OBVIOUS
<1>1. ASSUME UNCHANGED <<rx, perSa>> PROVE TableInv'
  BY <1>1 DEF TableInv, SlotsExact, OneSessionPerPrefix
<1>2. CASE PeerAborts
  <2>1. PICK gone \in SUBSET rx : rx' = rx \ gone /\ perSa' = FreeSlots(perSa, gone)
    BY <1>2, Zenon DEF PeerAborts
  <2> QED BY <2>1, Leave
<1>3. CASE DataIgnored
  <2>1. Owners(Head(toRx)) \in SUBSET rx
    BY DEF Owners
  <2>2. PICK gone \in SUBSET rx : rx' = rx \ gone /\ perSa' = FreeSlots(perSa, gone)
    BY <1>3, <2>1, Zenon DEF DataIgnored, Drops
  <2> QED BY <2>2, Leave
<1>4. CASE DataRefused
  <2>1. PICK s \in rx : rx' = rx \ {s} /\ perSa' = FreeSlots(perSa, {s})
    BY <1>4, Zenon DEF DataRefused, Drops
  <2> QED BY <2>1, Leave
<1>5. ASSUME NEW a \in Source, NEW p \in Pgn, NEW g,
             \/ StartTransfer(a, p) \/ DrainPending(a, p) \/ PollTimeouts(a, p)
             \/ StartBam(a, p) \/ ForeignGrant(a, p, g)
      PROVE  TableInv'
  <2>1. UNCHANGED receiver
    BY <1>5, Zenon DEF StartTransfer, DrainPending, PollTimeouts, StartBam, ForeignGrant
  <2> QED BY <1>1, <2>1 DEF receiver
<1>6. CASE LoseFrame \/ UNCHANGED vars
  <2>1. UNCHANGED receiver
    BY <1>6, Zenon DEF LoseFrame, vars
  <2> QED BY <1>1, <2>1 DEF receiver
<1>7. CASE \E a \in Source : TakeControl(a) \/ BamPacket(a) \/ LoseAnswer(a)
  <2>1. UNCHANGED receiver
    BY <1>7, Zenon DEF TakeControl, BamPacket, LoseAnswer
  <2> QED BY <1>1, <2>1 DEF receiver
<1> QED
  BY <1>2, <1>3, <1>4, <1>5, <1>6, <1>7, AnnouncedStep, DataTakenStep, TickStep
     DEF Next, Receives

\* Whatever arrives, in any order and with any limits: a source holds exactly the
\* slots of its sessions (_release_session_slot() and the openings of
\* _handle_tp_cm()), so the quota neither locks a source out nor lets it past.
THEOREM SlotsAreExact == Spec => []SlotsExact
<1>1. TableInv => SlotsExact
  BY DEF TableInv
<1> QED BY <1>1, TableInit, TableNext, PTL DEF Spec

\* A source has at most one session for broadcasts and one for transfers to us,
\* so a packet, which names no PGN, has one session it can be for, and the
\* disambiguation of _lookup_dt_session() is never needed.
THEOREM PacketsHaveOneOwner == Spec => []OneSessionPerPrefix
<1>1. TableInv => OneSessionPerPrefix
  BY DEF TableInv
<1> QED BY <1>1, TableInit, TableNext, PTL DEF Spec
-----------------------------------------------------------------------------
(* Types. *)

Frame == CmFrame \cup DtFrame

LEMMA Limits ==
    /\ \A p \in Pgn : Packets[p] \in Nat \ {0}
    /\ {MaxPerCts, Window, Cap, Burst} \subseteq Nat \ {0}
    /\ {T1, T2, T3, T4, MaxPerSa, MaxSessions, StormWindow, MaxTx, MaxHold, HoldWindow,
        MaxRewind, MaxTransfers, MaxFaults, MaxFlight} \subseteq Nat
BY TransportAssumption

\* The fields of a frame, whatever its type.
LEMMA FrameFields ==
    \A f \in Frame : /\ f.type \in {"CM", "ABORT", "DT"} /\ f.sa \in Source
                     /\ f.bam \in BOOLEAN /\ f.id \in Nat
                     /\ f.type # "DT" => f \in CmFrame /\ f.pgn \in Pgn
                     /\ f.type = "DT" => f \in DtFrame /\ f.seq \in Nat
BY DEF Frame, CmFrame, DtFrame

\* A frame that is taken off the bus, and what is left behind it.
LEMMA Taken ==
    ASSUME TypeOK, toRx # <<>>
    PROVE  /\ Head(toRx) \in Frame /\ Head(toRx) = toRx[1]
           /\ Tail(toRx) \in Seq(Frame) /\ Len(Tail(toRx)) = Len(toRx) - 1
           /\ \A l \in 1..Len(Tail(toRx)) : Tail(toRx)[l] = toRx[l + 1]
           /\ Len(toRx) \in Nat /\ 1 \in 1..Len(toRx)
<1>1. toRx \in Seq(Frame)
  BY DEF TypeOK, Frame
<1> QED BY <1>1

\* Answers are put behind the others.
LEMMA Told ==
    ASSUME TypeOK, NEW a \in Source, NEW answers \in Seq(Reply), Tell(a, answers)
    PROVE  toTx' \in [Source -> Seq(Reply)]
<1>1. toTx[a] \o answers \in Seq(Reply)
  BY DEF TypeOK
<1> QED BY <1>1 DEF TypeOK, Tell

LEMMA Replies ==
    /\ \A p \in Pgn : Abort(p) \in Reply /\ Answer("ACK", p, 0, 0) \in Reply
    /\ \A p \in Pgn, m \in Nat, n \in Nat : Answer("CTS", p, m, n) \in Reply
    /\ <<>> \in Seq(Reply)
    /\ \A r \in Reply : <<r>> \in Seq(Reply)
BY DEF Abort, Answer, Reply

LEMMA OpenedType ==
    \A f \in CmFrame : /\ Opened(f) \in Session
                       /\ Opened(f).id = f.id /\ Key(Opened(f)) = Key(f)
                       /\ Prefix(Opened(f)) = Prefix(f) /\ Opened(f).next = 1
                       /\ Opened(f).pieces = {}
BY DEF Opened, Session, CmFrame, Key, Prefix

\* What an opening does to the table and to the answers.
LEMMA OpenType ==
    ASSUME TypeOK, NEW f \in CmFrame, NEW old \in SUBSET Fresh, OpenSession(f, old)
    PROVE  rx' \subseteq Session /\ toTx' \in [Source -> Seq(Reply)]
<1> DEFINE kept == Fresh \ old
           aborts == IF f.bam \/ old = {} THEN <<>> ELSE <<Abort((CHOOSE s \in old : TRUE).pgn)>>
           grant == IF f.bam THEN <<>> ELSE <<Answer("CTS", f.pgn, GrantOf(f.pgn, MaxPerCts), 1)>>
<1>1. kept \subseteq Session /\ old \subseteq Session
  BY DEF Fresh, TypeOK
<1>2. aborts \in Seq(Reply)
  <2>1. CASE f.bam \/ old = {}
    BY <2>1, Replies
  <2>2. CASE ~(f.bam \/ old = {})
    <3>1. (CHOOSE s \in old : TRUE) \in Session
      BY <1>1, <2>2
    <3>2. (CHOOSE s \in old : TRUE).pgn \in Pgn
      BY <3>1 DEF Session
    <3> QED BY <2>2, <3>2, Replies
  <2> QED BY <2>1, <2>2
<1>3. f.sa \in Source /\ f.pgn \in Pgn
  BY DEF CmFrame
<1>4. grant \in Seq(Reply)
  <2>1. GrantOf(f.pgn, MaxPerCts) \in Nat
    BY <1>3, Limits DEF GrantOf, Least
  <2> QED BY <1>3, <2>1, Replies
<1>5. aborts \o grant \in Seq(Reply)
  <2> HIDE DEF aborts, grant
  <2> QED BY <1>2, <1>4
<1>6. \/ Tell(f.sa, aborts) /\ rx' = kept
      \/ Tell(f.sa, aborts \o grant) /\ \E out : rx' = (kept \ out) \cup {Opened(f)}
  BY DEF OpenSession
<1> HIDE DEF aborts, grant
<1> QED BY <1>1, <1>2, <1>3, <1>5, <1>6, Told, OpenedType

LEMMA TypeInit == Init => TypeOK
<1> SUFFICES ASSUME Init PROVE TypeOK
  OBVIOUS
<1>1. /\ rx = {} /\ toRx = <<>> /\ started = <<>> /\ toTx = [a \in Source |-> <<>>]
      /\ tx = [a \in Source |-> [p \in Pgn |-> NoTx]] /\ bam = [a \in Source |-> NoTx]
      /\ pending = [a \in Source |-> {}]
  BY DEF Init
<1> QED BY <1>1 DEF TypeOK

\* The steps of the receiver keep the types.
LEMMA ReceivesType == ASSUME TypeOK, Receives PROVE TypeOK'
<1> DEFINE f == Head(toRx)
<1>1. /\ toRx # <<>> /\ toRx' = Tail(toRx)
      /\ UNCHANGED <<tx, pending, bam, started>>
  BY Zenon DEF Receives, Announced, PeerAborts, DataIgnored, DataRefused, DataTaken, Stays, sender
<1>2. f \in Frame /\ toRx' \in Seq(Frame)
  BY <1>1, Taken
<1>3. SUFFICES rx' \subseteq Session /\ toTx' \in [Source -> Seq(Reply)]
  BY <1>1, <1>2 DEF TypeOK, Frame
<1>4. rx \subseteq Session /\ toTx \in [Source -> Seq(Reply)] /\ Fresh \subseteq rx
  BY DEF TypeOK, Fresh
<1>5. f.sa \in Source
  BY <1>2, FrameFields
<1> HIDE DEF f
<1>6. CASE Announced
  <2>1. f \in CmFrame /\ f.pgn \in Pgn
    BY <1>2, <1>6, FrameFields DEF Announced, f
  <2>2. \/ \E old \in SUBSET Fresh : OpenSession(f, old)
        \/ rx' = Fresh /\ Tell(f.sa, IF f.bam THEN <<>> ELSE <<Abort(f.pgn)>>)
    <3>1. /\ \A s : s \in Fresh => {s} \in SUBSET Fresh
          /\ {s \in Fresh : Key(s) = Key(f)} \in SUBSET Fresh
          /\ {s \in Fresh : Prefix(s) = Prefix(f)} \in SUBSET Fresh
      OBVIOUS
    <3> QED BY <1>6, <3>1 DEF Announced, f
  <2>3. (IF f.bam THEN <<>> ELSE <<Abort(f.pgn)>>) \in Seq(Reply)
    BY <2>1, Replies
  <2> QED BY <1>4, <1>5, <2>1, <2>2, <2>3, OpenType, Told
<1>7. CASE PeerAborts
  BY <1>4, <1>7 DEF PeerAborts
<1>8. CASE DataIgnored
  BY <1>4, <1>8 DEF DataIgnored, Drops
<1>9. CASE DataRefused
  <2>1. PICK s \in rx : rx' = rx \ {s} /\ Tell(f.sa, Refusal(s))
    BY <1>9, Zenon DEF DataRefused, Drops, f
  <2>2. Refusal(s) \in Seq(Reply)
    <3>1. s.pgn \in Pgn
      BY <1>4 DEF Session
    <3> QED BY <3>1, Replies DEF Refusal
  <2> QED BY <1>4, <1>5, <2>1, <2>2, Told
<1>10. CASE DataTaken
  <2>1. PICK s \in rx :
            LET t == [s EXCEPT !.next = @ + 1, !.age = 0, !.pieces = @ \cup {<<f.id, f.seq>>}]
                left == Packets[s.pgn] - s.next
            IN  \/ /\ rx' = rx \ {s}
                   /\ Tell(f.sa, IF s.bam THEN <<>> ELSE <<Answer("ACK", s.pgn, 0, 0)>>)
                \/ /\ ~IsWhole(t) /\ rx' = (rx \ {s}) \cup {t}
                   /\ Tell(f.sa, IF s.bam \/ s.next % Window # 0 THEN <<>>
                                 ELSE <<Answer("CTS", s.pgn, Least(Least(Window, left), Cap),
                                               t.next)>>)
    BY <1>10, Zenon DEF DataTaken, Drops, f
  <2> DEFINE t == [s EXCEPT !.next = @ + 1, !.age = 0, !.pieces = @ \cup {<<f.id, f.seq>>}]
             left == Packets[s.pgn] - s.next
             ack == IF s.bam THEN <<>> ELSE <<Answer("ACK", s.pgn, 0, 0)>>
             grant == IF s.bam \/ s.next % Window # 0 THEN <<>>
                      ELSE <<Answer("CTS", s.pgn, Least(Least(Window, left), Cap), t.next)>>
  <2>2. f.type = "DT" /\ f.id \in Nat /\ f.seq \in Nat
    <3>1. f.type = "DT"
      BY <1>10 DEF DataTaken, f
    <3> QED BY <1>2, <3>1, FrameFields
  <2>3. s \in Session /\ s.pgn \in Pgn /\ s.next \in Nat /\ s.pieces \in SUBSET (Nat \X Nat)
    BY <1>4 DEF Session
  <2>4. t \in Session /\ t.next = s.next + 1 /\ t.pgn = s.pgn
    <3>1. s.next + 1 \in Nat /\ s.pieces \cup {<<f.id, f.seq>>} \in SUBSET (Nat \X Nat)
      BY <2>2, <2>3
    <3> DEFINE more == s.pieces \cup {<<f.id, f.seq>>}
    <3>2. t = [s EXCEPT !.next = s.next + 1, !.age = 0, !.pieces = more]
      OBVIOUS
    <3>3. more \in SUBSET (Nat \X Nat)
      BY <3>1
    <3> HIDE DEF more, t
    <3> QED BY <2>3, <3>1, <3>2, <3>3 DEF Session
  <2>5. ack \in Seq(Reply)
    BY <2>3, Replies
  <2>6. ~IsWhole(t) => grant \in Seq(Reply)
    <3>1. ASSUME ~IsWhole(t) PROVE Least(Least(Window, left), Cap) \in Nat
      <4>1. Packets[s.pgn] \in Nat /\ Window \in Nat /\ Cap \in Nat
        BY <2>3, Limits
      <4>2. ~(s.next + 1 > Packets[s.pgn])
        BY <2>4, <3>1 DEF IsWhole
      <4> QED BY <2>3, <4>1, <4>2 DEF Least
    <3> HIDE DEF left, t
    <3> QED BY <2>3, <2>4, <3>1, Replies
  <2> HIDE DEF ack, grant, left, t
  <2>7. \/ rx' = rx \ {s} /\ Tell(f.sa, ack)
        \/ ~IsWhole(t) /\ rx' = (rx \ {s}) \cup {t} /\ Tell(f.sa, grant)
    BY <2>1, Zenon DEF ack, grant, left, t
  <2> QED BY <1>4, <1>5, <2>4, <2>5, <2>6, <2>7, Told
<1> QED BY <1>6, <1>7, <1>8, <1>9, <1>10 DEF Receives

\* What the sender puts on the bus.
LEMMA FramesSent ==
    /\ \A t \in {"CM", "ABORT"}, a \in Source, b \in BOOLEAN, p \in Pgn, i \in Nat :
          Cm(t, a, b, p, i) \in Frame
    /\ \A a \in Source, b \in BOOLEAN, n \in Nat, i \in Nat : Dt(a, b, n, i) \in Frame
BY DEF Cm, Dt, Frame, CmFrame, DtFrame

\* Frames that are put on the bus go behind the others.
LEMMA Sent ==
    ASSUME TypeOK, NEW more \in Seq(Frame)
    PROVE  /\ toRx \o more \in Seq(Frame)
           /\ Len(toRx \o more) = Len(toRx) + Len(more)
           /\ \A k \in 1..Len(toRx) : (toRx \o more)[k] = toRx[k]
           /\ \A k \in Len(toRx) + 1 .. Len(toRx) + Len(more) :
                 (toRx \o more)[k] = more[k - Len(toRx)] /\ k - Len(toRx) \in 1..Len(more)
           /\ Len(toRx) \in Nat /\ Len(more) \in Nat
<1>1. toRx \in Seq(Frame)
  BY DEF TypeOK, Frame
<1> QED BY <1>1

LEMMA SentOne ==
    ASSUME TypeOK, NEW f \in Frame
    PROVE  Append(toRx, f) = toRx \o <<f>> /\ <<f>> \in Seq(Frame) /\ Append(toRx, f) \in Seq(Frame)
<1>1. toRx \in Seq(Frame)
  BY DEF TypeOK, Frame
<1> QED BY <1>1

\* A session of the sender, looked up.
LEMMA Sessions ==
    ASSUME TypeOK, NEW a \in Source
    PROVE  /\ \A p \in Pgn : tx[a][p] \in Transfer \cup {NoTx}
           /\ \A p \in Live(a) : p \in Pgn /\ tx[a][p] \in Transfer /\ tx[a][p].id \in Nat
           /\ bam[a] # NoTx => bam[a] \in Broadcast /\ bam[a].id \in Nat /\ bam[a].pgn \in Pgn
                                                    /\ bam[a].next \in Nat
BY DEF TypeOK, Live, Transfer, Broadcast

\* A transfer or a broadcast begins.
LEMMA StartType ==
    ASSUME TypeOK, NEW a \in Source, NEW p \in Pgn, StartTransfer(a, p) \/ StartBam(a, p)
    PROVE  TypeOK'
<1>1. NextId \in Nat /\ toRx \in Seq(Frame)
  BY DEF NextId, TypeOK, Frame
<1>2. CASE StartTransfer(a, p)
  <2> DEFINE new == [id |-> NextId, state |-> "WAIT_CTS", next |-> 1, age |-> 0,
                     hold |-> 0, heldFor |-> 0]
  <2>1. new \in Transfer
    BY <1>1 DEF Transfer
  <2>2. PICK gone \in SUBSET Pgn :
           /\ tx' = [tx EXCEPT ![a] = [q \in Pgn |-> IF q = p THEN new
                                       ELSE IF q \in gone THEN NoTx ELSE @[q]]]
           /\ pending' = [pending EXCEPT ![a] = @ \cup gone]
    <3> DEFINE late == {q \in Live(a) : Expired(tx[a][q])}
               left == Live(a) \ late
    <3>1. PICK out \in IF Cardinality(left) < MaxTx THEN {{}}
                       ELSE {{q} : q \in {q \in left : \A r \in left :
                                             tx[a][r].age =< tx[a][q].age}} :
           /\ tx' = [tx EXCEPT ![a] = [q \in Pgn |-> IF q = p THEN new
                                       ELSE IF q \in late \cup out THEN NoTx ELSE @[q]]]
           /\ pending' = [pending EXCEPT ![a] = @ \cup late \cup out]
      BY <1>2, Zenon DEF StartTransfer
    <3>2. late \subseteq Pgn /\ left \subseteq Pgn
      BY DEF Live
    <3>3. out \subseteq Pgn
      BY <3>1, <3>2
    <3> HIDE DEF late, left
    <3>4. late \cup out \in SUBSET Pgn
      BY <3>2, <3>3
    <3>5. pending' = [pending EXCEPT ![a] = @ \cup (late \cup out)]
      BY <3>1 DEF TypeOK
    <3> QED BY <3>1, <3>4, <3>5, Zenon
  <2> HIDE DEF new
  <2>3. tx' \in [Source -> [Pgn -> Transfer \cup {NoTx}]]
    BY <2>1, <2>2 DEF TypeOK
  <2>4. pending' \in [Source -> SUBSET Pgn]
    BY <2>2 DEF TypeOK
  <2>5. /\ UNCHANGED <<rx, bam, toTx>>
        /\ toRx' = Append(toRx, Cm("CM", a, FALSE, p, NextId))
        /\ started' = Append(started, [sa |-> a, bam |-> FALSE, pgn |-> p])
    BY <1>2 DEF StartTransfer, receiver
  <2>6. toRx' \in Seq(Frame)
    <3>1. Cm("CM", a, FALSE, p, NextId) \in Frame
      BY <1>1, FramesSent
    <3> QED BY <2>5, <3>1, SentOne, Zenon
  <2>7. started' \in Seq([sa : Source, bam : BOOLEAN, pgn : Pgn])
    BY <2>5 DEF TypeOK
  <2> QED BY <2>3, <2>4, <2>5, <2>6, <2>7 DEF TypeOK, Frame
<1>3. CASE StartBam(a, p)
  <2>1. /\ UNCHANGED <<rx, tx, pending, toTx>>
        /\ toRx' = Append(toRx, Cm("CM", a, TRUE, p, NextId))
        /\ started' = Append(started, [sa |-> a, bam |-> TRUE, pgn |-> p])
        /\ bam' = [bam EXCEPT ![a] = [id |-> NextId, pgn |-> p, next |-> 1]]
    BY <1>3 DEF StartBam, receiver
  <2>2. toRx' \in Seq(Frame)
    <3>1. Cm("CM", a, TRUE, p, NextId) \in Frame
      BY <1>1, FramesSent
    <3> QED BY <2>1, <3>1, SentOne, Zenon
  <2>3. started' \in Seq([sa : Source, bam : BOOLEAN, pgn : Pgn])
    BY <2>1 DEF TypeOK
  <2>4. bam' \in [Source -> Broadcast \cup {NoTx}]
    BY <1>1, <2>1 DEF TypeOK, Broadcast
  <2> QED BY <2>1, <2>2, <2>3, <2>4 DEF TypeOK, Frame
<1> QED BY <1>2, <1>3

\* The frames that answer a grant are packets of the session.
LEMMA BatchType ==
    ASSUME TypeOK, NEW a \in Source, NEW s \in Transfer, NEW next \in Nat, NEW last \in Nat
    PROVE  /\ Batch(a, s, next, last) \in Seq(Frame)
           /\ \A k \in 1..Len(Batch(a, s, next, last)) :
                 Batch(a, s, next, last)[k] = Dt(a, FALSE, next + k - 1, s.id)
<1>1. s.id \in Nat
  BY DEF Transfer
<1> DEFINE d(k) == Dt(a, FALSE, next + k - 1, s.id)
<1>2. ASSUME NEW k \in 1..last + 1 - next
      PROVE  d(k) \in Frame
  <2>1. next + k - 1 \in Nat
    OBVIOUS
  <2> QED BY <1>1, <2>1, FramesSent
<1>3. PICK n \in Nat : 1..last + 1 - next = 1..n
  <2>1. CASE last + 1 - next \in Nat
    BY <2>1
  <2>2. CASE last + 1 - next < 0
    BY <2>2
  <2> QED BY <2>1, <2>2
<1>4. Batch(a, s, next, last) = [k \in 1..n |-> d(k)]
  BY <1>3 DEF Batch
<1>5. \A k \in 1..n : d(k) \in Frame
  BY <1>2, <1>3
<1> HIDE DEF d
<1>6. [k \in 1..n |-> d(k)] \in Seq(Frame) /\ Len([k \in 1..n |-> d(k)]) = n
  BY <1>5
<1>7. \A k \in 1..n : Batch(a, s, next, last)[k] = d(k)
  BY <1>4
<1> USE DEF d
<1> QED BY <1>4, <1>6, <1>7

Puts(a, p, t) == tx' = [tx EXCEPT ![a][p] = t]

\* A grant is answered by packets of the session it is for, and moves that session.
LEMMA GrantedSends ==
    ASSUME TypeOK, NEW a \in Source, NEW f \in Reply, NEW s \in Transfer, ~BadGrant(f, s),
           f.count > 0, Granted(a, f, s)
    PROVE  /\ \E t \in Transfer : t.id = s.id /\ Puts(a, f.pgn, t)
           /\ \E sent \in Seq(Frame) :
                 /\ toRx' = toRx \o sent
                 /\ \A k \in 1..Len(sent) : sent[k].type = "DT" /\ sent[k].id = s.id
                                                /\ Prefix(sent[k]) = <<a, FALSE>>
<1> DEFINE last == Least(f.next + f.count - 1, Packets[f.pgn])
           sent == Batch(a, s, f.next, last)
           t == [s EXCEPT !.state = IF last = Packets[f.pgn] THEN "WAIT_ACK" ELSE "WAIT_CTS",
                          !.next = last + 1, !.age = 0, !.hold = 0, !.heldFor = 0]
<1>1. f.pgn \in Pgn /\ f.next \in Nat /\ f.count \in Nat /\ f.next > 0
  BY DEF Reply, BadGrant
<1>2. last \in Nat
  BY <1>1, Limits DEF Least
<1>3. Puts(a, f.pgn, t) /\ toRx' = toRx \o sent
  BY DEF Granted, Puts
<1> HIDE DEF last
<1>4. t \in Transfer /\ t.id = s.id
  <2> DEFINE state == IF last = Packets[f.pgn] THEN "WAIT_ACK" ELSE "WAIT_CTS"
  <2>1. last + 1 \in Nat /\ state \in {"WAIT_CTS", "WAIT_ACK"}
    BY <1>2
  <2>2. t = [s EXCEPT !.state = state, !.next = last + 1, !.age = 0, !.hold = 0, !.heldFor = 0]
    OBVIOUS
  <2> HIDE DEF state, t
  <2> QED BY <2>1, <2>2 DEF Transfer
<1>5. sent \in Seq(Frame) /\ \A k \in 1..Len(sent) : sent[k] = Dt(a, FALSE, f.next + k - 1, s.id)
  BY <1>1, <1>2, BatchType
<1>6. \A n : /\ Dt(a, FALSE, n, s.id).type = "DT" /\ Dt(a, FALSE, n, s.id).id = s.id
             /\ Prefix(Dt(a, FALSE, n, s.id)) = <<a, FALSE>>
  BY DEF Dt, Prefix
<1> HIDE DEF sent, t
<1> QED BY <1>3, <1>4, <1>5, <1>6

-----------------------------------------------------------------------------
(* Steps that begin no transfer and take nothing off the bus.              *)

\* A session of the receiver that is the same but for its age.
Aged(s, t) ==
    s.id = t.id /\ Key(s) = Key(t) /\ s.next = t.next /\ s.pieces = t.pieces

\* No source has a transfer or a broadcast that it had not.
KeepsTransfers ==
    /\ tx' \in [Source -> [Pgn -> Transfer \cup {NoTx}]]
    /\ bam' \in [Source -> Broadcast \cup {NoTx}]
    /\ \A a \in Source : \A p \in Pgn :
          tx'[a][p] # NoTx => tx[a][p] # NoTx /\ tx'[a][p].id = tx[a][p].id
    /\ \A a \in Source : bam'[a] # NoTx => bam[a] # NoTx /\ bam'[a].id = bam[a].id

\* What a source may put on the bus without beginning anything.
Follows(f) == (f.type = "ABORT" /\ f.id = 0) \/ (f.type = "DT" /\ f.id \in Sending[Prefix(f)])

\* No acknowledgement is made on the way, and a source takes a transfer for
\* acknowledged when one arrives.
KeepsAcks ==
    \A a \in Source : \A k \in 1..Len(toTx'[a]) : toTx'[a][k].type = "ACK" =>
        \E m \in 1..Len(toTx[a]) : toTx[a][m] = toTx'[a][k]

NewAcks ==
    \A i \in acked' \ acked : \E a \in Source : \E p \in Live(a) :
        /\ i = tx[a][p].id
        /\ \E k \in 1..Len(toTx[a]) : toTx[a][k].type = "ACK" /\ toTx[a][k].pgn = p

Continues ==
    /\ TypeOK' /\ KeepsTransfers /\ KeepsAcks /\ NewAcks /\ astray \subseteq astray'
    /\ \E more \in Seq(Frame) :
          toRx' = toRx \o more /\ \A k \in 1..Len(more) : Follows(more[k])
    /\ \A t \in rx' : \E s \in rx : Aged(s, t)
    /\ UNCHANGED <<started, delivered, unheard>>

LEMMA SameTransfers == ASSUME TypeOK, UNCHANGED <<tx, bam>> PROVE KeepsTransfers
BY DEF TypeOK, KeepsTransfers

\* The entry of a transfer is moved or deleted.
LEMMA MovesTransfer ==
    ASSUME TypeOK, NEW a \in Source, NEW p \in Pgn, NEW t \in Transfer \cup {NoTx},
           tx' = [tx EXCEPT ![a][p] = t], bam' = bam,
           t # NoTx => tx[a][p] # NoTx /\ t.id = tx[a][p].id
    PROVE  KeepsTransfers
<1>1. tx' \in [Source -> [Pgn -> Transfer \cup {NoTx}]]
  BY DEF TypeOK
<1>2. \A b \in Source : \A q \in Pgn :
         tx'[b][q] = IF b = a /\ q = p THEN t ELSE tx[b][q]
  BY DEF TypeOK
<1> QED BY <1>1, <1>2 DEF TypeOK, KeepsTransfers

\* So what a source is still sending only shrinks.
LEMMA SendingShrinks ==
    ASSUME TypeOK, KeepsTransfers, NEW x \in Source \X BOOLEAN
    PROVE  Sending'[x] \subseteq Sending[x]
<1>1. PICK a \in Source, b \in BOOLEAN : x = <<a, b>>
  OBVIOUS
<1>2. CASE b
  <2>1. /\ Sending[x] = {t.id : t \in {bam[a]} \ {NoTx}}
        /\ Sending'[x] = {t.id : t \in {bam'[a]} \ {NoTx}}
    BY <1>1, <1>2 DEF Sending
  <2>2. CASE bam'[a] = NoTx
    BY <2>1, <2>2
  <2>3. CASE bam'[a] # NoTx
    <3>1. bam[a] # NoTx /\ bam'[a].id = bam[a].id
      BY <2>3 DEF KeepsTransfers
    <3> QED BY <2>1, <3>1
  <2> QED BY <2>2, <2>3
<1>3. CASE ~b
  <2>1. \A p \in Live(a)' : p \in Live(a) /\ tx'[a][p].id = tx[a][p].id
    BY DEF Live, KeepsTransfers
  <2> QED BY <1>1, <1>3, <2>1 DEF Sending
<1> QED BY <1>2, <1>3

LEMMA SameAnswers == UNCHANGED <<toTx, acked, astray>> =>
                        KeepsAcks /\ NewAcks /\ astray \subseteq astray'
BY DEF KeepsAcks, NewAcks

\* An answer that is no acknowledgement.
LEMMA ToldNoAck ==
    ASSUME TypeOK, NEW a \in Source, NEW answers \in Seq(Reply), Tell(a, answers),
           \A k \in 1..Len(answers) : answers[k].type # "ACK"
    PROVE  KeepsAcks
<1>1. toTx[a] \in Seq(Reply) /\ toTx'[a] = toTx[a] \o answers
  BY DEF TypeOK, Tell
<1>2. \A b \in Source : b # a => toTx'[b] = toTx[b]
  BY DEF TypeOK, Tell
<1>3. /\ Len(toTx'[a]) = Len(toTx[a]) + Len(answers)
      /\ Len(toTx[a]) \in Nat /\ Len(answers) \in Nat
      /\ \A k \in 1..Len(toTx[a]) : toTx'[a][k] = toTx[a][k]
      /\ \A k \in Len(toTx[a]) + 1 .. Len(toTx[a]) + Len(answers) :
            toTx'[a][k] = answers[k - Len(toTx[a])]
  BY <1>1
<1>4. ASSUME NEW k \in 1..Len(toTx'[a]), k \notin 1..Len(toTx[a])
      PROVE  toTx'[a][k].type # "ACK"
  <2>1. k \in Len(toTx[a]) + 1 .. Len(toTx[a]) + Len(answers)
    BY <1>3, <1>4
  <2>2. k - Len(toTx[a]) \in 1..Len(answers)
    BY <1>3, <2>1
  <2> QED BY <1>3, <2>1, <2>2
<1> QED BY <1>2, <1>3, <1>4 DEF KeepsAcks

LEMMA SendingNat == ASSUME TypeOK, NEW x \in Source \X BOOLEAN PROVE Sending[x] \subseteq Nat
<1>1. PICK a \in Source, b \in BOOLEAN : x = <<a, b>>
  OBVIOUS
<1>2. /\ \A p \in Live(a) : tx[a][p].id \in Nat
      /\ bam[a] # NoTx => bam[a].id \in Nat
  BY Sessions
<1> QED BY <1>1, <1>2 DEF Sending

\* Sessions that did not change, or grew older.
LEMMA SameSessions == rx' = rx => \A t \in rx' : \E s \in rx : Aged(s, t)
BY DEF Aged

\* The frames of a step that sends none, or an abort.
LEMMA SendsNothing ==
    ASSUME TypeOK, toRx' = toRx
    PROVE  \E more \in Seq(Frame) :
              toRx' = toRx \o more /\ \A k \in 1..Len(more) : Follows(more[k])
<1>1. <<>> \in Seq(Frame) /\ toRx \in Seq(Frame)
  BY DEF TypeOK, Frame
<1>2. toRx = toRx \o <<>>
  BY <1>1
<1>3. \A k \in 1..Len(<<>>) : Follows(<<>>[k])
  OBVIOUS
<1> QED BY <1>1, <1>2, <1>3, Zenon

LEMMA SendsAbort ==
    ASSUME TypeOK, NEW a \in Source, NEW p \in Pgn,
           toRx' = Append(toRx, Cm("ABORT", a, FALSE, p, 0))
    PROVE  /\ toRx' \in Seq(Frame)
           /\ \E more \in Seq(Frame) :
                 toRx' = toRx \o more /\ \A k \in 1..Len(more) : Follows(more[k])
<1> DEFINE f == Cm("ABORT", a, FALSE, p, 0)
<1>1. f \in Frame /\ f.type = "ABORT" /\ f.id = 0
  BY FramesSent DEF Cm
<1> HIDE DEF f
<1>2. toRx' = toRx \o <<f>> /\ <<f>> \in Seq(Frame) /\ toRx' \in Seq(Frame)
  BY <1>1, SentOne DEF f
<1>3. \A k \in 1..Len(<<f>>) : Follows(<<f>>[k])
  BY <1>1 DEF Follows
<1> QED BY <1>2, <1>3

LEMMA DrainContinues ==
    ASSUME TypeOK, NEW a \in Source, NEW p \in Pgn, DrainPending(a, p) PROVE Continues
<1>1. /\ toRx' = Append(toRx, Cm("ABORT", a, FALSE, p, 0))
      /\ pending' = [pending EXCEPT ![a] = @ \ {p}]
      /\ UNCHANGED <<rx, tx, bam, toTx, started, delivered, acked, unheard, astray>>
  BY DEF DrainPending, receiver, history
<1>2. pending' \in [Source -> SUBSET Pgn]
  BY <1>1 DEF TypeOK
<1>3. TypeOK'
  BY <1>1, <1>2, SendsAbort DEF TypeOK, Frame
<1> QED BY <1>1, <1>3, SendsAbort, SameTransfers, SameSessions, SameAnswers DEF Continues

LEMMA PollContinues ==
    ASSUME TypeOK, NEW a \in Source, NEW p \in Pgn, PollTimeouts(a, p) PROVE Continues
<1>1. /\ toRx' = Append(toRx, Cm("ABORT", a, FALSE, p, 0))
      /\ tx' = [tx EXCEPT ![a][p] = NoTx]
      /\ UNCHANGED <<rx, pending, bam, toTx, started, delivered, acked, unheard, astray>>
  BY DEF PollTimeouts, receiver, history
<1>2. KeepsTransfers
  BY <1>1, MovesTransfer
<1>3. TypeOK'
  BY <1>1, <1>2, SendsAbort DEF TypeOK, Frame, KeepsTransfers
<1> QED BY <1>1, <1>2, <1>3, SendsAbort, SameSessions, SameAnswers DEF Continues

LEMMA BamContinues == ASSUME TypeOK, NEW a \in Source, BamPacket(a) PROVE Continues
<1> DEFINE b == bam[a]
           t == IF b.next = Packets[b.pgn] THEN NoTx ELSE [b EXCEPT !.next = @ + 1]
           f == Dt(a, TRUE, b.next, b.id)
<1>1. /\ b # NoTx /\ toRx' = Append(toRx, f) /\ bam' = [bam EXCEPT ![a] = t]
      /\ UNCHANGED <<rx, tx, pending, toTx, started, delivered, acked, unheard, astray>>
  BY DEF BamPacket, receiver, history
<1>2. b \in Broadcast /\ b.id \in Nat /\ b.next \in Nat
  BY <1>1, Sessions
<1>3. t \in Broadcast \cup {NoTx} /\ (t # NoTx => t.id = b.id)
  BY <1>2 DEF Broadcast
<1>4. f \in Frame /\ Follows(f)
  <2>1. f.type = "DT" /\ f.id = b.id /\ Prefix(f) = <<a, TRUE>>
    BY DEF Dt, Prefix
  <2>2. b.id \in Sending[<<a, TRUE>>]
    BY <1>1 DEF Sending
  <2>3. f \in Frame
    BY <1>2, FramesSent
  <2> QED BY <2>1, <2>2, <2>3 DEF Follows
<1> HIDE DEF f, t
<1>5. KeepsTransfers
  BY <1>1, <1>3 DEF TypeOK, KeepsTransfers
<1>6. toRx' = toRx \o <<f>> /\ <<f>> \in Seq(Frame) /\ toRx' \in Seq(Frame)
  BY <1>1, <1>4, SentOne
<1>7. \A k \in 1..Len(<<f>>) : Follows(<<f>>[k])
  BY <1>4
<1>8. TypeOK'
  BY <1>1, <1>5, <1>6 DEF TypeOK, Frame, KeepsTransfers
<1> QED BY <1>1, <1>5, <1>6, <1>7, <1>8, SameSessions, SameAnswers DEF Continues

LEMMA TailOf ==
    ASSUME NEW S, NEW q \in Seq(S), q # <<>>
    PROVE  /\ 1 \in 1..Len(q) /\ Len(Tail(q)) = Len(q) - 1 /\ Len(q) \in Nat
           /\ \A k \in 1..Len(Tail(q)) : Tail(q)[k] = q[k + 1] /\ k + 1 \in 1..Len(q)
OBVIOUS

\* The answer that a source takes, and what it leaves.
LEMMA AnswerTaken ==
    ASSUME TypeOK, NEW a \in Source, toTx[a] # <<>>,
           toTx' = [toTx EXCEPT ![a] = Tail(@)]
    PROVE  /\ toTx' \in [Source -> Seq(Reply)]
           /\ Head(toTx[a]) \in Reply /\ Head(toTx[a]).pgn \in Pgn
           /\ Head(toTx[a]) = toTx[a][1] /\ 1 \in 1..Len(toTx[a])
           /\ KeepsAcks
<1>1. toTx[a] \in Seq(Reply) /\ toTx'[a] = Tail(toTx[a])
  BY DEF TypeOK
<1>2. Tail(toTx[a]) \in Seq(Reply)
  BY <1>1
<1>3. toTx' \in [Source -> Seq(Reply)] /\ \A b \in Source : b # a => toTx'[b] = toTx[b]
  BY <1>2 DEF TypeOK
<1>4. Head(toTx[a]) \in Reply /\ Head(toTx[a]) = toTx[a][1]
  BY <1>1
<1>5. Head(toTx[a]).pgn \in Pgn
  BY <1>4 DEF Reply
<1>6. /\ 1 \in 1..Len(toTx[a])
      /\ \A k \in 1..Len(toTx'[a]) : toTx'[a][k] = toTx[a][k + 1] /\ k + 1 \in 1..Len(toTx[a])
  BY <1>1, TailOf
<1>8. KeepsAcks
  BY <1>3, <1>6 DEF KeepsAcks
<1> QED BY <1>3, <1>4, <1>5, <1>6, <1>8

LEMMA HeldType ==
    ASSUME NEW s \in Transfer PROVE Held(s) \in Transfer /\ Held(s).id = s.id
<1> DEFINE n == IF HoldStarts(s) THEN 1 ELSE s.hold + 1
           h == IF HoldStarts(s) THEN 0 ELSE s.heldFor
<1>1. Held(s) = [s EXCEPT !.state = "WAIT_CTS", !.age = 0, !.hold = n, !.heldFor = h]
  BY DEF Held
<1>2. n \in Nat /\ h \in Nat
  BY DEF Transfer
<1> HIDE DEF n, h
<1>3. /\ Held(s) = [id |-> s.id, state |-> "WAIT_CTS", next |-> s.next, age |-> 0, hold |-> n,
                   heldFor |-> h]
      /\ s.id \in Nat /\ s.next \in Nat
  BY <1>1 DEF Transfer
<1> QED BY <1>2, <1>3 DEF Transfer

LEMMA ControlContinues == ASSUME TypeOK, NEW a \in Source, TakeControl(a) PROVE Continues
<1> DEFINE f == Head(toTx[a])
           s == tx[a][f.pgn]
<1>1. /\ toTx[a] # <<>> /\ toTx' = [toTx EXCEPT ![a] = Tail(@)]
      /\ UNCHANGED <<rx, pending, bam, started, delivered, unheard, astray>>
      /\ acked' = acked \/ (s # NoTx /\ f.type = "ACK" /\ acked' = acked \cup {s.id})
  BY DEF TakeControl, receiver
<1>2. /\ f \in Reply /\ f.pgn \in Pgn /\ toTx' \in [Source -> Seq(Reply)] /\ KeepsAcks
      /\ f = toTx[a][1] /\ 1 \in 1..Len(toTx[a])
  BY <1>1, AnswerTaken
<1>3. \/ tx' = tx /\ toRx' = toRx
      \/ Ends(a, f.pgn) /\ toRx' = Append(toRx, Cm("ABORT", a, FALSE, f.pgn, 0))
      \/ Ends(a, f.pgn) /\ toRx' = toRx
      \/ s # NoTx /\ tx' = [tx EXCEPT ![a][f.pgn] = Held(s)] /\ toRx' = toRx
      \/ s # NoTx /\ ~BadGrant(f, s) /\ f.count > 0 /\ Granted(a, f, s)
  BY DEF TakeControl
<1>4. s # NoTx => s \in Transfer
  BY <1>2, Sessions
<1> HIDE DEF f
<1>12. NewAcks
  BY <1>1, <1>2 DEF NewAcks, Live
<1>5. SUFFICES /\ KeepsTransfers /\ toRx' \in Seq(Frame)
               /\ \E more \in Seq(Frame) :
                     toRx' = toRx \o more /\ \A k \in 1..Len(more) : Follows(more[k])
  BY <1>1, <1>2, <1>12, SameSessions DEF Continues, KeepsTransfers, TypeOK, Frame
<1>6. toRx \in Seq(Frame)
  BY DEF TypeOK, Frame
<1>7. CASE tx' = tx /\ toRx' = toRx
  BY <1>1, <1>6, <1>7, SameTransfers, SendsNothing
<1>8. CASE Ends(a, f.pgn) /\ toRx' = Append(toRx, Cm("ABORT", a, FALSE, f.pgn, 0))
  BY <1>1, <1>2, <1>8, MovesTransfer, SendsAbort DEF Ends
<1>9. CASE Ends(a, f.pgn) /\ toRx' = toRx
  BY <1>1, <1>2, <1>6, <1>9, MovesTransfer, SendsNothing DEF Ends
<1>10. CASE s # NoTx /\ tx' = [tx EXCEPT ![a][f.pgn] = Held(s)] /\ toRx' = toRx
  <2>1. Held(s) \in Transfer /\ Held(s).id = s.id
    BY <1>4, <1>10, HeldType
  <2> QED BY <1>1, <1>2, <1>6, <1>10, <2>1, MovesTransfer, SendsNothing
<1>11. CASE s # NoTx /\ ~BadGrant(f, s) /\ f.count > 0 /\ Granted(a, f, s)
  <2>1. PICK t \in Transfer : t.id = s.id /\ Puts(a, f.pgn, t)
    <3>1. s \in Transfer /\ ~BadGrant(f, s) /\ f.count > 0 /\ Granted(a, f, s)
      BY <1>4, <1>11
    <3> HIDE DEF s
    <3> QED BY <1>2, <3>1, GrantedSends
  <2>2. PICK sent \in Seq(Frame) :
           /\ toRx' = toRx \o sent
           /\ \A k \in 1..Len(sent) : /\ sent[k].type = "DT" /\ sent[k].id = s.id
                                       /\ Prefix(sent[k]) = <<a, FALSE>>
    BY <1>2, <1>4, <1>11, GrantedSends
  <2>3. s.id \in Sending[<<a, FALSE>>]
    BY <1>2, <1>11 DEF Sending, Live
  <2>4. \A k \in 1..Len(sent) : Follows(sent[k])
    BY <2>2, <2>3 DEF Follows
  <2>5. KeepsTransfers
    BY <1>1, <1>2, <1>11, <2>1, MovesTransfer DEF Puts
  <2>6. toRx' \in Seq(Frame)
    BY <2>2, Sent
  <2> QED BY <2>2, <2>4, <2>5, <2>6
<1> QED BY <1>3, <1>7, <1>8, <1>9, <1>10, <1>11

\* What the environment does to the answers and to the ages.
LEMMA AnswersContinue ==
    ASSUME TypeOK, NEW a \in Source,
           LoseAnswer(a) \/ \E p \in Pgn : \E g \in Stray : ForeignGrant(a, p, g)
    PROVE  Continues
<1>1. /\ UNCHANGED <<rx, tx, pending, bam, toRx, started, delivered, acked, unheard>>
      /\ astray \subseteq astray'
  BY DEF LoseAnswer, ForeignGrant, receiver, sender
<1>2. toTx' \in [Source -> Seq(Reply)] /\ KeepsAcks
  <2>1. CASE LoseAnswer(a)
    BY <2>1, AnswerTaken DEF LoseAnswer
  <2>2. CASE \E p \in Pgn : \E g \in Stray : ForeignGrant(a, p, g)
    <3>1. PICK p \in Pgn, g \in Stray : ForeignGrant(a, p, g)
      BY <2>2
    <3>2. g[1] \in Nat /\ g[2] \in Nat
      BY TransportAssumption
    <3> DEFINE r == Answer("CTS", p, g[1], g[2])
    <3>3. r \in Reply /\ <<r>> \in Seq(Reply) /\ r.type = "CTS"
      BY <3>2, Replies DEF Answer
    <3>4. Tell(a, <<r>>)
      BY <3>1 DEF ForeignGrant
    <3> HIDE DEF r
    <3>5. \A k \in 1..Len(<<r>>) : <<r>>[k].type # "ACK"
      BY <3>3
    <3> QED BY <3>3, <3>4, <3>5, Told, ToldNoAck
  <2> QED BY <2>1, <2>2
<1>3. TypeOK'
  BY <1>1, <1>2 DEF TypeOK
<1>4. NewAcks
  BY <1>1 DEF NewAcks
<1> QED BY <1>1, <1>2, <1>3, <1>4, SameTransfers, SendsNothing, SameSessions DEF Continues

LEMMA OlderType == \A n \in Nat : \A limit : Older(n, limit) \in Nat
BY DEF Older

LEMMA TickContinues == ASSUME TypeOK, Tick PROVE Continues
<1> DEFINE aged(s) == [s EXCEPT !.age = Older(@, IF s.bam THEN T1 ELSE T4)]
           moved(s) == [s EXCEPT !.age = Older(@, IF T2 > T3 THEN T2 ELSE T3),
                                 !.heldFor = IF s.hold = 0 THEN 0 ELSE Older(@, HoldWindow)]
<1>1. /\ rx' = {aged(s) : s \in rx}
      /\ tx' = [a \in Source |-> [p \in Pgn |->
                   IF tx[a][p] = NoTx THEN NoTx ELSE moved(tx[a][p])]]
      /\ UNCHANGED <<pending, bam, toRx, toTx, started, delivered, acked, unheard, astray>>
  BY Zenon DEF Tick, history
<1>2. \A s \in Session : aged(s) \in Session /\ Aged(s, aged(s))
  <2> TAKE s \in Session
  <2> DEFINE n == Older(s.age, IF s.bam THEN T1 ELSE T4)
  <2>1. s.age \in Nat
    BY DEF Session
  <2>2. n \in Nat
    BY <2>1, OlderType
  <2>3. aged(s) = [s EXCEPT !.age = n]
    OBVIOUS
  <2> HIDE DEF n, aged
  <2> QED BY <2>2, <2>3 DEF Session, Aged, Key
<1>3. \A s \in Transfer : moved(s) \in Transfer /\ moved(s).id = s.id
  <2> TAKE s \in Transfer
  <2> DEFINE n == Older(s.age, IF T2 > T3 THEN T2 ELSE T3)
             h == IF s.hold = 0 THEN 0 ELSE Older(s.heldFor, HoldWindow)
  <2>1. s.age \in Nat /\ s.heldFor \in Nat
    BY DEF Transfer
  <2>2. n \in Nat /\ h \in Nat
    BY <2>1, OlderType
  <2>3. moved(s) = [s EXCEPT !.age = n, !.heldFor = h]
    OBVIOUS
  <2> HIDE DEF n, h, moved
  <2> QED BY <2>2, <2>3 DEF Transfer
<1> HIDE DEF aged, moved
<1>4. rx' \subseteq Session /\ \A t \in rx' : \E s \in rx : Aged(s, t)
  BY <1>1, <1>2 DEF TypeOK
<1>5. KeepsTransfers
  BY <1>1, <1>3 DEF TypeOK, KeepsTransfers
<1>6. TypeOK'
  BY <1>1, <1>4, <1>5 DEF TypeOK, KeepsTransfers
<1> QED BY <1>1, <1>4, <1>5, <1>6, SendsNothing, SameAnswers DEF Continues

\* Nothing happens.
LEMMA StutterContinues == ASSUME TypeOK, UNCHANGED vars PROVE Continues
<1>1. UNCHANGED <<rx, tx, pending, bam, toRx, toTx, started, delivered, acked, unheard, astray>>
  BY DEF vars, receiver, sender, history
<1>2. TypeOK'
  BY <1>1 DEF TypeOK
<1> QED BY <1>1, <1>2, SameTransfers, SendsNothing, SameSessions, SameAnswers DEF Continues

-----------------------------------------------------------------------------
(* The steps that take a frame off the bus, and those that begin a transfer. *)

LEMMA LoseFrameType == ASSUME TypeOK, LoseFrame PROVE TypeOK'
<1>1. toRx # <<>> /\ toRx' = Tail(toRx) /\ UNCHANGED <<rx, tx, pending, bam, toTx, started>>
  BY DEF LoseFrame, receiver, sender
<1>2. toRx' \in Seq(Frame)
  BY <1>1, Taken
<1> QED BY <1>1, <1>2 DEF TypeOK, Frame

\* What a step that takes frame f off the bus does to the sessions.
Takes(f) ==
    /\ TypeOK' /\ KeepsTransfers
    /\ toRx # <<>> /\ f = Head(toRx) /\ toRx' = Tail(toRx)
    /\ unheard \subseteq unheard' /\ UNCHANGED <<started, acked, astray>>
    /\ \A t \in rx' :
          \/ \E s \in rx : s.id = t.id /\ Key(s) = Key(t)
          \/ f.type = "CM" /\ t = Opened(f)
    /\ f.type = "CM" => \A t \in rx' : Prefix(t) = Prefix(f) =>
                            t.id = f.id \/ f.id \in unheard'

\* An opening keeps what is left of the table and adds the new session, or keeps
\* none of its kind.
LEMMA OpenTakes ==
    ASSUME NEW f \in CmFrame, NEW old \in SUBSET Fresh, OpenSession(f, old)
    PROVE  /\ unheard \subseteq unheard'
           /\ \A t \in rx' : t \in Fresh \ old \/ t = Opened(f)
           /\ f.id \in unheard' \/ Opened(f) \in rx'
<1>1. \/ rx' = Fresh \ old /\ unheard' = unheard \cup {f.id}
      \/ \E out : rx' = ((Fresh \ old) \ out) \cup {Opened(f)} /\ unheard' = unheard
  BY DEF OpenSession
<1> QED BY <1>1

LEMMA AnnouncedRows ==
    ASSUME TypeOK, Announced
    PROVE  \A t \in rx' : t \in rx \/ (Head(toRx).type = "CM" /\ t = Opened(Head(toRx)))
<1> DEFINE f == Head(toRx)
<1>1. f.type = "CM" /\ f \in CmFrame
  BY Taken, FrameFields DEF Announced
<1>2. \/ \E old \in SUBSET Fresh : OpenSession(f, old)
      \/ rx' = Fresh
  <2>1. /\ \A s : s \in Fresh => {s} \in SUBSET Fresh
        /\ {s \in Fresh : Key(s) = Key(f)} \in SUBSET Fresh
        /\ {s \in Fresh : Prefix(s) = Prefix(f)} \in SUBSET Fresh
    OBVIOUS
  <2> QED BY <2>1 DEF Announced
<1> HIDE DEF f
<1>3. \A t \in rx' : t \in Fresh \/ t = Opened(f)
  BY <1>1, <1>2, OpenTakes
<1> QED BY <1>1, <1>3 DEF Fresh, f

LEMMA AnnouncedTakes == ASSUME TypeOK, OneSessionPerPrefix', Announced PROVE Takes(Head(toRx))
<1> DEFINE f == Head(toRx)
<1>1. /\ toRx # <<>> /\ toRx' = Tail(toRx) /\ f.type = "CM"
      /\ UNCHANGED <<tx, bam, started, acked, astray>>
  BY Zenon DEF Announced, sender
<1>2. f \in CmFrame
  BY <1>1, Taken, FrameFields
<1>3. TypeOK'
  BY ReceivesType DEF Receives
<1>4. \/ \E old \in SUBSET Fresh : OpenSession(f, old)
      \/ rx' = Fresh /\ unheard' = unheard \cup {f.id}
  <2>1. /\ \A s : s \in Fresh => {s} \in SUBSET Fresh
        /\ {s \in Fresh : Key(s) = Key(f)} \in SUBSET Fresh
        /\ {s \in Fresh : Prefix(s) = Prefix(f)} \in SUBSET Fresh
    OBVIOUS
  <2> QED BY <2>1 DEF Announced
<1> HIDE DEF f
<1>5. Prefix(Opened(f)) = Prefix(f) /\ Opened(f).id = f.id
  BY <1>2, OpenedType
<1>6. /\ unheard \subseteq unheard'
      /\ \A t \in rx' : t \in rx \/ t = Opened(f)
      /\ f.id \in unheard' \/ Opened(f) \in rx'
  <2>1. CASE \E old \in SUBSET Fresh : OpenSession(f, old)
    BY <1>2, <2>1, OpenTakes DEF Fresh
  <2>2. CASE rx' = Fresh /\ unheard' = unheard \cup {f.id}
    BY <2>2 DEF Fresh
  <2> QED BY <1>4, <2>1, <2>2
<1>7. \A t \in rx' : Prefix(t) = Prefix(f) => t.id = f.id \/ f.id \in unheard'
  BY <1>5, <1>6 DEF OneSessionPerPrefix
<1> QED BY <1>1, <1>3, <1>6, <1>7, SameTransfers DEF Takes, f

\* The other frames open nothing.
LEMMA ReceivesTakes ==
    ASSUME TypeOK, OneSessionPerPrefix', Receives \/ LoseFrame
    PROVE  Takes(Head(toRx))
<1>1. CASE Announced
  BY <1>1, AnnouncedTakes
<1>2. CASE PeerAborts \/ DataIgnored \/ DataRefused
  <2>1. /\ toRx # <<>> /\ toRx' = Tail(toRx) /\ Head(toRx).type # "CM"
        /\ UNCHANGED <<tx, bam, started, acked, unheard, astray>> /\ rx' \subseteq rx
    BY <1>2 DEF PeerAborts, DataIgnored, DataRefused, Stays, sender, Drops
  <2>2. TypeOK'
    BY <1>2, ReceivesType DEF Receives
  <2> QED BY <2>1, <2>2, SameTransfers DEF Takes
<1>3. CASE DataTaken
  <2>1. /\ toRx # <<>> /\ toRx' = Tail(toRx) /\ Head(toRx).type # "CM"
        /\ UNCHANGED <<tx, bam, started, acked, unheard, astray>>
    BY <1>3 DEF DataTaken, Stays, sender
  <2>2. \A t \in rx' : \E s \in rx : s.id = t.id /\ Key(s) = Key(t)
    <3> DEFINE f == Head(toRx)
               next(s) == [s EXCEPT !.next = @ + 1, !.age = 0,
                                    !.pieces = @ \cup {<<f.id, f.seq>>}]
    <3>1. \E s \in rx : rx' \subseteq (rx \ {s}) \cup {next(s)}
      BY <1>3 DEF DataTaken, Drops
    <3>2. \A s \in Session : next(s).id = s.id /\ Key(next(s)) = Key(s)
      BY DEF Session, Key
    <3> HIDE DEF next
    <3> QED BY <3>1, <3>2 DEF TypeOK
  <2>3. TypeOK'
    BY <1>3, ReceivesType DEF Receives
  <2> QED BY <2>1, <2>2, <2>3, SameTransfers DEF Takes
<1>4. CASE LoseFrame
  <2>1. /\ toRx # <<>> /\ toRx' = Tail(toRx)
        /\ UNCHANGED <<rx, tx, bam, started, acked, astray>>
        /\ unheard' = IF Head(toRx).type = "CM" THEN unheard \cup {Head(toRx).id} ELSE unheard
    BY <1>4 DEF LoseFrame, receiver, sender
  <2>2. TypeOK'
    BY <1>4, LoseFrameType
  <2> QED BY <2>1, <2>2, SameTransfers DEF Takes
<1> QED BY <1>1, <1>2, <1>3, <1>4 DEF Receives

\* A new transfer is announced behind everything else, and is what its source sends.
Begins(a, b, p) ==
    /\ TypeOK'
    /\ toRx' = Append(toRx, Cm("CM", a, b, p, NextId))
    /\ started' = Append(started, [sa |-> a, bam |-> b, pgn |-> p])
    /\ Sending'[<<a, b>>] = {NextId}
    /\ \A x \in Source \X BOOLEAN : x # <<a, b>> => Sending'[x] \subseteq Sending[x]
    /\ \A c \in Source : \A q \in Live(c)' :
          \/ q \in Live(c) /\ tx'[c][q].id = tx[c][q].id
          \/ b = FALSE /\ c = a /\ q = p /\ tx'[c][q].id = NextId
    /\ \A c \in Source : bam'[c] # NoTx =>
          (bam[c] # NoTx /\ bam'[c].id = bam[c].id) \/ bam'[c].id = NextId
    /\ b = FALSE => Live(a)' = {p} /\ tx'[a][p].id = NextId
    /\ astray' = IF b = FALSE /\ Unquiet(a, p) THEN astray \cup {NextId} ELSE astray
    /\ UNCHANGED <<rx, toTx, delivered, acked, unheard>>

LEMMA TransferBegins ==
    ASSUME TypeOK, ~Parallel, NEW a \in Source, NEW p \in Pgn, StartTransfer(a, p)
    PROVE  Begins(a, FALSE, p)
<1> DEFINE late == {q \in Live(a) : Expired(tx[a][q])}
           left == Live(a) \ late
           new == [id |-> NextId, state |-> "WAIT_CTS", next |-> 1, age |-> 0,
                   hold |-> 0, heldFor |-> 0]
<1>1. /\ left \subseteq {p}
      /\ \E out : tx' = [tx EXCEPT ![a] = [q \in Pgn |-> IF q = p THEN new
                                          ELSE IF q \in late \cup out THEN NoTx ELSE @[q]]]
      /\ toRx' = Append(toRx, Cm("CM", a, FALSE, p, NextId))
      /\ started' = Append(started, [sa |-> a, bam |-> FALSE, pgn |-> p])
      /\ UNCHANGED <<rx, bam, toTx, delivered, acked, unheard>>
      /\ astray' = IF Unquiet(a, p) THEN astray \cup {NextId} ELSE astray
  BY Zenon DEF StartTransfer, receiver
<1>2. PICK out : tx' = [tx EXCEPT ![a] = [q \in Pgn |-> IF q = p THEN new
                                       ELSE IF q \in late \cup out THEN NoTx ELSE @[q]]]
  BY <1>1
<1>3. NextId \in Nat /\ new \in Transfer /\ new # NoTx /\ new.id = NextId
  <2>1. NextId \in Nat
    BY DEF NextId, TypeOK
  <2> QED BY <2>1, NoTxAssumption DEF Transfer
<1> HIDE DEF new
<1>4. /\ tx'[a][p] = new
      /\ \A q \in Pgn : q # p /\ tx'[a][q] # NoTx => tx'[a][q] = tx[a][q] /\ q \notin late
      /\ \A c \in Source : c # a => tx'[c] = tx[c]
  BY <1>2 DEF TypeOK
<1>5. Live(a)' = {p}
  BY <1>1, <1>3, <1>4 DEF Live
<1>6. Sending'[<<a, FALSE>>] = {NextId}
  BY <1>3, <1>4, <1>5 DEF Sending
<1>7. ASSUME NEW x \in Source \X BOOLEAN, x # <<a, FALSE>>
      PROVE  Sending'[x] = Sending[x]
  <2>1. PICK c \in Source, d \in BOOLEAN : x = <<c, d>>
    OBVIOUS
  <2>2. CASE d
    BY <1>1, <2>1, <2>2 DEF Sending
  <2>3. CASE ~d
    <3>1. c # a
      BY <1>7, <2>1, <2>3
    <3>2. tx'[c] = tx[c] /\ Live(c)' = Live(c)
      BY <1>4, <3>1 DEF Live
    <3>3. /\ Sending[x] = {tx[c][q].id : q \in Live(c)}
          /\ Sending'[x] = {tx'[c][q].id : q \in Live(c)'}
      BY <2>1, <2>3 DEF Sending
    <3> QED BY <3>2, <3>3
  <2> QED BY <2>2, <2>3
<1>8. TypeOK'
  BY StartType
<1>10. ASSUME NEW c \in Source, NEW q \in Live(c)'
       PROVE  \/ q \in Live(c) /\ tx'[c][q].id = tx[c][q].id
              \/ c = a /\ q = p /\ tx'[c][q].id = NextId
  <2>1. CASE c = a
    BY <1>3, <1>4, <1>5, <1>10, <2>1
  <2>2. CASE c # a
    BY <1>4, <1>10, <2>2 DEF Live
  <2> QED BY <2>1, <2>2
<1>9. Begins(a, FALSE, p)
  BY <1>1, <1>3, <1>4, <1>5, <1>6, <1>7, <1>8, <1>10 DEF Begins
<1> QED BY <1>9

LEMMA BamBegins ==
    ASSUME TypeOK, NEW a \in Source, NEW p \in Pgn, StartBam(a, p)
    PROVE  Begins(a, TRUE, p)
<1> DEFINE new == [id |-> NextId, pgn |-> p, next |-> 1]
<1>1. /\ bam' = [bam EXCEPT ![a] = new]
      /\ toRx' = Append(toRx, Cm("CM", a, TRUE, p, NextId))
      /\ started' = Append(started, [sa |-> a, bam |-> TRUE, pgn |-> p])
      /\ UNCHANGED <<rx, tx, toTx, delivered, acked, unheard, astray>>
  BY DEF StartBam, receiver
<1>2. NextId \in Nat /\ new \in Broadcast /\ new # NoTx /\ new.id = NextId
  <2>1. NextId \in Nat
    BY DEF NextId, TypeOK
  <2> QED BY <2>1, NoTxAssumption DEF Broadcast
<1> HIDE DEF new
<1>3. bam'[a] = new /\ \A c \in Source : c # a => bam'[c] = bam[c]
  BY <1>1 DEF TypeOK
<1>4. Sending'[<<a, TRUE>>] = {NextId}
  BY <1>2, <1>3 DEF Sending
<1>5. ASSUME NEW x \in Source \X BOOLEAN, x # <<a, TRUE>>
      PROVE  Sending'[x] = Sending[x]
  <2>1. PICK c \in Source, d \in BOOLEAN : x = <<c, d>>
    OBVIOUS
  <2>2. CASE d
    <3>1. c # a
      BY <1>5, <2>1, <2>2
    <3> QED BY <1>3, <2>1, <2>2, <3>1 DEF Sending
  <2>3. CASE ~d
    BY <1>1, <2>1, <2>3 DEF Sending, Live
  <2> QED BY <2>2, <2>3
<1>6. TypeOK'
  BY StartType
<1>7. \A c \in Source : Live(c)' = Live(c)
  BY <1>1 DEF Live
<1> QED BY <1>1, <1>2, <1>3, <1>4, <1>5, <1>6, <1>7 DEF Begins

-----------------------------------------------------------------------------
(* The order of the bus.                                                   *)

\* Taking a frame off the bus moves the positions down by one.  The announcement that
\* explained a packet may be that frame: then the session is its own, or it opened none.
LEMMA PopExplained ==
    ASSUME NEW bus \in Seq(Frame), bus # <<>>, NEW un, NEW un2, un \subseteq un2,
           NEW x, NEW i \in Nat, NEW j \in Nat, NEW k \in Nat, NEW l \in 1..Len(bus) + 1,
           Explained(bus, un, x, j, i, k, l),
           k = 0 /\ bus[1].type = "CM" /\ Prefix(bus[1]) = x =>
                bus[1].id = i \/ bus[1].id \in un2,
           NEW n, n = IF k = 0 THEN 0 ELSE k - 1
    PROVE  Explained(Tail(bus), un2, x, j, i, n, l - 1)
<1>1. Len(bus) \in Nat /\ \A m \in 1..Len(bus) - 1 : Tail(bus)[m] = bus[m + 1]
  OBVIOUS
<1> DEFINE Herald(m) == bus[m].type = "CM" /\ Prefix(bus[m]) = x /\ bus[m].id = j
<1>2. CASE j = i \/ (j > i /\ j \in un)
  BY <1>2 DEF Explained
<1>3. CASE j > i /\ \E m \in k + 1 .. l - 1 : Herald(m)
  <2>1. PICK m \in k + 1 .. l - 1 : Herald(m)
    BY <1>3
  <2>2. CASE m = 1
    <3>1. k = 0
      BY <2>1, <2>2
    <3> QED BY <1>3, <2>1, <2>2, <3>1 DEF Explained
  <2>3. CASE m # 1
    <3>1. m - 1 \in n + 1 .. (l - 1) - 1 /\ m - 1 \in 1..Len(bus) - 1
      BY <1>1, <2>1, <2>3
    <3>2. Tail(bus)[m - 1] = bus[m]
      BY <1>1, <2>1, <3>1
    <3> QED BY <1>3, <2>1, <3>1, <3>2 DEF Explained
  <2> QED BY <2>2, <2>3
<1> QED BY <1>2, <1>3 DEF Explained

LEMMA PopOrderly ==
    ASSUME NEW bus \in Seq(Frame), bus # <<>>, NEW un, NEW un2, un \subseteq un2,
           NEW ids \in SUBSET Nat, NEW ids2 \in SUBSET ids,
           NEW x, NEW i \in Nat, NEW k \in Nat, Orderly(bus, un, ids, x, i, k),
           k = 0 /\ bus[1].type = "CM" /\ Prefix(bus[1]) = x =>
                bus[1].id = i \/ bus[1].id \in un2,
           NEW n, n = IF k = 0 THEN 0 ELSE k - 1
    PROVE  Orderly(Tail(bus), un2, ids2, x, i, n)
<1>1. /\ Len(bus) \in Nat /\ Len(Tail(bus)) = Len(bus) - 1
      /\ \A m \in 1..Len(bus) - 1 : Tail(bus)[m] = bus[m + 1]
  OBVIOUS
<1>2. ASSUME NEW l \in n + 1 .. Len(Tail(bus)), Prefix(Tail(bus)[l]) = x
      PROVE  /\ Tail(bus)[l].type = "CM" => Tail(bus)[l].id > i
             /\ Tail(bus)[l].type = "DT" =>
                    Explained(Tail(bus), un2, x, Tail(bus)[l].id, i, n, l)
  <2>1. /\ l + 1 \in k + 1 .. Len(bus) /\ Tail(bus)[l] = bus[l + 1]
        /\ l + 1 \in 1..Len(bus) + 1 /\ l + 1 \in 1..Len(bus) /\ (l + 1) - 1 = l
    BY <1>1
  <2>2. /\ bus[l + 1].type = "CM" => bus[l + 1].id > i
        /\ bus[l + 1].type = "DT" => Explained(bus, un, x, bus[l + 1].id, i, k, l + 1)
    BY <1>2, <2>1 DEF Orderly
  <2>3. bus[l + 1].id \in Nat
    <3>1. bus[l + 1] \in Frame
      BY <2>1
    <3> QED BY <3>1, FrameFields
  <2>4. ASSUME bus[l + 1].type = "DT"
        PROVE  Explained(Tail(bus), un2, x, bus[l + 1].id, i, n, (l + 1) - 1)
    BY <2>1, <2>2, <2>3, <2>4, PopExplained
  <2> QED BY <2>1, <2>2, <2>4
<1>3. ASSUME NEW j \in ids2
      PROVE  Explained(Tail(bus), un2, x, j, i, n, Len(Tail(bus)) + 1)
  <2>1. Explained(bus, un, x, j, i, k, Len(bus) + 1)
    BY DEF Orderly
  <2>2. j \in Nat /\ Len(bus) + 1 \in 1..Len(bus) + 1
    BY <1>1
  <2>3. Explained(Tail(bus), un2, x, j, i, n, (Len(bus) + 1) - 1)
    BY <2>1, <2>2, PopExplained
  <2>4. (Len(bus) + 1) - 1 = Len(Tail(bus)) + 1
    BY <1>1
  <2> QED BY <2>3, <2>4
<1> QED BY <1>2, <1>3 DEF Orderly

\* What a source goes on sending is behind the announcement already.
LEMMA PutOrderly ==
    ASSUME NEW bus \in Seq(Frame), NEW more \in Seq(Frame), NEW un,
           NEW ids \in SUBSET Nat, NEW ids2 \in SUBSET ids,
           NEW x, NEW i \in Nat, NEW k \in 0..Len(bus), Orderly(bus, un, ids, x, i, k),
           \A m \in 1..Len(more) : Prefix(more[m]) = x =>
                more[m].type = "ABORT" \/ (more[m].type = "DT" /\ more[m].id \in ids)
    PROVE  Orderly(bus \o more, un, ids2, x, i, k)
<1> DEFINE new == bus \o more
<1>1. /\ Len(bus) \in Nat /\ Len(more) \in Nat /\ Len(new) = Len(bus) + Len(more)
      /\ \A m \in 1..Len(bus) : new[m] = bus[m]
      /\ \A m \in Len(bus) + 1 .. Len(new) : new[m] = more[m - Len(bus)]
                                           /\ m - Len(bus) \in 1..Len(more)
  OBVIOUS
<1> HIDE DEF new
<1>2. ASSUME NEW j, NEW l \in 1..Len(bus) + 1, NEW l2 \in Int, l2 >= l,
             Explained(bus, un, x, j, i, k, l)
      PROVE  Explained(new, un, x, j, i, k, l2)
  <2>1. ASSUME NEW m \in k + 1 .. l - 1
        PROVE  m \in k + 1 .. l2 - 1 /\ new[m] = bus[m]
    <3>1. k \in Nat /\ l \in Int /\ l <= Len(bus) + 1
      BY <1>1
    <3>2. m \in 1..Len(bus) /\ m \in k + 1 .. l2 - 1
      BY <1>1, <1>2, <3>1
    <3> QED BY <1>1, <3>2
  <2> QED BY <1>2, <2>1 DEF Explained
<1>3. ASSUME NEW l \in k + 1 .. Len(new), Prefix(new[l]) = x
      PROVE  /\ new[l].type = "CM" => new[l].id > i
             /\ new[l].type = "DT" => Explained(new, un, x, new[l].id, i, k, l)
  <2>1. CASE l =< Len(bus)
    <3>1. l \in k + 1 .. Len(bus) /\ l \in 1..Len(bus) + 1 /\ new[l] = bus[l]
      BY <1>1, <2>1
    <3>2. /\ bus[l].type = "CM" => bus[l].id > i
          /\ bus[l].type = "DT" => Explained(bus, un, x, bus[l].id, i, k, l)
      BY <1>3, <3>1 DEF Orderly
    <3> QED BY <1>2, <3>1, <3>2
  <2>2. CASE l > Len(bus)
    <3>1. /\ l \in Len(bus) + 1 .. Len(new) /\ new[l] = more[l - Len(bus)]
          /\ l - Len(bus) \in 1..Len(more)
      BY <1>1, <2>2
    <3>2. new[l].type = "ABORT" \/ (new[l].type = "DT" /\ new[l].id \in ids)
      BY <1>3, <3>1
    <3>3. ASSUME new[l].id \in ids
          PROVE  Explained(new, un, x, new[l].id, i, k, l)
      <4>1. Explained(bus, un, x, new[l].id, i, k, Len(bus) + 1)
        BY <3>3 DEF Orderly
      <4>2. Len(bus) + 1 \in 1..Len(bus) + 1 /\ l \in Int /\ l >= Len(bus) + 1
        BY <1>1, <2>2
      <4> QED BY <1>2, <4>1, <4>2
    <3> QED BY <3>2, <3>3
  <2> QED BY <1>1, <2>1, <2>2
<1>4. ASSUME NEW j \in ids2
      PROVE  Explained(new, un, x, j, i, k, Len(new) + 1)
  <2>1. Explained(bus, un, x, j, i, k, Len(bus) + 1)
    BY DEF Orderly
  <2>2. Len(bus) + 1 \in 1..Len(bus) + 1 /\ Len(new) + 1 \in Int /\ Len(new) + 1 >= Len(bus) + 1
    BY <1>1
  <2> QED BY <1>2, <2>1, <2>2
<1>5. Orderly(new, un, ids2, x, i, k)
  BY <1>3, <1>4 DEF Orderly
<1> QED BY <1>5 DEF new

\* The announcement of a later transfer explains its packets.
LEMMA LaterOrderly ==
    ASSUME NEW bus \in Seq(Frame), NEW f \in Frame, NEW un, NEW ids \in SUBSET Nat,
           NEW i \in Nat, NEW k \in 0..Len(bus), Orderly(bus, un, ids, Prefix(f), i, k),
           f.type = "CM", f.id > i
    PROVE  Orderly(Append(bus, f), un, {f.id}, Prefix(f), i, k)
<1> DEFINE new == Append(bus, f)
           x == Prefix(f)
<1>1. /\ Len(bus) \in Nat /\ Len(new) = Len(bus) + 1 /\ new[Len(new)] = f
      /\ \A m \in 1..Len(bus) : new[m] = bus[m]
  OBVIOUS
<1> HIDE DEF new, x
<1>2. ASSUME NEW l \in k + 1 .. Len(new), Prefix(new[l]) = x
      PROVE  /\ new[l].type = "CM" => new[l].id > i
             /\ new[l].type = "DT" => Explained(new, un, x, new[l].id, i, k, l)
  <2>1. CASE l = Len(new)
    BY <1>1, <2>1
  <2>2. CASE l # Len(new)
    <3>1. l \in k + 1 .. Len(bus) /\ new[l] = bus[l]
      BY <1>1, <2>2
    <3>2. /\ bus[l].type = "CM" => bus[l].id > i
          /\ bus[l].type = "DT" => Explained(bus, un, x, bus[l].id, i, k, l)
      BY <1>2, <3>1 DEF Orderly, x
    <3>3. \A m \in k + 1 .. l - 1 : new[m] = bus[m]
      BY <1>1, <3>1
    <3> QED BY <3>1, <3>2, <3>3 DEF Explained
  <2> QED BY <2>1, <2>2
<1>3. Explained(new, un, x, f.id, i, k, Len(new) + 1)
  <2>1. Len(new) \in k + 1 .. (Len(new) + 1) - 1
    BY <1>1
  <2> QED BY <1>1, <2>1 DEF Explained, x
<1>4. Orderly(new, un, {f.id}, x, i, k)
  BY <1>2, <1>3 DEF Orderly
<1> QED BY <1>4 DEF new, x

LEMMA Prefixes ==
    /\ \A f \in Frame : Prefix(f) \in Source \X BOOLEAN /\ f.id \in Nat
    /\ \A s \in Session : Prefix(s) \in Source \X BOOLEAN /\ s.id \in Nat
BY FrameFields DEF Prefix, Session

\* The bus and what is being sent, as sequences and sets of their types.
LEMMA BusTypes ==
    ASSUME TypeOK
    PROVE  /\ toRx \in Seq(Frame) /\ Len(toRx) \in Nat
           /\ \A k \in 1..Len(toRx) : toRx[k] \in Frame
           /\ \A x \in Source \X BOOLEAN : Sending[x] \in SUBSET Nat
<1>1. toRx \in Seq(Frame)
  BY DEF TypeOK, Frame
<1> QED BY <1>1, SendingNat

LEMMA OrderTakes == ASSUME TypeOK, OrderInv, NEW f, Takes(f) PROVE OrderInv'
<1>1. /\ toRx \in Seq(Frame) /\ toRx # <<>> /\ toRx' = Tail(toRx) /\ f = toRx[1]
      /\ \A m \in 1..Len(toRx') : toRx'[m] = toRx[m + 1] /\ m + 1 \in 1..Len(toRx)
      /\ toRx' \in Seq(Frame) /\ \A m \in 1..Len(toRx') : toRx'[m] \in Frame
      /\ f \in Frame /\ 1 \in 1..Len(toRx)
  <2>1. toRx \in Seq(Frame) /\ toRx # <<>> /\ toRx' = Tail(toRx) /\ f = toRx[1]
    BY Taken, BusTypes DEF Takes
  <2>2. toRx' \in Seq(Frame)
    BY <2>1
  <2>3. \A m \in 1..Len(toRx') : toRx'[m] \in Frame
    BY <2>2
  <2> QED BY <2>1, <2>2, <2>3, Taken, TailOf
<1>2. /\ \A x \in Source \X BOOLEAN : Sending[x] \in SUBSET Nat /\ Sending'[x] \in SUBSET Sending[x]
      /\ unheard \subseteq unheard'
  BY BusTypes, SendingShrinks DEF Takes
<1>3. ASSUME NEW t \in rx'
      PROVE  Orderly(toRx', unheard', Sending'[Prefix(t)], Prefix(t), t.id, 0)
  <2>1. CASE \E s \in rx : s.id = t.id /\ Key(s) = Key(t)
    <3>1. PICK s \in rx : s.id = t.id /\ Key(s) = Key(t)
      BY <2>1
    <3>2. Prefix(s) = Prefix(t) /\ Prefix(s) \in Source \X BOOLEAN /\ s.id \in Nat
      BY <3>1, Prefixes DEF Key, Prefix, TypeOK
    <3> DEFINE x == Prefix(t)
    <3>3. Orderly(toRx, unheard, Sending[x], x, t.id, 0) /\ x \in Source \X BOOLEAN
      BY <3>1, <3>2 DEF OrderInv
    <3>4. toRx[1].type = "CM" /\ Prefix(toRx[1]) = x =>
             toRx[1].id = t.id \/ toRx[1].id \in unheard'
      BY <1>1 DEF Takes
    <3> HIDE DEF x
    <3>5. Sending[x] \in SUBSET Nat /\ Sending'[x] \in SUBSET Sending[x]
      BY <1>2, <3>3
    <3>6. Orderly(Tail(toRx), unheard', Sending'[x], x, t.id, 0)
      BY <1>1, <1>2, <3>1, <3>2, <3>3, <3>4, <3>5, PopOrderly
    <3> QED BY <1>1, <3>6 DEF x
  <2>2. CASE f.type = "CM" /\ t = Opened(f)
    <3>1. f \in CmFrame
      BY <1>1, <2>2, FrameFields
    <3>2. Prefix(t) = Prefix(f) /\ t.id = f.id
      BY <2>2, <3>1, OpenedType
    <3> DEFINE x == Prefix(f)
    <3>3. Orderly(toRx, unheard, Sending[x], x, f.id, 1) /\ x \in Source \X BOOLEAN
      BY <1>1, <2>2, Prefixes DEF OrderInv
    <3> HIDE DEF x
    <3>4. Sending[x] \in SUBSET Nat /\ Sending'[x] \in SUBSET Sending[x] /\ f.id \in Nat
      BY <1>1, <1>2, <3>3, Prefixes
    <3>5. 1 \in Nat /\ 1 # 0 /\ 0 = IF 1 = 0 THEN 0 ELSE 1 - 1
      OBVIOUS
    <3>6. Orderly(Tail(toRx), unheard', Sending'[x], x, f.id, 0)
      BY <1>1, <1>2, <3>3, <3>4, <3>5, PopOrderly
    <3> QED BY <1>1, <3>2, <3>6 DEF x
  <2> QED BY <2>1, <2>2 DEF Takes
<1>4. ASSUME NEW m \in 1..Len(toRx'), toRx'[m].type = "CM"
      PROVE  Orderly(toRx', unheard', Sending'[Prefix(toRx'[m])], Prefix(toRx'[m]), toRx'[m].id, m)
  <2> DEFINE g == toRx'[m]
             x == Prefix(g)
  <2>1. g = toRx[m + 1] /\ m + 1 \in 1..Len(toRx) /\ g \in Frame
    BY <1>1
  <2>2. Orderly(toRx, unheard, Sending[x], x, g.id, m + 1) /\ x \in Source \X BOOLEAN
    BY <1>4, <2>1, Prefixes DEF OrderInv
  <2>5. g.id \in Nat
    BY <2>1, Prefixes
  <2> HIDE DEF g, x
  <2>3. Sending[x] \in SUBSET Nat /\ Sending'[x] \in SUBSET Sending[x]
    BY <1>2, <2>2
  <2>6. m + 1 \in Nat /\ m + 1 # 0 /\ m = IF m + 1 = 0 THEN 0 ELSE (m + 1) - 1
    OBVIOUS
  <2>4. Orderly(Tail(toRx), unheard', Sending'[x], x, g.id, m)
    BY <1>1, <1>2, <2>2, <2>3, <2>5, <2>6, PopOrderly
  <2> QED BY <1>1, <2>4 DEF g, x
<1> QED BY <1>3, <1>4 DEF OrderInv

LEMMA OrderContinues == ASSUME TypeOK, OrderInv, Continues PROVE OrderInv'
<1>1. PICK more \in Seq(Frame) : toRx' = toRx \o more /\ \A k \in 1..Len(more) : Follows(more[k])
  BY DEF Continues
<1>2. /\ toRx \in Seq(Frame) /\ Len(toRx) \in Nat /\ unheard' = unheard
      /\ \A x \in Source \X BOOLEAN : Sending[x] \in SUBSET Nat /\ Sending'[x] \in SUBSET Sending[x]
  BY BusTypes, SendingShrinks DEF Continues
<1>3. ASSUME NEW x \in Source \X BOOLEAN, NEW i \in Nat, NEW k \in 0..Len(toRx),
             Orderly(toRx, unheard, Sending[x], x, i, k)
      PROVE  Orderly(toRx', unheard', Sending'[x], x, i, k)
  <2>1. \A m \in 1..Len(more) : Prefix(more[m]) = x =>
           more[m].type = "ABORT" \/ (more[m].type = "DT" /\ more[m].id \in Sending[x])
    BY <1>1 DEF Follows
  <2>2. Sending[x] \in SUBSET Nat /\ Sending'[x] \in SUBSET Sending[x]
    BY <1>2
  <2>3. Orderly(toRx \o more, unheard, Sending'[x], x, i, k)
    BY <1>2, <1>3, <2>1, <2>2, PutOrderly
  <2> QED BY <1>1, <1>2, <2>3
<1>4. ASSUME NEW t \in rx'
      PROVE  Orderly(toRx', unheard', Sending'[Prefix(t)], Prefix(t), t.id, 0)
  <2>1. PICK s \in rx : Aged(s, t)
    BY DEF Continues
  <2>2. /\ Prefix(s) = Prefix(t) /\ s.id = t.id
        /\ Prefix(s) \in Source \X BOOLEAN /\ s.id \in Nat
    BY <2>1, Prefixes DEF Aged, Key, Prefix, TypeOK
  <2>3. Orderly(toRx, unheard, Sending[Prefix(t)], Prefix(t), t.id, 0)
    BY <2>1, <2>2 DEF OrderInv
  <2> QED BY <1>2, <1>3, <2>2, <2>3
<1>5. ASSUME NEW m \in 1..Len(toRx'), toRx'[m].type = "CM"
      PROVE  Orderly(toRx', unheard', Sending'[Prefix(toRx'[m])], Prefix(toRx'[m]), toRx'[m].id, m)
  <2>1. CASE m \in 1..Len(toRx)
    <3> DEFINE g == toRx[m]
    <3>1. toRx'[m] = g /\ g \in Frame
      BY <1>1, <1>2, <2>1, Sent
    <3>2. Orderly(toRx, unheard, Sending[Prefix(g)], Prefix(g), g.id, m)
      BY <1>5, <2>1, <3>1 DEF OrderInv
    <3>3. Prefix(g) \in Source \X BOOLEAN /\ g.id \in Nat /\ m \in 0..Len(toRx)
      BY <2>1, <3>1, Prefixes
    <3>4. Orderly(toRx', unheard', Sending'[Prefix(g)], Prefix(g), g.id, m)
      BY <1>3, <3>2, <3>3
    <3> QED BY <3>1, <3>4
  <2>2. CASE m \notin 1..Len(toRx)
    <3>1. toRx'[m] = more[m - Len(toRx)] /\ m - Len(toRx) \in 1..Len(more)
      BY <1>1, <2>2, Sent
    <3> QED BY <1>1, <1>5, <3>1 DEF Follows
  <2> QED BY <2>1, <2>2
<1> QED BY <1>4, <1>5 DEF OrderInv

LEMMA OrderBegins ==
    ASSUME TypeOK, OrderInv, NamesInv, NEW a \in Source, NEW b \in BOOLEAN, NEW p \in Pgn,
           Begins(a, b, p)
    PROVE  OrderInv'
<1> DEFINE f == Cm("CM", a, b, p, NextId)
<1>1. /\ f \in Frame /\ f.type = "CM" /\ f.id = NextId /\ Prefix(f) = <<a, b>>
      /\ Len(started) \in Nat /\ NextId = Len(started) + 1
  <2>1. Len(started) \in Nat /\ NextId = Len(started) + 1
    BY DEF TypeOK, NextId
  <2> QED BY <2>1, FramesSent DEF Cm, Prefix
<1>2. /\ toRx' = Append(toRx, f) /\ UNCHANGED <<rx, unheard>>
      /\ Sending'[<<a, b>>] = {f.id}
      /\ \A x \in Source \X BOOLEAN : x # <<a, b>> => Sending'[x] \subseteq Sending[x]
  BY <1>1 DEF Begins
<1> HIDE DEF f
<1>3. /\ toRx \in Seq(Frame) /\ Len(toRx) \in Nat
      /\ \A x \in Source \X BOOLEAN : Sending[x] \in SUBSET Nat
      /\ toRx' = toRx \o <<f>> /\ <<f>> \in Seq(Frame)
      /\ Len(toRx') = Len(toRx) + 1 /\ toRx'[Len(toRx) + 1] = f
      /\ \A k \in 1..Len(toRx) : toRx'[k] = toRx[k]
  <2>1. toRx \in Seq(Frame)
    BY BusTypes
  <2> QED BY <1>1, <1>2, <2>1, BusTypes, SentOne
<1>4. ASSUME NEW x \in Source \X BOOLEAN, NEW i \in 1..Len(started), NEW k \in 0..Len(toRx),
             Orderly(toRx, unheard, Sending[x], x, i, k)
      PROVE  Orderly(toRx', unheard', Sending'[x], x, i, k)
  <2>1. CASE x = <<a, b>>
    <3>1. f.id > i /\ i \in Nat /\ Sending[x] \in SUBSET Nat
      BY <1>1, <1>3
    <3>2. Orderly(Append(toRx, f), unheard, {f.id}, Prefix(f), i, k)
      BY <1>1, <1>3, <1>4, <2>1, <3>1, LaterOrderly
    <3> QED BY <1>1, <1>2, <2>1, <3>2
  <2>2. CASE x # <<a, b>>
    <3>1. \A m \in 1..Len(<<f>>) : Prefix(<<f>>[m]) # x
      BY <1>1, <2>2
    <3>2. Sending[x] \in SUBSET Nat /\ Sending'[x] \in SUBSET Sending[x] /\ i \in Nat
      BY <1>2, <1>3, <2>2
    <3>3. Orderly(toRx \o <<f>>, unheard, Sending'[x], x, i, k)
      BY <1>3, <1>4, <3>1, <3>2, PutOrderly
    <3> QED BY <1>2, <1>3, <3>3
  <2> QED BY <2>1, <2>2
<1>5. ASSUME NEW s \in rx'
      PROVE  Orderly(toRx', unheard', Sending'[Prefix(s)], Prefix(s), s.id, 0)
  <2>1. s \in rx /\ Prefix(s) \in Source \X BOOLEAN /\ s.id \in 1..Len(started)
    BY <1>2, Prefixes DEF TypeOK, NamesInv
  <2>2. Orderly(toRx, unheard, Sending[Prefix(s)], Prefix(s), s.id, 0) /\ 0 \in 0..Len(toRx)
    BY <1>3, <2>1 DEF OrderInv
  <2> QED BY <1>4, <2>1, <2>2
<1>6. ASSUME NEW m \in 1..Len(toRx'), toRx'[m].type = "CM"
      PROVE  Orderly(toRx', unheard', Sending'[Prefix(toRx'[m])], Prefix(toRx'[m]), toRx'[m].id, m)
  <2>1. CASE m \in 1..Len(toRx)
    <3> DEFINE g == toRx[m]
    <3>1. toRx'[m] = g /\ g \in Frame
      BY <1>3, <2>1
    <3>2. Orderly(toRx, unheard, Sending[Prefix(g)], Prefix(g), g.id, m)
      BY <1>6, <2>1, <3>1 DEF OrderInv
    <3>3. Prefix(g) \in Source \X BOOLEAN /\ g.id \in 1..Len(started) /\ m \in 0..Len(toRx)
      <4>1. g.id =< Len(started) /\ g.id > 0 /\ g.id \in Nat
        BY <1>6, <2>1, <3>1, Prefixes DEF NamesInv
      <4> QED BY <1>1, <2>1, <3>1, <4>1, Prefixes
    <3>4. Orderly(toRx', unheard', Sending'[Prefix(g)], Prefix(g), g.id, m)
      BY <1>4, <3>2, <3>3
    <3> QED BY <3>1, <3>4
  <2>2. CASE m = Len(toRx) + 1
    <3>1. toRx'[m] = f /\ Sending'[Prefix(f)] = {f.id} /\ m = Len(toRx')
      BY <1>1, <1>2, <1>3, <2>2
    <3>2. Orderly(toRx', unheard', {f.id}, Prefix(f), f.id, Len(toRx'))
      BY <1>3 DEF Orderly, Explained
    <3> QED BY <3>1, <3>2
  <2> QED BY <1>3, <2>1, <2>2
<1> QED BY <1>5, <1>6 DEF OrderInv

-----------------------------------------------------------------------------
(* The numbers of the transfers.                                           *)

LEMMA KeptNames ==
    ASSUME NamesInv, KeepsTransfers, NEW a \in Source
    PROVE  /\ bam'[a] # NoTx => bam'[a].id \in 1..Len(started)
           /\ \A p \in Live(a)' :
                 /\ tx'[a][p].id \in 1..Len(started)
                 /\ started[tx'[a][p].id] = [sa |-> a, bam |-> FALSE, pgn |-> p]
<1>1. bam'[a] # NoTx => bam[a] # NoTx /\ bam'[a].id = bam[a].id
  BY DEF KeepsTransfers
<1>2. \A p \in Live(a)' : p \in Live(a) /\ tx'[a][p].id = tx[a][p].id
  BY DEF KeepsTransfers, Live
<1> QED BY <1>1, <1>2 DEF NamesInv

LEMMA NamesTakes == ASSUME TypeOK, NamesInv, NEW f, Takes(f) PROVE NamesInv'
<1>1. /\ UNCHANGED <<started, acked>> /\ f \in Frame /\ f = toRx[1] /\ 1 \in 1..Len(toRx)
      /\ \A k \in 1..Len(toRx') : toRx'[k] = toRx[k + 1] /\ k + 1 \in 1..Len(toRx)
  BY Taken, TailOf, BusTypes DEF Takes
<1>2. \A s \in rx' : s.id \in 1..Len(started)
  <2>1. ASSUME f.type = "CM"
        PROVE  Opened(f).id \in 1..Len(started)
    <3>1. f.id > 0 /\ f.id =< Len(started) /\ f.id \in Nat /\ Len(started) \in Nat
      <4>1. f.id > 0 /\ f.id =< Len(started)
        BY <1>1, <2>1 DEF NamesInv
      <4>2. f.id \in Nat /\ Len(started) \in Nat
        BY <1>1, FrameFields DEF TypeOK
      <4> QED BY <4>1, <4>2
    <3>2. Opened(f).id = f.id
      BY <1>1, <2>1, FrameFields, OpenedType
    <3> QED BY <3>1, <3>2
  <2> QED BY <2>1 DEF Takes, NamesInv
<1>3. \A a \in Source :
         /\ bam'[a] # NoTx => bam'[a].id \in 1..Len(started)
         /\ \A p \in Live(a)' :
               /\ tx'[a][p].id \in 1..Len(started)
               /\ started[tx'[a][p].id] = [sa |-> a, bam |-> FALSE, pgn |-> p]
  <2>1. KeepsTransfers
    BY DEF Takes
  <2> QED BY <2>1, KeptNames
<1>4. \A k \in 1..Len(toRx') :
         /\ toRx'[k].id =< Len(started)
         /\ toRx'[k].type = "CM" =>
               /\ toRx'[k].id > 0
               /\ started[toRx'[k].id] = [sa |-> toRx'[k].sa, bam |-> toRx'[k].bam,
                                          pgn |-> toRx'[k].pgn]
  <2> SUFFICES ASSUME NEW k \in 1..Len(toRx')
               PROVE  /\ toRx'[k].id =< Len(started)
                      /\ toRx'[k].type = "CM" =>
                            /\ toRx'[k].id > 0
                            /\ started[toRx'[k].id]
                                 = [sa |-> toRx'[k].sa, bam |-> toRx'[k].bam, pgn |-> toRx'[k].pgn]
    OBVIOUS
  <2>1. PICK j \in 1..Len(toRx) : toRx'[k] = toRx[j]
    BY <1>1
  <2>2. /\ toRx[j].id =< Len(started)
        /\ toRx[j].type = "CM" =>
              /\ toRx[j].id > 0
              /\ started[toRx[j].id]
                   = [sa |-> toRx[j].sa, bam |-> toRx[j].bam, pgn |-> toRx[j].pgn]
    BY <2>1 DEF NamesInv
  <2> QED BY <2>1, <2>2
<1> QED BY <1>1, <1>2, <1>3, <1>4 DEF NamesInv

LEMMA NamesContinues == ASSUME TypeOK, NamesInv, Continues PROVE NamesInv'
<1>1. PICK more \in Seq(Frame) : toRx' = toRx \o more /\ \A k \in 1..Len(more) : Follows(more[k])
  BY DEF Continues
<1>2. started' = started /\ Len(started) \in Nat
  BY DEF Continues, TypeOK
<1>3. \A s \in rx' : s.id \in 1..Len(started)
  BY DEF Continues, Aged, NamesInv
<1>4. \A a \in Source :
         /\ bam'[a] # NoTx => bam'[a].id \in 1..Len(started)
         /\ \A p \in Live(a)' :
               /\ tx'[a][p].id \in 1..Len(started)
               /\ started[tx'[a][p].id] = [sa |-> a, bam |-> FALSE, pgn |-> p]
  <2>1. KeepsTransfers
    BY DEF Continues
  <2> QED BY <2>1, KeptNames
<1>5. \A x \in Source \X BOOLEAN : Sending[x] \subseteq 1..Len(started)
  <2> TAKE x \in Source \X BOOLEAN
  <2>1. PICK a \in Source, b \in BOOLEAN : x = <<a, b>>
    OBVIOUS
  <2>2. /\ \A p \in Live(a) : tx[a][p].id \in 1..Len(started)
        /\ bam[a] # NoTx => bam[a].id \in 1..Len(started)
    BY DEF NamesInv
  <2> QED BY <2>1, <2>2 DEF Sending
<1>6. \A k \in 1..Len(toRx') :
         /\ toRx'[k].id =< Len(started)
         /\ toRx'[k].type = "CM" =>
               /\ toRx'[k].id > 0
               /\ started[toRx'[k].id] = [sa |-> toRx'[k].sa, bam |-> toRx'[k].bam,
                                          pgn |-> toRx'[k].pgn]
  <2> TAKE k \in 1..Len(toRx')
  <2>1. CASE k \in 1..Len(toRx)
    BY <1>1, <2>1, Sent DEF NamesInv
  <2>2. CASE k \notin 1..Len(toRx)
    <3>1. toRx'[k] = more[k - Len(toRx)] /\ k - Len(toRx) \in 1..Len(more)
      BY <1>1, <2>2, Sent
    <3> DEFINE g == more[k - Len(toRx)]
    <3>2. g \in Frame /\ Follows(g)
      BY <1>1, <3>1
    <3> HIDE DEF g
    <3>3. g.type # "CM" /\ g.id =< Len(started)
      BY <1>2, <1>5, <3>2, Prefixes DEF Follows
    <3> QED BY <3>1, <3>3 DEF g
  <2> QED BY <2>1, <2>2
<1>7. acked' \subseteq 1..Len(started)
  <2>1. \A c \in Source : \A p \in Live(c) : tx[c][p].id \in 1..Len(started)
    BY DEF NamesInv
  <2>2. \A i \in acked' \ acked : \E c \in Source : \E p \in Live(c) : i = tx[c][p].id
    BY DEF Continues, NewAcks
  <2>3. acked \subseteq 1..Len(started)
    BY DEF NamesInv
  <2> SUFFICES ASSUME NEW i \in acked' PROVE i \in 1..Len(started)
    BY <1>1
  <2>4. CASE i \in acked
    BY <2>3, <2>4
  <2>5. CASE i \notin acked
    <3>1. PICK c \in Source : \E p \in Live(c) : i = tx[c][p].id
      BY <2>2, <2>5
    <3> QED BY <2>1, <3>1
  <2> QED BY <2>4, <2>5
<1> QED BY <1>2, <1>3, <1>4, <1>6, <1>7 DEF NamesInv

LEMMA NamesBegins ==
    ASSUME TypeOK, NamesInv, NEW a \in Source, NEW b \in BOOLEAN, NEW p \in Pgn, Begins(a, b, p)
    PROVE  NamesInv'
<1> DEFINE new == [sa |-> a, bam |-> b, pgn |-> p]
           f == Cm("CM", a, b, p, NextId)
<1>1. /\ NextId = Len(started) + 1 /\ Len(started) \in Nat /\ Len(started') = NextId
      /\ started'[NextId] = new
      /\ \A i \in 1..Len(started) : started'[i] = started[i] /\ i \in 1..NextId
      /\ NextId \in 1..NextId
  <2>1. started \in Seq([sa : Source, bam : BOOLEAN, pgn : Pgn]) /\ started' = Append(started, new)
    BY DEF Begins, TypeOK
  <2> HIDE DEF new
  <2> QED BY <2>1 DEF NextId
<1>2. /\ f \in Frame /\ f.type = "CM" /\ f.id = NextId
      /\ f.sa = a /\ f.bam = b /\ f.pgn = p
  <2>1. NextId \in Nat
    BY <1>1
  <2> QED BY <2>1, FramesSent DEF Cm
<1>3. toRx' = Append(toRx, f) /\ UNCHANGED <<rx, acked>>
  BY DEF Begins
<1> HIDE DEF f
<1>4. /\ toRx \in Seq(Frame) /\ Len(toRx) \in Nat
      /\ Len(toRx') = Len(toRx) + 1 /\ toRx'[Len(toRx) + 1] = f
      /\ \A k \in 1..Len(toRx) : toRx'[k] = toRx[k]
  <2>1. toRx \in Seq(Frame)
    BY BusTypes
  <2> QED BY <1>2, <1>3, <2>1
<1>5. \A s \in rx' : s.id \in 1..Len(started')
  BY <1>1, <1>3 DEF NamesInv
<1>6. \A k \in 1..Len(toRx') :
         /\ toRx'[k].id =< Len(started')
         /\ toRx'[k].type = "CM" =>
               /\ toRx'[k].id > 0
               /\ started'[toRx'[k].id] = [sa |-> toRx'[k].sa, bam |-> toRx'[k].bam,
                                           pgn |-> toRx'[k].pgn]
  <2> TAKE k \in 1..Len(toRx')
  <2>1. CASE k \in 1..Len(toRx)
    <3>1. toRx'[k] = toRx[k] /\ toRx[k] \in Frame /\ toRx[k].id \in Nat
      BY <1>4, <2>1, BusTypes, Prefixes
    <3>2. toRx[k].id =< Len(started)
      BY <2>1 DEF NamesInv
    <3>3. toRx[k].type = "CM" =>
             /\ toRx[k].id \in 1..Len(started)
             /\ started[toRx[k].id] = [sa |-> toRx[k].sa, bam |-> toRx[k].bam,
                                       pgn |-> toRx[k].pgn]
      BY <1>1, <2>1, <3>1, <3>2 DEF NamesInv
    <3> QED BY <1>1, <3>1, <3>2, <3>3
  <2>2. CASE k = Len(toRx) + 1
    BY <1>1, <1>2, <1>4, <2>2
  <2> QED BY <1>4, <2>1, <2>2
<1>7. ASSUME NEW c \in Source
      PROVE  /\ bam'[c] # NoTx => bam'[c].id \in 1..Len(started')
             /\ \A q \in Live(c)' :
                   /\ tx'[c][q].id \in 1..Len(started')
                   /\ started'[tx'[c][q].id] = [sa |-> c, bam |-> FALSE, pgn |-> q]
  <2>1. bam'[c] # NoTx => bam'[c].id \in 1..Len(started')
    BY <1>1 DEF Begins, NamesInv
  <2>2. ASSUME NEW q \in Live(c)'
        PROVE  /\ tx'[c][q].id \in 1..Len(started')
               /\ started'[tx'[c][q].id] = [sa |-> c, bam |-> FALSE, pgn |-> q]
    <3>1. CASE q \in Live(c) /\ tx'[c][q].id = tx[c][q].id
      <4>1. /\ tx[c][q].id \in 1..Len(started)
            /\ started[tx[c][q].id] = [sa |-> c, bam |-> FALSE, pgn |-> q]
        BY <3>1 DEF NamesInv
      <4> QED BY <1>1, <3>1, <4>1
    <3>2. CASE b = FALSE /\ c = a /\ q = p /\ tx'[c][q].id = NextId
      BY <1>1, <3>2
    <3> QED BY <2>2, <3>1, <3>2 DEF Begins
  <2> QED BY <2>1, <2>2
<1>8. acked' \subseteq 1..Len(started')
  BY <1>1, <1>3 DEF NamesInv
<1> QED BY <1>5, <1>6, <1>7, <1>8 DEF NamesInv

-----------------------------------------------------------------------------
(* The steps of the specification, for sources with one transfer at a time. *)

LEMMA Steps ==
    ASSUME TypeOK, ~Parallel, OneSessionPerPrefix', [Next]_vars
    PROVE  \/ (Receives \/ LoseFrame) /\ Takes(Head(toRx))
           \/ Continues
           \/ \E a \in Source, b \in BOOLEAN, p \in Pgn : Begins(a, b, p)
<1>1. CASE Receives \/ LoseFrame
  BY <1>1, ReceivesTakes
<1>2. CASE Tick
  BY <1>2, TickContinues
<1>3. CASE UNCHANGED vars
  BY <1>3, StutterContinues
<1>4. ASSUME NEW a \in Source, TakeControl(a) \/ BamPacket(a) \/ LoseAnswer(a)
      PROVE  Continues
  BY <1>4, ControlContinues, BamContinues, AnswersContinue
<1>5. ASSUME NEW a \in Source, NEW p \in Pgn, StartTransfer(a, p) \/ StartBam(a, p)
      PROVE  \E b \in BOOLEAN : Begins(a, b, p)
  BY <1>5, TransferBegins, BamBegins
<1>6. ASSUME NEW a \in Source, NEW p \in Pgn,
             DrainPending(a, p) \/ PollTimeouts(a, p) \/ \E g \in Stray : ForeignGrant(a, p, g)
      PROVE  Continues
  BY <1>6, DrainContinues, PollContinues, AnswersContinue
<1> QED BY <1>1, <1>2, <1>3, <1>4, <1>5, <1>6 DEF Next

LEMMA OrderStep ==
    ASSUME TypeOK, ~Parallel, OneSessionPerPrefix', OrderInv, NamesInv, [Next]_vars
    PROVE  TypeOK' /\ OrderInv' /\ NamesInv'
<1>1. CASE Takes(Head(toRx))
  BY <1>1, OrderTakes, NamesTakes DEF Takes
<1>2. CASE Continues
  BY <1>2, OrderContinues, NamesContinues DEF Continues
<1>3. CASE \E a \in Source, b \in BOOLEAN, p \in Pgn : Begins(a, b, p)
  <2>1. PICK a \in Source, b \in BOOLEAN, p \in Pgn : Begins(a, b, p)
    BY <1>3
  <2>2. TypeOK'
    BY <2>1 DEF Begins
  <2>3. OrderInv' /\ NamesInv'
    BY <2>1, OrderBegins, NamesBegins
  <2> QED BY <2>2, <2>3
<1> QED BY <1>1, <1>2, <1>3, Steps

LEMMA OrderStart == Init => OrderInv /\ NamesInv
<1> SUFFICES ASSUME Init PROVE OrderInv /\ NamesInv
  OBVIOUS
<1>1. /\ rx = {} /\ toRx = <<>> /\ acked = {}
      /\ tx = [a \in Source |-> [p \in Pgn |-> NoTx]] /\ bam = [a \in Source |-> NoTx]
  BY DEF Init
<1>2. \A k \in 1..Len(toRx) : FALSE
  BY <1>1
<1>3. \A a \in Source : bam[a] = NoTx /\ Live(a) = {}
  BY <1>1 DEF Live
<1> QED BY <1>1, <1>2, <1>3 DEF OrderInv, NamesInv

-----------------------------------------------------------------------------
(* What a session holds.                                                   *)

LEMMA PiecesKept ==
    ASSUME PiecesInv, unheard \subseteq unheard', delivered' = delivered,
           \A t \in rx' : \/ \E s \in rx : /\ s.id = t.id /\ s.pgn = t.pgn /\ s.next = t.next
                                         /\ s.pieces = t.pieces
                          \/ t.next = 1 /\ t.pieces = {} /\ t.pgn \in Pgn
    PROVE  PiecesInv'
<1>1. ASSUME NEW t \in rx'
      PROVE  /\ t.next \in 1..Packets[t.pgn]
             /\ {x[2] : x \in t.pieces} = 1..t.next - 1
             /\ \A x \in t.pieces : x[1] = t.id \/ x[1] \in unheard'
  <2>1. CASE \E s \in rx : /\ s.id = t.id /\ s.pgn = t.pgn /\ s.next = t.next
                           /\ s.pieces = t.pieces
    <3>1. PICK s \in rx : /\ s.id = t.id /\ s.pgn = t.pgn /\ s.next = t.next
                         /\ s.pieces = t.pieces
      BY <2>1
    <3>2. /\ s.next \in 1..Packets[s.pgn]
          /\ {x[2] : x \in s.pieces} = 1..s.next - 1
          /\ \A x \in s.pieces : x[1] = s.id \/ x[1] \in unheard
      BY DEF PiecesInv
    <3> QED BY <3>1, <3>2
  <2>2. CASE t.next = 1 /\ t.pieces = {} /\ t.pgn \in Pgn
    <3>1. Packets[t.pgn] \in Nat \ {0}
      BY <2>2, Limits
    <3> QED BY <2>2, <3>1
  <2> QED BY <2>1, <2>2
<1>2. WholeTransfers'
  BY DEF PiecesInv, WholeTransfers
<1> QED BY <1>1, <1>2 DEF PiecesInv

\* What the taking of a packet does, for the session it is for.
Grown(s, f) == [s EXCEPT !.next = @ + 1, !.age = 0, !.pieces = @ \cup {<<f.id, f.seq>>}]

LEMMA GrownFields ==
    ASSUME NEW s \in Session, NEW f
    PROVE  /\ Grown(s, f).id = s.id /\ Key(Grown(s, f)) = Key(s) /\ Grown(s, f).pgn = s.pgn
           /\ Prefix(Grown(s, f)) = Prefix(s)
           /\ Grown(s, f).next = s.next + 1
           /\ Grown(s, f).pieces = s.pieces \cup {<<f.id, f.seq>>}
           /\ s.next \in Nat /\ s.pgn \in Pgn /\ s.id \in Nat
BY DEF Grown, Session, Key, Prefix

TakesPacket(s, f) ==
    /\ Prefix(s) = Prefix(f) /\ s.next = f.seq /\ f.type = "DT"
    /\ \/ /\ s.next + 1 > Packets[s.pgn]
          /\ rx' = rx \ {s}
          /\ delivered' = delivered \cup {[pgn |-> s.pgn, id |-> s.id,
                                           pieces |-> Grown(s, f).pieces]}
          /\ Tell(f.sa, IF s.bam THEN <<>> ELSE <<Answer("ACK", s.pgn, 0, 0)>>)
       \/ /\ ~(s.next + 1 > Packets[s.pgn])
          /\ rx' = (rx \ {s}) \cup {Grown(s, f)}
          /\ delivered' = delivered
          /\ \E m, n : Tell(f.sa, <<>>) \/ Tell(f.sa, <<Answer("CTS", s.pgn, m, n)>>)

LEMMA PacketParts ==
    ASSUME TypeOK, DataTaken
    PROVE  unheard' = unheard /\ \E s \in rx : TakesPacket(s, Head(toRx))
<1> DEFINE f == Head(toRx)
<1>1. f.type = "DT" /\ unheard' = unheard
  BY DEF DataTaken, Stays
<1> HIDE DEF f
<1>2. PICK s \in rx :
        LET left == Packets[s.pgn] - s.next
        IN  /\ Owners(f) = {s} /\ InOrder(s, f)
            /\ \/ /\ IsWhole(Grown(s, f))
                  /\ Drops({s})
                  /\ delivered' = delivered \cup {[pgn |-> s.pgn, id |-> s.id,
                                                   pieces |-> Grown(s, f).pieces]}
                  /\ Tell(f.sa, IF s.bam THEN <<>> ELSE <<Answer("ACK", s.pgn, 0, 0)>>)
               \/ /\ ~IsWhole(Grown(s, f))
                  /\ rx' = (rx \ {s}) \cup {Grown(s, f)}
                  /\ delivered' = delivered
                  /\ Tell(f.sa, IF s.bam \/ s.next % Window # 0 THEN <<>>
                                ELSE <<Answer("CTS", s.pgn, Least(Least(Window, left), Cap),
                                              Grown(s, f).next)>>)
  BY Zenon DEF DataTaken, Grown, f
<1>3. s \in Session
  BY DEF TypeOK
<1>4. IsWhole(Grown(s, f)) <=> s.next + 1 > Packets[s.pgn]
  BY <1>3, GrownFields DEF IsWhole
<1>5. Prefix(s) = Prefix(f) /\ s.next = f.seq
  <2>1. s \in Owners(f)
    BY <1>2
  <2> QED BY <1>2, <2>1 DEF Owners, InOrder
<1>6. TakesPacket(s, f)
  BY <1>1, <1>2, <1>4, <1>5, Zenon DEF TakesPacket, Drops
<1> QED BY <1>1, <1>6 DEF f

\* A packet that reaches a session is of its transfer, or of one that opened none.
LEMMA PacketIsOwn ==
    ASSUME TypeOK, OrderInv, toRx # <<>>, NEW s \in rx, TakesPacket(s, Head(toRx))
    PROVE  LET f == Head(toRx) IN
           f.id = s.id \/ (f.id > s.id /\ f.id \in unheard)
<1>1. Head(toRx) = toRx[1] /\ 1 \in 0 + 1 .. Len(toRx)
  BY Taken
<1>2. Orderly(toRx, unheard, Sending[Prefix(s)], Prefix(s), s.id, 0)
  BY DEF OrderInv
<1>3. Prefix(toRx[1]) = Prefix(s) /\ toRx[1].type = "DT"
  BY <1>1 DEF TakesPacket
<1>4. Explained(toRx, unheard, Prefix(s), toRx[1].id, s.id, 0, 1)
  BY <1>1, <1>2, <1>3 DEF Orderly
<1> QED BY <1>1, <1>4 DEF Explained

\* The packets of a session, with one more.
LEMMA PiecesGrow ==
    ASSUME TypeOK, PiecesInv, OrderInv, toRx # <<>>, NEW s \in rx, TakesPacket(s, Head(toRx))
    PROVE  LET t == Grown(s, Head(toRx)) IN
           /\ {x[2] : x \in t.pieces} = 1..s.next
           /\ \A x \in t.pieces : x[1] = s.id \/ x[1] \in unheard
           /\ s.next \in 1..Packets[s.pgn]
<1> DEFINE f == Head(toRx)
<1>1. s \in Session /\ s.next \in Nat
  BY GrownFields DEF TypeOK
<1>2. /\ s.next \in 1..Packets[s.pgn]
      /\ {x[2] : x \in s.pieces} = 1..s.next - 1
      /\ \A x \in s.pieces : x[1] = s.id \/ x[1] \in unheard
  BY DEF PiecesInv
<1>3. f.seq = s.next /\ (f.id = s.id \/ f.id \in unheard)
  BY PacketIsOwn DEF TakesPacket
<1> HIDE DEF f
<1>4. Grown(s, f).pieces = s.pieces \cup {<<f.id, f.seq>>}
  BY <1>1, GrownFields
<1>5. {x[2] : x \in Grown(s, f).pieces} = {x[2] : x \in s.pieces} \cup {s.next}
  <2> DEFINE y == <<f.id, f.seq>>
  <2>1. y[2] = s.next
    BY <1>3
  <2> HIDE DEF y
  <2>2. {x[2] : x \in s.pieces \cup {y}} = {x[2] : x \in s.pieces} \cup {y[2]}
    OBVIOUS
  <2> QED BY <1>4, <2>1, <2>2 DEF y
<1>6. (1..s.next - 1) \cup {s.next} = 1..s.next
  BY <1>2
<1>7. \A x \in Grown(s, f).pieces : x[1] = s.id \/ x[1] \in unheard
  BY <1>2, <1>3, <1>4
<1> QED BY <1>2, <1>5, <1>6, <1>7 DEF f

LEMMA PiecesTaken == ASSUME TypeOK, PiecesInv, OrderInv, DataTaken PROVE PiecesInv'
<1> DEFINE f == Head(toRx)
<1>1. PICK s \in rx : TakesPacket(s, f)
  BY PacketParts
<1>2. unheard' = unheard /\ toRx # <<>>
  BY PacketParts DEF DataTaken
<1>3. /\ {x[2] : x \in Grown(s, f).pieces} = 1..s.next
      /\ \A x \in Grown(s, f).pieces : x[1] = s.id \/ x[1] \in unheard
      /\ s.next \in 1..Packets[s.pgn]
  BY <1>1, <1>2, PiecesGrow
<1>4. /\ Grown(s, f).id = s.id /\ Grown(s, f).pgn = s.pgn /\ Grown(s, f).next = s.next + 1
      /\ s.pgn \in Pgn /\ Packets[s.pgn] \in Nat /\ s.next \in Nat
  BY GrownFields, Limits DEF TypeOK
<1> HIDE DEF f
<1>5. /\ \A t \in rx : /\ t.next \in 1..Packets[t.pgn]
                       /\ {x[2] : x \in t.pieces} = 1..t.next - 1
                       /\ \A x \in t.pieces : x[1] = t.id \/ x[1] \in unheard
      /\ WholeTransfers
  BY DEF PiecesInv
<1>6. CASE s.next + 1 > Packets[s.pgn]
  <2> DEFINE d == [pgn |-> s.pgn, id |-> s.id, pieces |-> Grown(s, f).pieces]
  <2>1. rx' = rx \ {s} /\ delivered' = delivered \cup {d}
    BY <1>1, <1>6 DEF TakesPacket
  <2>2. s.next = Packets[s.pgn]
    BY <1>3, <1>4, <1>6
  <2>3. /\ {x[2] : x \in d.pieces} = 1..Packets[d.pgn]
        /\ {x[1] : x \in d.pieces} \ {d.id} \subseteq unheard
    BY <1>3, <2>2
  <2> HIDE DEF d
  <2>4. WholeTransfers'
    BY <1>2, <1>5, <2>1, <2>3 DEF WholeTransfers
  <2> QED BY <1>2, <1>5, <2>1, <2>4 DEF PiecesInv
<1>7. CASE ~(s.next + 1 > Packets[s.pgn])
  <2>1. rx' = (rx \ {s}) \cup {Grown(s, f)} /\ delivered' = delivered
    BY <1>1, <1>7 DEF TakesPacket
  <2>2. /\ Grown(s, f).next \in 1..Packets[Grown(s, f).pgn]
        /\ {x[2] : x \in Grown(s, f).pieces} = 1..Grown(s, f).next - 1
        /\ \A x \in Grown(s, f).pieces : x[1] = Grown(s, f).id \/ x[1] \in unheard
    <3>1. (s.next + 1) - 1 = s.next /\ s.next + 1 \in 1..Packets[s.pgn]
      BY <1>3, <1>4, <1>7
    <3> QED BY <1>3, <1>4, <3>1
  <2>3. WholeTransfers'
    BY <1>2, <1>5, <2>1 DEF WholeTransfers
  <2> QED BY <1>2, <1>5, <2>1, <2>2, <2>3 DEF PiecesInv
<1> QED BY <1>6, <1>7

LEMMA PiecesStep ==
    ASSUME TypeOK, ~Parallel, OneSessionPerPrefix', OrderInv, PiecesInv, [Next]_vars
    PROVE  PiecesInv'
<1>1. CASE Receives \/ LoseFrame
  <2>1. CASE DataTaken
    BY <2>1, PiecesTaken
  <2>2. CASE ~DataTaken
    <3>1. Takes(Head(toRx))
      BY <1>1, ReceivesTakes
    <3>2. delivered' = delivered
      BY <1>1, <2>2 DEF Receives, Announced, PeerAborts, DataIgnored, DataRefused, LoseFrame
    <3>3. \A t \in rx' : t \in rx \/ (Head(toRx).type = "CM" /\ t = Opened(Head(toRx)))
      <4>1. CASE Announced
        BY <4>1, AnnouncedRows
      <4>2. CASE PeerAborts \/ DataIgnored \/ DataRefused \/ LoseFrame
        BY <4>2 DEF PeerAborts, DataIgnored, DataRefused, LoseFrame, Drops, receiver
      <4> QED BY <1>1, <2>2, <4>1, <4>2 DEF Receives
    <3>4. Head(toRx).type = "CM" =>
             /\ Opened(Head(toRx)).next = 1 /\ Opened(Head(toRx)).pieces = {}
             /\ Opened(Head(toRx)).pgn \in Pgn
      <4>1. Head(toRx) \in Frame
        BY <3>1, Taken DEF Takes
      <4> QED BY <4>1, FrameFields, OpenedType DEF Session
    <3> QED BY <3>1, <3>2, <3>3, <3>4, PiecesKept DEF Takes
  <2> QED BY <2>1, <2>2
<1>2. CASE Continues
  <2>1. \A t \in rx' : \E s \in rx : Aged(s, t)
    BY <1>2 DEF Continues
  <2>2. \A s, t : Aged(s, t) => s.id = t.id /\ s.pgn = t.pgn /\ s.next = t.next
                               /\ s.pieces = t.pieces
    BY DEF Aged, Key
  <2> QED BY <1>2, <2>1, <2>2, PiecesKept DEF Continues
<1>3. CASE \E a \in Source, b \in BOOLEAN, p \in Pgn : Begins(a, b, p)
  <2>1. UNCHANGED <<rx, delivered, unheard>>
    BY <1>3 DEF Begins
  <2> QED BY <2>1, PiecesKept
<1> QED BY <1>1, <1>2, <1>3, Steps

LEMMA PiecesStart == Init => PiecesInv
BY DEF Init, PiecesInv, WholeTransfers

\* A completed message is whole, for sources with one transfer at a time: a packet of
\* another transfer is taken for one of the message only when that transfer's own
\* announcement opened no session.
THEOREM MessagesAreWhole ==
    ASSUME ~Parallel PROVE Spec => []WholeTransfers
<1>1. Init => TypeOK /\ OrderInv /\ NamesInv /\ PiecesInv
  BY TypeInit, OrderStart, PiecesStart
<1>2. /\ TypeOK /\ OrderInv /\ NamesInv /\ PiecesInv
      /\ OneSessionPerPrefix' /\ [Next]_vars
      => TypeOK' /\ OrderInv' /\ NamesInv' /\ PiecesInv'
  BY OrderStep, PiecesStep
<1>3. PiecesInv => WholeTransfers
  BY DEF PiecesInv
<1> QED BY <1>1, <1>2, <1>3, PacketsHaveOneOwner, PTL DEF Spec

-----------------------------------------------------------------------------
(* Acknowledgements.                                                       *)

\* Every frame that is on the bus was there, or follows one that was.
LEMMA TakesFrames ==
    ASSUME TypeOK, NEW f, Takes(f)
    PROVE  \A k \in 1..Len(toRx') : \E j \in 1..Len(toRx) : toRx'[k] = toRx[j]
BY TailOf, BusTypes DEF Takes

LEMMA ContinuesFrames ==
    ASSUME TypeOK, Continues
    PROVE  \A k \in 1..Len(toRx') :
              (\E j \in 1..Len(toRx) : toRx'[k] = toRx[j]) \/ Follows(toRx'[k])
<1>1. PICK more \in Seq(Frame) : toRx' = toRx \o more /\ \A k \in 1..Len(more) : Follows(more[k])
  BY DEF Continues
<1> TAKE k \in 1..Len(toRx')
<1>2. CASE k \in 1..Len(toRx)
  BY <1>1, <1>2, Sent
<1>3. CASE k \notin 1..Len(toRx)
  BY <1>1, <1>3, Sent
<1> QED BY <1>2, <1>3

\* A source in one transfer sends packets of that one.
LEMMA FollowsOwn ==
    ASSUME TypeOK, AckInv, NEW a \in Source, NEW p \in Live(a), NEW f, Follows(f),
           Prefix(f) = <<a, FALSE>>
    PROVE  f.id =< tx[a][p].id
<1>1. tx[a][p].id \in Nat
  BY Sessions
<1>2. CASE f.id = 0
  BY <1>1, <1>2
<1>3. CASE f.id \in Sending[<<a, FALSE>>]
  <2>1. PICK q \in Live(a) : f.id = tx[a][q].id
    BY <1>3 DEF Sending
  <2>2. q = p
    BY DEF AckInv
  <2> QED BY <1>1, <2>1, <2>2
<1> QED BY <1>2, <1>3 DEF Follows

\* A transfer is taken for acknowledged when its acknowledgement arrives.
LEMMA AckedStays ==
    ASSUME TypeOK, AckInv, NamesInv, NewAcks, astray \subseteq astray',
           delivered \subseteq delivered', started' = started
    PROVE  AckedIsDelivered'
<1> SUFFICES ASSUME NEW i \in acked' \ astray'
             PROVE  \E d \in delivered : /\ d.pgn = started[i].pgn
                                         /\ d.pieces = {i} \X (1..Packets[started[i].pgn])
  BY DEF AckedIsDelivered
<1>1. CASE i \in acked
  BY <1>1 DEF AckInv, AckedIsDelivered
<1>2. CASE i \notin acked
  <2>1. PICK a \in Source : \E p \in Live(a) :
           /\ i = tx[a][p].id
           /\ \E k \in 1..Len(toTx[a]) : toTx[a][k].type = "ACK" /\ toTx[a][k].pgn = p
    BY <1>2 DEF NewAcks
  <2>2. PICK p \in Live(a) :
           /\ i = tx[a][p].id
           /\ \E k \in 1..Len(toTx[a]) : toTx[a][k].type = "ACK" /\ toTx[a][k].pgn = p
    BY <2>1
  <2>3. Matched(rx, toRx, toTx[a], delivered, a, p, i)
    BY <2>2 DEF AckInv
  <2>4. \E d \in delivered : d.pgn = p /\ d.pieces = {i} \X (1..Packets[p])
    BY <2>2, <2>3 DEF Matched
  <2>5. started[i].pgn = p
    <3>1. started[tx[a][p].id] = [sa |-> a, bam |-> FALSE, pgn |-> p]
      BY DEF NamesInv
    <3> QED BY <2>2, <3>1
  <2> QED BY <2>4, <2>5
<1> QED BY <1>1, <1>2

\* Steps that begin no transfer keep the invariant if they keep the receiver's half.
LEMMA AckKept ==
    ASSUME TypeOK, AckInv, NamesInv, KeepsTransfers, NewAcks, astray \subseteq astray',
           delivered \subseteq delivered', started' = started,
           \A k \in 1..Len(toRx') :
              (\E j \in 1..Len(toRx) : toRx'[k] = toRx[j]) \/ Follows(toRx'[k]),
           \A a \in Source : \A p \in Live(a) :
              /\ tx[a][p].id \notin astray
              /\ Matched(rx, toRx, toTx[a], delivered, a, p, tx[a][p].id)
              => Matched(rx', toRx', toTx'[a], delivered', a, p, tx[a][p].id)
    PROVE  AckInv'
<1>1. \A a \in Source : \A p \in Live(a)' : p \in Live(a) /\ tx'[a][p].id = tx[a][p].id
  BY DEF KeepsTransfers, Live
<1>2. \A a \in Source : \A p, q \in Live(a)' : p = q
  BY <1>1 DEF AckInv
<1>3. ASSUME NEW a \in Source, NEW p \in Live(a)'
      PROVE  /\ \A k \in 1..Len(toRx') :
                    Prefix(toRx'[k]) = <<a, FALSE>> => toRx'[k].id =< tx'[a][p].id
             /\ tx'[a][p].id \notin astray' =>
                    Matched(rx', toRx', toTx'[a], delivered', a, p, tx'[a][p].id)
  <2>1. p \in Live(a) /\ tx'[a][p].id = tx[a][p].id
    BY <1>1
  <2>2. ASSUME NEW k \in 1..Len(toRx'), Prefix(toRx'[k]) = <<a, FALSE>>
        PROVE  toRx'[k].id =< tx[a][p].id
    BY <2>1, <2>2, FollowsOwn DEF AckInv
  <2>3. tx[a][p].id \notin astray' => Matched(rx', toRx', toTx'[a], delivered', a, p, tx[a][p].id)
    BY <2>1 DEF AckInv
  <2> QED BY <2>1, <2>2, <2>3
<1>4. AckedIsDelivered'
  BY AckedStays
<1> QED BY <1>2, <1>3, <1>4 DEF AckInv

\* The receiver's half is kept by steps that add no packet and make no acknowledgement.
LEMMA MatchedKept ==
    ASSUME TypeOK, KeepsAcks, delivered \subseteq delivered',
           \A k \in 1..Len(toRx') :
              (\E j \in 1..Len(toRx) : toRx'[k] = toRx[j]) \/ Follows(toRx'[k]),
           \A t \in rx' :
              \/ \E s \in rx : s.id = t.id /\ Key(s) = Key(t) /\ s.pieces = t.pieces
              \/ \E j \in 1..Len(toRx) : /\ toRx[j].type = "CM" /\ Key(toRx[j]) = Key(t)
                                         /\ toRx[j].id = t.id /\ t.pieces = {},
           NEW a \in Source, NEW p, NEW i, Matched(rx, toRx, toTx[a], delivered, a, p, i)
    PROVE  Matched(rx', toRx', toTx'[a], delivered', a, p, i)
<1>4. \A j \in 1..Len(toRx) :
         toRx[j].type = "CM" /\ Key(toRx[j]) = <<a, FALSE, p>> => toRx[j].id = i
  BY DEF Matched
<1>1. ASSUME NEW t \in rx', Key(t) = <<a, FALSE, p>>
      PROVE  t.id = i /\ \A x \in t.pieces : x[1] = i
  <2>1. CASE \E s \in rx : s.id = t.id /\ Key(s) = Key(t) /\ s.pieces = t.pieces
    BY <1>1, <2>1 DEF Matched
  <2>2. CASE \E j \in 1..Len(toRx) : /\ toRx[j].type = "CM" /\ Key(toRx[j]) = Key(t)
                                     /\ toRx[j].id = t.id /\ t.pieces = {}
    BY <1>1, <1>4, <2>2
  <2> QED BY <2>1, <2>2
<1>2. ASSUME NEW k \in 1..Len(toRx'), toRx'[k].type = "CM", Key(toRx'[k]) = <<a, FALSE, p>>
      PROVE  toRx'[k].id = i
  <2>1. ~Follows(toRx'[k])
    BY <1>2 DEF Follows
  <2>2. PICK j \in 1..Len(toRx) : toRx'[k] = toRx[j]
    BY <2>1
  <2> QED BY <1>2, <1>4, <2>2
<1>3. \A k \in 1..Len(toTx'[a]) : toTx'[a][k].type = "ACK" /\ toTx'[a][k].pgn = p =>
         \E d \in delivered' : d.pgn = p /\ d.pieces = {i} \X (1..Packets[p])
  BY DEF Matched, KeepsAcks
<1> QED BY <1>1, <1>2, <1>3 DEF Matched

\* The receiver acknowledges when the last packet has come, and then only.
LEMMA PacketAcks ==
    ASSUME TypeOK, NEW s \in rx, NEW f, TakesPacket(s, f), NEW a \in Source,
           NEW k \in 1..Len(toTx'[a]), toTx'[a][k].type = "ACK",
           ~\E m \in 1..Len(toTx[a]) : toTx[a][m] = toTx'[a][k]
    PROVE  /\ s.next + 1 > Packets[s.pgn] /\ ~s.bam /\ f.sa = a /\ toTx'[a][k].pgn = s.pgn
           /\ delivered' = delivered \cup {[pgn |-> s.pgn, id |-> s.id,
                                             pieces |-> Grown(s, f).pieces]}
<1> DEFINE ack == Answer("ACK", s.pgn, 0, 0)
<1>1. ASSUME NEW r, Tell(f.sa, <<r>>)
      PROVE  f.sa = a /\ toTx'[a][k] = r
  <2>1. toTx[a] \in Seq(Reply)
    BY DEF TypeOK
  <2>2. toTx'[a] = IF f.sa = a THEN toTx[a] \o <<r>> ELSE toTx[a]
    BY <1>1 DEF TypeOK, Tell
  <2>3. f.sa = a
    BY <2>1, <2>2
  <2>4. k \in 1..Len(toTx[a]) => toTx'[a][k] = toTx[a][k]
    BY <2>1, <2>2
  <2>5. k = Len(toTx[a]) + 1
    BY <2>1, <2>2, <2>3, <2>4
  <2> QED BY <2>1, <2>2, <2>3, <2>5
<1>2. ASSUME Tell(f.sa, <<>>)
      PROVE  FALSE
  <2>1. toTx[a] \in Seq(Reply)
    BY DEF TypeOK
  <2>2. toTx'[a] = toTx[a]
    BY <1>2, <2>1 DEF TypeOK, Tell
  <2> QED BY <2>2
<1>3. \A m, n : Answer("CTS", s.pgn, m, n).type # "ACK"
  BY DEF Answer
<1>4. \A m, n : ~Tell(f.sa, <<Answer("CTS", s.pgn, m, n)>>)
  BY <1>1, <1>3
<1>5. ack.pgn = s.pgn
  BY DEF Answer
<1>6. /\ s.next + 1 > Packets[s.pgn]
      /\ delivered' = delivered \cup {[pgn |-> s.pgn, id |-> s.id, pieces |-> Grown(s, f).pieces]}
      /\ Tell(f.sa, IF s.bam THEN <<>> ELSE <<ack>>)
  BY <1>2, <1>4, Zenon DEF TakesPacket
<1> HIDE DEF ack
<1>7. ~s.bam /\ Tell(f.sa, <<ack>>)
  BY <1>2, <1>6
<1> QED BY <1>1, <1>5, <1>6, <1>7

\* Answers none of which acknowledges.
NoAck(answers) ==
    answers \in Seq(Reply) /\ \A k \in 1..Len(answers) : answers[k].type # "ACK"

LEMMA NoAckMade ==
    /\ NoAck(<<>>)
    /\ \A p \in Pgn : NoAck(<<Abort(p)>>)
    /\ \A p \in Pgn, m \in Nat, n \in Nat : NoAck(<<Answer("CTS", p, m, n)>>)
<1>1. \A r \in Reply : r.type # "ACK" => NoAck(<<r>>)
  BY DEF NoAck
<1>2. /\ \A p \in Pgn : Abort(p) \in Reply /\ Abort(p).type # "ACK"
      /\ \A p \in Pgn, m \in Nat, n \in Nat :
            Answer("CTS", p, m, n) \in Reply /\ Answer("CTS", p, m, n).type # "ACK"
  BY Replies DEF Abort, Answer
<1>3. NoAck(<<>>)
  BY DEF NoAck
<1> QED BY <1>1, <1>2, <1>3

LEMMA NoAckTogether ==
    ASSUME NEW q, NEW r, NoAck(q), NoAck(r) PROVE NoAck(q \o r)
<1>1. /\ q \in Seq(Reply) /\ r \in Seq(Reply) /\ Len(q) \in Nat /\ Len(r) \in Nat
      /\ \A k \in 1..Len(q) : (q \o r)[k] = q[k]
      /\ \A k \in Len(q) + 1 .. Len(q) + Len(r) :
            (q \o r)[k] = r[k - Len(q)] /\ k - Len(q) \in 1..Len(r)
      /\ Len(q \o r) = Len(q) + Len(r) /\ q \o r \in Seq(Reply)
  BY DEF NoAck
<1>2. ASSUME NEW k \in 1..Len(q \o r)
      PROVE  (q \o r)[k].type # "ACK"
  <2>1. CASE k \in 1..Len(q)
    BY <1>1, <2>1 DEF NoAck
  <2>2. CASE k \notin 1..Len(q)
    <3>1. k \in Len(q) + 1 .. Len(q) + Len(r)
      BY <1>1, <2>2
    <3>2. (q \o r)[k] = r[k - Len(q)] /\ k - Len(q) \in 1..Len(r)
      BY <1>1, <3>1
    <3> QED BY <3>2 DEF NoAck
  <2> QED BY <2>1, <2>2
<1> QED BY <1>1, <1>2 DEF NoAck

\* No other frame makes one.
LEMMA ReceivesAcks ==
    ASSUME TypeOK, Receives \/ LoseFrame, ~DataTaken
    PROVE  KeepsAcks
<1> DEFINE f == Head(toRx)
<1>1. CASE UNCHANGED toTx
  BY <1>1 DEF KeepsAcks
<1>2. f.sa \in Source /\ f \in Frame
  BY Taken, FrameFields DEF Receives, LoseFrame, Announced, PeerAborts, DataIgnored, DataRefused
<1>3. ASSUME NEW answers, Tell(f.sa, answers), NoAck(answers)
      PROVE  KeepsAcks
  BY <1>2, <1>3, ToldNoAck DEF NoAck
<1>4. CASE PeerAborts \/ DataIgnored \/ LoseFrame
  BY <1>1, <1>4 DEF PeerAborts, DataIgnored, LoseFrame
<1>5. CASE DataRefused
  <2>1. PICK s \in rx : Tell(f.sa, Refusal(s))
    BY <1>5 DEF DataRefused
  <2>2. s.pgn \in Pgn
    BY DEF TypeOK, Session
  <2>3. NoAck(Refusal(s))
    BY <2>2, NoAckMade DEF Refusal
  <2> HIDE DEF f
  <2> QED BY <1>3, <2>1, <2>3
<1>6. CASE Announced
  <2>1. f.type = "CM" /\ f \in CmFrame /\ f.pgn \in Pgn
    BY <1>2, <1>6, FrameFields DEF Announced
  <2>2. \/ \E old \in SUBSET Fresh : OpenSession(f, old)
        \/ Tell(f.sa, IF f.bam THEN <<>> ELSE <<Abort(f.pgn)>>)
    <3>1. /\ \A s : s \in Fresh => {s} \in SUBSET Fresh
          /\ {s \in Fresh : Key(s) = Key(f)} \in SUBSET Fresh
          /\ {s \in Fresh : Prefix(s) = Prefix(f)} \in SUBSET Fresh
      OBVIOUS
    <3> QED BY <1>6, <3>1 DEF Announced
  <2> HIDE DEF f
  <2>3. CASE Tell(f.sa, IF f.bam THEN <<>> ELSE <<Abort(f.pgn)>>)
    <3>1. NoAck(IF f.bam THEN <<>> ELSE <<Abort(f.pgn)>>)
      BY <2>1, NoAckMade
    <3> QED BY <1>3, <2>3, <3>1
  <2>4. CASE \E old \in SUBSET Fresh : OpenSession(f, old)
    <3>1. PICK old \in SUBSET Fresh : OpenSession(f, old)
      BY <2>4
    <3> DEFINE aborts == IF f.bam \/ old = {} THEN <<>>
                         ELSE <<Abort((CHOOSE s \in old : TRUE).pgn)>>
               grant == IF f.bam THEN <<>>
                        ELSE <<Answer("CTS", f.pgn, GrantOf(f.pgn, MaxPerCts), 1)>>
    <3>2. Tell(f.sa, aborts) \/ Tell(f.sa, aborts \o grant)
      BY <3>1, Zenon DEF OpenSession
    <3>3. NoAck(aborts)
      <4>1. CASE f.bam \/ old = {}
        BY <4>1, NoAckMade
      <4>2. CASE ~(f.bam \/ old = {})
        <5>1. (CHOOSE s \in old : TRUE) \in Session
          BY <4>2 DEF TypeOK, Fresh
        <5>2. (CHOOSE s \in old : TRUE).pgn \in Pgn
          BY <5>1 DEF Session
        <5> QED BY <4>2, <5>2, NoAckMade
      <4> QED BY <4>1, <4>2
    <3>4. NoAck(grant)
      <4>1. GrantOf(f.pgn, MaxPerCts) \in Nat
        BY <2>1, Limits DEF GrantOf, Least
      <4> QED BY <2>1, <4>1, NoAckMade
    <3> HIDE DEF aborts, grant
    <3>5. NoAck(aborts \o grant)
      BY <3>3, <3>4, NoAckTogether
    <3> QED BY <1>3, <3>2, <3>3, <3>5
  <2> QED BY <2>2, <2>3, <2>4
<1> QED BY <1>4, <1>5, <1>6 DEF Receives

\* A step that takes a frame other than a packet in order.
LEMMA AckTakes ==
    ASSUME TypeOK, AckInv, NamesInv, OneSessionPerPrefix', Receives \/ LoseFrame, ~DataTaken
    PROVE  AckInv'
<1> DEFINE f == Head(toRx)
<1>1. Takes(f)
  BY ReceivesTakes
<1>2. f \in Frame /\ f = toRx[1] /\ 1 \in 1..Len(toRx)
  BY <1>1, Taken DEF Takes
<1>3. delivered' = delivered
  BY DEF Receives, Announced, PeerAborts, DataIgnored, DataRefused, LoseFrame
<1>4. \A t \in rx' : t \in rx \/ (f.type = "CM" /\ t = Opened(f))
  <2>1. CASE Announced
    BY <2>1, AnnouncedRows
  <2>2. CASE PeerAborts \/ DataIgnored \/ DataRefused \/ LoseFrame
    BY <2>2 DEF PeerAborts, DataIgnored, DataRefused, LoseFrame, Drops, receiver
  <2> QED BY <2>1, <2>2 DEF Receives
<1>5. KeepsAcks
  BY ReceivesAcks
<1> HIDE DEF f
<1>6. \A t \in rx' :
         \/ \E s \in rx : s.id = t.id /\ Key(s) = Key(t) /\ s.pieces = t.pieces
         \/ \E j \in 1..Len(toRx) : /\ toRx[j].type = "CM" /\ Key(toRx[j]) = Key(t)
                                    /\ toRx[j].id = t.id /\ t.pieces = {}
  <2>1. f.type = "CM" => Key(Opened(f)) = Key(f) /\ Opened(f).id = f.id /\ Opened(f).pieces = {}
    BY <1>2, FrameFields, OpenedType
  <2> QED BY <1>2, <1>4, <2>1
<1>7. KeepsTransfers /\ UNCHANGED <<started, acked, astray>>
  BY <1>1 DEF Takes
<1>8. NewAcks
  BY <1>7 DEF NewAcks
<1>9. \A k \in 1..Len(toRx') : \E j \in 1..Len(toRx) : toRx'[k] = toRx[j]
  BY <1>1, TakesFrames
<1> QED BY <1>3, <1>5, <1>6, <1>7, <1>8, <1>9, AckKept, MatchedKept

LEMMA AckContinues == ASSUME TypeOK, AckInv, NamesInv, Continues PROVE AckInv'
<1>1. /\ KeepsTransfers /\ KeepsAcks /\ NewAcks /\ astray \subseteq astray'
      /\ UNCHANGED <<started, delivered>>
  BY DEF Continues
<1>2. \A t \in rx' : \E s \in rx : s.id = t.id /\ Key(s) = Key(t) /\ s.pieces = t.pieces
  BY DEF Continues, Aged
<1> QED BY <1>1, <1>2, ContinuesFrames, AckKept, MatchedKept

\* A packet in order is of the transfer its source is in, and the message it completes
\* is that transfer's.
LEMMA MatchedTaken ==
    ASSUME TypeOK, OrderInv, PiecesInv, toRx # <<>>, NEW s \in rx,
           TakesPacket(s, Head(toRx)), toRx' = Tail(toRx),
           NEW a \in Source, NEW p \in Pgn, NEW i \in Nat,
           \A k \in 1..Len(toRx) : Prefix(toRx[k]) = <<a, FALSE>> => toRx[k].id =< i,
           Matched(rx, toRx, toTx[a], delivered, a, p, i)
    PROVE  Matched(rx', toRx', toTx'[a], delivered', a, p, i)
<1> DEFINE f == Head(toRx)
           t == Grown(s, f)
<1>1. f = toRx[1] /\ 1 \in 1..Len(toRx) /\ f \in Frame
  BY Taken
<1>2. /\ s \in Session /\ t.id = s.id /\ Key(t) = Key(s)
      /\ t.pieces = s.pieces \cup {<<f.id, f.seq>>}
  BY GrownFields DEF TypeOK
<1>3. f.id = s.id \/ (f.id > s.id /\ f.id \in unheard)
  BY PacketIsOwn
<1>4. f.id \in Nat /\ s.id \in Nat /\ Prefix(s) = Prefix(f) /\ f.type = "DT"
  BY <1>1, <1>2, Prefixes DEF TakesPacket
<1>5. Key(s) = <<a, FALSE, p>> => s.id = i /\ \A x \in t.pieces : x[1] = i
  <2> SUFFICES ASSUME Key(s) = <<a, FALSE, p>> PROVE s.id = i /\ \A x \in t.pieces : x[1] = i
    OBVIOUS
  <2>1. s.id = i /\ \A x \in s.pieces : x[1] = i
    BY DEF Matched
  <2>2. Prefix(f) = <<a, FALSE>>
    BY <1>4 DEF Key, Prefix
  <2>3. f.id =< i
    BY <1>1, <2>2
  <2>4. f.id = i
    BY <1>3, <1>4, <2>1, <2>3
  <2> HIDE DEF t
  <2> QED BY <1>2, <2>1, <2>4
<1> HIDE DEF t
<1>6. rx' \subseteq rx \cup {t}
  BY DEF TakesPacket, t
<1>7. delivered \subseteq delivered'
  BY DEF TakesPacket
<1>8. \A r \in rx' : Key(r) = <<a, FALSE, p>> => r.id = i /\ \A x \in r.pieces : x[1] = i
  BY <1>2, <1>5, <1>6 DEF Matched
<1>9. \A k \in 1..Len(toRx') : toRx'[k].type = "CM" /\ Key(toRx'[k]) = <<a, FALSE, p>> =>
         toRx'[k].id = i
  <2>1. \A j \in 1..Len(toRx) :
           toRx[j].type = "CM" /\ Key(toRx[j]) = <<a, FALSE, p>> => toRx[j].id = i
    BY DEF Matched
  <2>2. \A k \in 1..Len(toRx') : toRx'[k] = toRx[k + 1] /\ k + 1 \in 1..Len(toRx)
    BY TailOf, BusTypes
  <2> QED BY <2>1, <2>2
<1>10. ASSUME NEW k \in 1..Len(toTx'[a]), toTx'[a][k].type = "ACK", toTx'[a][k].pgn = p
       PROVE  \E d \in delivered' : d.pgn = p /\ d.pieces = {i} \X (1..Packets[p])
  <2>1. CASE \E m \in 1..Len(toTx[a]) : toTx[a][m] = toTx'[a][k]
    BY <1>7, <1>10, <2>1 DEF Matched
  <2>2. CASE ~\E m \in 1..Len(toTx[a]) : toTx[a][m] = toTx'[a][k]
    <3>1. /\ s.next + 1 > Packets[s.pgn] /\ ~s.bam /\ f.sa = a /\ toTx'[a][k].pgn = s.pgn
          /\ delivered' = delivered \cup {[pgn |-> s.pgn, id |-> s.id, pieces |-> t.pieces]}
      BY <1>10, <2>2, PacketAcks DEF t
    <3>2. Key(s) = <<a, FALSE, p>>
      <4>1. s.bam \in BOOLEAN /\ s.sa = f.sa
        BY <1>2, <1>4 DEF Session, Prefix
      <4> QED BY <1>10, <3>1, <4>1 DEF Key
    <3>3. /\ \A x \in t.pieces : x[1] = i
          /\ {x[2] : x \in t.pieces} = 1..Packets[p]
      <4>1. /\ {x[2] : x \in t.pieces} = 1..s.next
            /\ s.next \in 1..Packets[s.pgn]
        BY PiecesGrow DEF t
      <4>2. s.next = Packets[p]
        <5>1. s.pgn = p /\ Packets[p] \in Nat
          BY <3>1, <1>10, Limits
        <5> QED BY <3>1, <4>1, <5>1
      <4> QED BY <1>5, <3>2, <4>1, <4>2
    <3>4. t.pieces \subseteq Nat \X Nat
      <4>1. f.seq \in Nat
        BY <1>1, <1>4, FrameFields
      <4>2. s.pieces \subseteq Nat \X Nat
        BY <1>2 DEF Session
      <4> QED BY <1>2, <1>4, <4>1, <4>2
    <3>5. t.pieces = {i} \X (1..Packets[p])
      <4>1. t.pieces \subseteq {i} \X (1..Packets[p])
        BY <3>3, <3>4
      <4>2. ASSUME NEW n \in 1..Packets[p] PROVE <<i, n>> \in t.pieces
        <5>1. PICK x \in t.pieces : x[2] = n
          BY <3>3
        <5>2. x[1] = i /\ x = <<x[1], x[2]>>
          BY <3>3, <3>4
        <5> QED BY <5>1, <5>2
      <4> QED BY <4>1, <4>2
    <3> DEFINE d == [pgn |-> s.pgn, id |-> s.id, pieces |-> t.pieces]
    <3>6. d \in delivered' /\ d.pgn = p /\ d.pieces = {i} \X (1..Packets[p])
      BY <1>10, <3>1, <3>5
    <3> QED BY <3>6
  <2> QED BY <2>1, <2>2
<1> QED BY <1>8, <1>9, <1>10 DEF Matched

LEMMA AckTaken ==
    ASSUME TypeOK, OrderInv, PiecesInv, NamesInv, AckInv, OneSessionPerPrefix', DataTaken
    PROVE  AckInv'
<1> DEFINE f == Head(toRx)
<1>1. Takes(f)
  BY ReceivesTakes DEF Receives
<1>2. PICK s \in rx : TakesPacket(s, f)
  BY PacketParts
<1>3. toRx # <<>> /\ toRx' = Tail(toRx) /\ KeepsTransfers /\ UNCHANGED <<started, acked, astray>>
  BY <1>1 DEF Takes
<1>4. delivered \subseteq delivered'
  BY <1>2 DEF TakesPacket
<1>5. NewAcks
  BY <1>3 DEF NewAcks
<1>6. \A k \in 1..Len(toRx') : \E j \in 1..Len(toRx) : toRx'[k] = toRx[j]
  BY <1>1, TakesFrames
<1>7. ASSUME NEW a \in Source, NEW p \in Live(a),
             Matched(rx, toRx, toTx[a], delivered, a, p, tx[a][p].id)
      PROVE  Matched(rx', toRx', toTx'[a], delivered', a, p, tx[a][p].id)
  <2>1. p \in Pgn /\ tx[a][p].id \in Nat
    BY Sessions
  <2>2. \A k \in 1..Len(toRx) : Prefix(toRx[k]) = <<a, FALSE>> => toRx[k].id =< tx[a][p].id
    BY DEF AckInv
  <2> QED BY <1>2, <1>3, <1>7, <2>1, <2>2, MatchedTaken
<1> HIDE DEF f
<1> QED BY <1>3, <1>4, <1>5, <1>6, <1>7, AckKept

\* A transfer that begins while nothing of an earlier one of its PGN is left matches.
LEMMA AckBegins ==
    ASSUME TypeOK, NamesInv, AckInv, NEW a \in Source, NEW b \in BOOLEAN, NEW p \in Pgn,
           Begins(a, b, p)
    PROVE  AckInv'
<1> DEFINE f == Cm("CM", a, b, p, NextId)
<1>1. /\ f \in Frame /\ f.type = "CM" /\ f.id = NextId /\ Key(f) = <<a, b, p>>
      /\ Prefix(f) = <<a, b>> /\ NextId = Len(started) + 1 /\ Len(started) \in Nat
  <2>1. NextId = Len(started) + 1 /\ Len(started) \in Nat
    BY DEF NextId, TypeOK
  <2> QED BY <2>1, FramesSent DEF Cm, Key, Prefix
<1>2. /\ toRx' = Append(toRx, f)
      /\ UNCHANGED <<rx, toTx, delivered, acked>>
      /\ astray' = IF b = FALSE /\ Unquiet(a, p) THEN astray \cup {NextId} ELSE astray
  BY DEF Begins
<1> HIDE DEF f
<1>3. /\ toRx \in Seq(Frame) /\ Len(toRx) \in Nat
      /\ Len(toRx') = Len(toRx) + 1 /\ toRx'[Len(toRx) + 1] = f
      /\ \A k \in 1..Len(toRx) : toRx'[k] = toRx[k] /\ toRx[k] \in Frame
  <2>1. toRx \in Seq(Frame)
    BY BusTypes
  <2> QED BY <1>1, <1>2, <2>1
<1>4. \A i \in 1..Len(started) : started'[i] = started[i]
  <2> DEFINE new == [sa |-> a, bam |-> b, pgn |-> p]
  <2>1. started \in Seq([sa : Source, bam : BOOLEAN, pgn : Pgn]) /\ started' = Append(started, new)
    BY DEF Begins, TypeOK
  <2> HIDE DEF new
  <2> QED BY <2>1
<1>5. AckedIsDelivered'
  <2> SUFFICES ASSUME NEW i \in acked \ astray'
               PROVE  \E d \in delivered : /\ d.pgn = started'[i].pgn
                                           /\ d.pieces = {i} \X (1..Packets[started'[i].pgn])
    BY <1>2 DEF AckedIsDelivered
  <2>1. i \notin astray /\ i \in 1..Len(started)
    BY <1>2 DEF NamesInv
  <2>2. started'[i] = started[i]
    BY <1>4, <2>1
  <2> QED BY <2>1, <2>2 DEF AckInv, AckedIsDelivered
<1>6. ASSUME NEW c \in Source, NEW q \in Live(c)', ~(b = FALSE /\ c = a)
      PROVE  /\ q \in Live(c) /\ tx'[c][q].id = tx[c][q].id
             /\ Prefix(f) # <<c, FALSE>>
  <2>1. q \in Live(c) /\ tx'[c][q].id = tx[c][q].id
    BY <1>6 DEF Begins
  <2>2. <<a, b>> = <<c, FALSE>> => a = c /\ b = FALSE
    OBVIOUS
  <2> QED BY <1>1, <1>6, <2>1, <2>2
<1>7. ASSUME b = FALSE
      PROVE  Live(a)' = {p} /\ tx'[a][p].id = NextId
  BY <1>7 DEF Begins
<1>8. ASSUME NEW c \in Source, NEW q \in Live(c)', NEW r \in Live(c)'
      PROVE  q = r
  <2>1. CASE b = FALSE /\ c = a
    BY <1>7, <1>8, <2>1
  <2>2. CASE ~(b = FALSE /\ c = a)
    BY <1>6, <1>8, <2>2 DEF AckInv
  <2> QED BY <2>1, <2>2
<1>9. ASSUME NEW c \in Source, NEW q \in Live(c)'
      PROVE  /\ \A k \in 1..Len(toRx') :
                    Prefix(toRx'[k]) = <<c, FALSE>> => toRx'[k].id =< tx'[c][q].id
             /\ tx'[c][q].id \notin astray' =>
                    Matched(rx', toRx', toTx'[c], delivered', c, q, tx'[c][q].id)
  <2>1. CASE b = FALSE /\ c = a
    <3>1. q = p /\ tx'[c][q].id = NextId
      BY <1>7, <1>9, <2>1
    <3>2. \A k \in 1..Len(toRx) : toRx[k].id \in Nat /\ toRx[k].id =< Len(started)
      BY <1>3, Prefixes DEF NamesInv
    <3>3. \A k \in 1..Len(toRx') : toRx'[k].id =< NextId
      <4> TAKE k \in 1..Len(toRx')
      <4>1. CASE k \in 1..Len(toRx)
        BY <1>1, <1>3, <3>2, <4>1
      <4>2. CASE k = Len(toRx) + 1
        BY <1>1, <1>3, <4>2
      <4> QED BY <1>3, <4>1, <4>2
    <3>4. ASSUME NextId \notin astray'
          PROVE  Matched(rx, toRx', toTx[a], delivered, a, p, NextId)
      <4>1. ~Unquiet(a, p)
        BY <1>2, <2>1, <3>4
      <4>2. \A s \in rx : Key(s) # <<a, FALSE, p>>
        BY <4>1 DEF Unquiet
      <4>3. \A k \in 1..Len(toTx[a]) : toTx[a][k].pgn # p
        BY <4>1 DEF Unquiet
      <4>4. ASSUME NEW k \in 1..Len(toRx), toRx[k].type = "CM", Key(toRx[k]) = <<a, FALSE, p>>
            PROVE  FALSE
        <5>1. /\ toRx[k].id > 0
              /\ started[toRx[k].id] = [sa |-> toRx[k].sa, bam |-> toRx[k].bam,
                                        pgn |-> toRx[k].pgn]
          BY <4>4 DEF NamesInv
        <5>2. started[toRx[k].id] = [sa |-> a, bam |-> FALSE, pgn |-> p]
          BY <4>4, <5>1 DEF Key
        <5>3. toRx[k].id # 0
          BY <3>2, <5>1
        <5> QED BY <4>1, <5>2, <5>3 DEF Unquiet
      <4>5. \A k \in 1..Len(toRx') :
               toRx'[k].type = "CM" /\ Key(toRx'[k]) = <<a, FALSE, p>> => toRx'[k].id = NextId
        <5> TAKE k \in 1..Len(toRx')
        <5>1. CASE k \in 1..Len(toRx)
          BY <1>3, <4>4, <5>1
        <5>2. CASE k = Len(toRx) + 1
          BY <1>1, <1>3, <5>2
        <5> QED BY <1>3, <5>1, <5>2
      <4> QED BY <4>2, <4>3, <4>5 DEF Matched
    <3> QED BY <1>2, <2>1, <3>1, <3>3, <3>4
  <2>2. CASE ~(b = FALSE /\ c = a)
    <3>1. q \in Live(c) /\ tx'[c][q].id = tx[c][q].id /\ Prefix(f) # <<c, FALSE>>
      BY <1>6, <1>9, <2>2
    <3>2. Key(f) # <<c, FALSE, q>>
      <4>1. <<a, b, p>> = <<c, FALSE, q>> => <<a, b>> = <<c, FALSE>>
        OBVIOUS
      <4> QED BY <1>1, <3>1, <4>1
    <3> DEFINE i == tx[c][q].id
    <3>3. /\ \A k \in 1..Len(toRx) : Prefix(toRx[k]) = <<c, FALSE>> => toRx[k].id =< i
          /\ i \notin astray => Matched(rx, toRx, toTx[c], delivered, c, q, i)
      BY <3>1 DEF AckInv
    <3> HIDE DEF i
    <3>4. \A k \in 1..Len(toRx') : Prefix(toRx'[k]) = <<c, FALSE>> => toRx'[k].id =< i
      <4> TAKE k \in 1..Len(toRx')
      <4>1. CASE k \in 1..Len(toRx)
        BY <1>3, <3>3, <4>1
      <4>2. CASE k = Len(toRx) + 1
        BY <1>3, <3>1, <4>2
      <4> QED BY <1>3, <4>1, <4>2
    <3>5. i \notin astray' => Matched(rx, toRx', toTx[c], delivered, c, q, i)
      <4>1. i \notin astray' => i \notin astray
        BY <1>2
      <4>2. \A k \in 1..Len(toRx') : k \in 1..Len(toRx) \/ toRx'[k] = f
        BY <1>3
      <4> QED BY <1>3, <3>2, <3>3, <4>1, <4>2 DEF Matched
    <3> QED BY <1>2, <3>1, <3>4, <3>5 DEF i
  <2> QED BY <2>1, <2>2
<1> QED BY <1>5, <1>8, <1>9 DEF AckInv

LEMMA AckStep ==
    ASSUME TypeOK, ~Parallel, OneSessionPerPrefix', OrderInv, NamesInv, PiecesInv, AckInv,
           [Next]_vars
    PROVE  AckInv'
<1>1. CASE Receives \/ LoseFrame
  BY <1>1, AckTakes, AckTaken
<1>2. CASE Continues
  BY <1>2, AckContinues
<1>3. CASE \E a \in Source, b \in BOOLEAN, p \in Pgn : Begins(a, b, p)
  <2>1. PICK a \in Source, b \in BOOLEAN, p \in Pgn : Begins(a, b, p)
    BY <1>3
  <2> QED BY <2>1, AckBegins
<1> QED BY <1>1, <1>2, <1>3, Steps

LEMMA AckStart == Init => AckInv
<1> SUFFICES ASSUME Init PROVE AckInv
  OBVIOUS
<1>1. acked = {} /\ tx = [a \in Source |-> [p \in Pgn |-> NoTx]]
  BY DEF Init
<1>2. \A a \in Source : Live(a) = {}
  BY <1>1 DEF Live
<1> QED BY <1>1, <1>2 DEF AckInv, AckedIsDelivered

\* A transfer that its source takes for acknowledged was delivered whole, with every
\* packet its own, for sources with one transfer at a time, unless it went astray.
THEOREM AcknowledgedIsDelivered ==
    ASSUME ~Parallel PROVE Spec => []AckedIsDelivered
<1>1. Init => TypeOK /\ OrderInv /\ NamesInv /\ PiecesInv /\ AckInv
  BY TypeInit, OrderStart, PiecesStart, AckStart
<1>2. /\ TypeOK /\ OrderInv /\ NamesInv /\ PiecesInv /\ AckInv
      /\ OneSessionPerPrefix' /\ [Next]_vars
      => TypeOK' /\ OrderInv' /\ NamesInv' /\ PiecesInv' /\ AckInv'
  BY OrderStep, PiecesStep, AckStep
<1>3. AckInv => AckedIsDelivered
  BY DEF AckInv
<1> QED BY <1>1, <1>2, <1>3, PacketsHaveOneOwner, PTL DEF Spec

-----------------------------------------------------------------------------
(* Stalls.  The argument needs no order on the bus and no bound on the     *)
(* transfers of a source: what moves a transfer is followed from its       *)
(* announcement to the answer that ends it.                                *)

\* The number that ends a window is followed, a window on, by one that does.
LEMMA WindowsEnd ==
    /\ Window % Window = 0
    /\ \A n \in Nat : n % Window = 0 => (n + Window) % Window = 0
<1> DEFINE W == Window
<1>1. W \in Nat \ {0}
  BY Limits
<1> HIDE DEF W
<1>2. ASSUME NEW n \in Nat, n % W = 0
      PROVE  (n + W) % W = 0
  <2> DEFINE q == n \div W
             m == (n + W) \div W
             r == (n + W) % W
  <2>1. n = W * q + (n % W) /\ q \in Int
    BY <1>1, SMT
  <2>2. n + W = W * m + r /\ m \in Int /\ r \in 0 .. W - 1
    BY <1>1, SMT
  <2> HIDE DEF q, m, r
  <2>3. PICK d \in Int : d = q + 1 - m
    BY <2>1, <2>2
  <2>4. W * d = r
    <3>1. W * q + W = W * m + r
      BY <1>1, <1>2, <2>1, <2>2
    <3>2. W * (q + 1 - m) = r
      BY <1>1, <2>1, <2>2, <3>1
    <3> QED BY <2>3, <3>2
  <2>5. CASE d >= 1
    <3>1. W * d >= W
      BY <1>1, <2>5
    <3> QED BY <1>1, <2>2, <2>4, <3>1
  <2>6. CASE d =< -1
    <3>1. W * d =< -W
      BY <1>1, <2>6
    <3> QED BY <1>1, <2>2, <2>4, <3>1
  <2>7. CASE d = 0
    <3>1. r = 0
      BY <1>1, <2>4, <2>7
    <3> QED BY <3>1 DEF r
  <2> QED BY <2>3, <2>5, <2>6, <2>7
<1>3. W % W = 0
  BY <1>1, SMT
<1> QED BY <1>2, <1>3 DEF W

\* The first grant of a session, and the one that follows a window, reach a boundary.
LEMMA FirstGrantIsFull ==
    ASSUME Window =< MaxPerCts, NEW p \in Pgn
    PROVE  LET r == Answer("CTS", p, GrantOf(p, MaxPerCts), 1) IN r.pgn = p /\ FullGrant(r)
<1> DEFINE g == GrantOf(p, MaxPerCts)
           r == Answer("CTS", p, g, 1)
<1>1. /\ Packets[p] \in Nat \ {0} /\ Window \in Nat \ {0}
      /\ MaxPerCts \in Nat /\ Cap \in Nat /\ Window =< Cap
  BY Limits, TransportAssumption
<1>2. r.type = "CTS" /\ r.pgn = p /\ r.count = g /\ r.next = 1
  BY DEF Answer
<1>3. g = Least(Packets[p], Window)
  BY <1>1 DEF GrantOf, Least
<1> HIDE DEF r, g
<1>4. g \in Nat /\ g > 0 /\ (g = Packets[p] \/ g = Window) /\ g =< Packets[p]
  BY <1>1, <1>3 DEF Least
<1>5. Least(r.next + r.count - 1, Packets[r.pgn]) = g
  BY <1>1, <1>2, <1>4 DEF Least
<1>6. Boundary(p, g)
  BY <1>4, WindowsEnd DEF Boundary
<1>7. FullGrant(r)
  BY <1>2, <1>4, <1>5, <1>6 DEF FullGrant
<1> QED BY <1>2, <1>7 DEF r, g

LEMMA NextGrantIsFull ==
    ASSUME NEW p \in Pgn, NEW n \in Nat, n % Window = 0, n < Packets[p]
    PROVE  LET r == Answer("CTS", p, Least(Least(Window, Packets[p] - n), Cap), n + 1)
           IN  r.pgn = p /\ FullGrant(r)
<1> DEFINE g == Least(Least(Window, Packets[p] - n), Cap)
           r == Answer("CTS", p, g, n + 1)
<1>1. Packets[p] \in Nat \ {0} /\ Window \in Nat \ {0} /\ Cap \in Nat /\ Window =< Cap
  BY Limits, TransportAssumption
<1>2. r.type = "CTS" /\ r.pgn = p /\ r.count = g /\ r.next = n + 1
  BY DEF Answer
<1>3. g \in Nat /\ g > 0 /\ n + g =< Packets[p] /\ (n + g = Packets[p] \/ g = Window)
  BY <1>1 DEF Least
<1> HIDE DEF r, g
<1>4. Least(r.next + r.count - 1, Packets[r.pgn]) = n + g
  <2>1. r.next + r.count - 1 = n + g /\ n + g \in Nat
    BY <1>2, <1>3
  <2> QED BY <1>1, <1>2, <1>3, <2>1 DEF Least
<1>5. Boundary(p, n + g)
  BY <1>3, WindowsEnd DEF Boundary
<1>6. FullGrant(r)
  BY <1>2, <1>3, <1>4, <1>5 DEF FullGrant
<1> QED BY <1>2, <1>6 DEF r, g

\* The types hold for any number of transfers of a source.
LEMMA TypeStep == ASSUME TypeOK, [Next]_vars PROVE TypeOK'
<1>1. CASE Receives \/ LoseFrame
  BY <1>1, ReceivesType, LoseFrameType
<1>2. Tick \/ UNCHANGED vars => Continues
  BY TickContinues, StutterContinues
<1>3. ASSUME NEW a \in Source, TakeControl(a) \/ BamPacket(a) \/ LoseAnswer(a)
      PROVE  Continues
  BY <1>3, ControlContinues, BamContinues, AnswersContinue
<1>4. ASSUME NEW a \in Source, NEW p \in Pgn,
             DrainPending(a, p) \/ PollTimeouts(a, p) \/ \E g \in Stray : ForeignGrant(a, p, g)
      PROVE  Continues
  BY <1>4, DrainContinues, PollContinues, AnswersContinue
<1>5. ASSUME NEW a \in Source, NEW p \in Pgn, StartTransfer(a, p) \/ StartBam(a, p)
      PROVE  TypeOK'
  BY <1>5, StartType
<1>6. Continues => TypeOK'
  BY DEF Continues
<1> QED BY <1>1, <1>2, <1>3, <1>4, <1>5, <1>6 DEF Next

\* What is on the bus stays there behind a frame that is taken, and before one that is
\* sent; so do the answers.
KeepsBus == \A k \in 1..Len(toRx) : \E j \in 1..Len(toRx') : toRx'[j] = toRx[k]

KeepsAnswers(a) == \A k \in 1..Len(toTx[a]) : \E j \in 1..Len(toTx'[a]) : toTx'[a][j] = toTx[a][k]

LEMMA AnswersStay ==
    ASSUME NEW a, NEW p, KeepsAnswers(a)
    PROVE  (Ending(a, p) => Ending(a, p)') /\ (Granting(a, p) => Granting(a, p)')
BY DEF KeepsAnswers, Ending, Granting

LEMMA SettlesAged ==
    ASSUME NEW f, NEW s, NEW t, Aged(s, t)
    PROVE  Settles(f, s) => Settles(f, t)
BY DEF Settles, Aged, Key, Prefix

LEMMA TellAnswers ==
    ASSUME TypeOK, NEW a \in Source, NEW answers \in Seq(Reply), Tell(a, answers)
    PROVE  /\ \A c \in Source : KeepsAnswers(c)
           /\ \A k \in 1..Len(answers) : \E j \in 1..Len(toTx'[a]) : toTx'[a][j] = answers[k]
<1>1. toTx[a] \in Seq(Reply) /\ toTx'[a] = toTx[a] \o answers
  BY DEF TypeOK, Tell
<1>2. \A c \in Source : c # a => toTx'[c] = toTx[c]
  BY DEF TypeOK, Tell
<1>3. /\ Len(toTx'[a]) = Len(toTx[a]) + Len(answers)
      /\ Len(toTx[a]) \in Nat /\ Len(answers) \in Nat
      /\ \A k \in 1..Len(toTx[a]) : toTx'[a][k] = toTx[a][k]
      /\ \A k \in 1..Len(answers) : toTx'[a][Len(toTx[a]) + k] = answers[k]
  BY <1>1
<1>4. \A c \in Source : KeepsAnswers(c)
  BY <1>2, <1>3 DEF KeepsAnswers
<1>5. \A k \in 1..Len(answers) : Len(toTx[a]) + k \in 1..Len(toTx'[a])
  BY <1>3
<1> QED BY <1>3, <1>4, <1>5

\* A step of the sender or of the environment that leaves the receiver alone, and takes
\* no answer.
LEMMA MovingKept ==
    ASSUME KeepsBus, \A s \in rx : \E t \in rx' : Aged(s, t),
           NEW a, NEW p, NEW i, Moving(a, p, i),
           Ending(a, p) => Ending(a, p)',
           \/ Granting(a, p) => Granting(a, p)'
           \/ \A s \in rx : s.id = i /\ Key(s) = <<a, FALSE, p>> =>
                  \E k \in 1..Len(toRx') : Settles(toRx'[k], s)
    PROVE  Moving(a, p, i)'
<1>1. ASSUME NEW k \in 1..Len(toRx), toRx[k].type = "CM", toRx[k].id = i,
             Key(toRx[k]) = <<a, FALSE, p>>
      PROVE  Moving(a, p, i)'
  <2>1. PICK j \in 1..Len(toRx') : toRx'[j] = toRx[k]
    BY DEF KeepsBus
  <2>2. toRx'[j].type = "CM" /\ toRx'[j].id = i /\ Key(toRx'[j]) = <<a, FALSE, p>>
    BY <1>1, <2>1
  <2> QED BY <2>2 DEF Moving, Key
<1>2. ASSUME Ending(a, p)
      PROVE  Moving(a, p, i)'
  BY <1>2 DEF Moving
<1>3. ASSUME NEW s \in rx, s.id = i, Key(s) = <<a, FALSE, p>>,
             Granting(a, p) \/ \E k \in 1..Len(toRx) : Settles(toRx[k], s)
      PROVE  Moving(a, p, i)'
  <2>1. PICK t \in rx' : Aged(s, t)
    OBVIOUS
  <2>2. t.id = i /\ Key(t) = <<a, FALSE, p>>
    BY <1>3, <2>1 DEF Aged
  <2>3. \A k \in 1..Len(toRx) : Settles(toRx[k], s) =>
           \E j \in 1..Len(toRx') : Settles(toRx'[j], t)
    BY <2>1, SettlesAged DEF KeepsBus
  <2>4. Granting(a, p) => \/ Granting(a, p)'
                          \/ \E j \in 1..Len(toRx') : Settles(toRx'[j], t)
    BY <1>3, <2>1, SettlesAged
  <2> QED BY <1>3, <2>2, <2>3, <2>4 DEF Moving, Key, Settles
<1> QED BY <1>1, <1>2, <1>3 DEF Moving

\* A step of the sender or of the environment that takes no frame and no answer.
LEMMA StallKept ==
    ASSUME StallInv, KeepsBus, hurt \subseteq hurt',
           \A c \in Source : KeepsAnswers(c),
           \A s \in rx : \E t \in rx' : Aged(s, t),
           \A c \in Source : \A q \in Live(c)' :
              \/ q \in Live(c) /\ tx'[c][q].id = tx[c][q].id
              \/ Moving(c, q, tx[c][q].id)'
    PROVE  StallInv'
<1> SUFFICES ASSUME NEW a \in Source, NEW p \in Live(a)'
             PROVE  tx'[a][p].id \in hurt' \/ Moving(a, p, tx[a][p].id)'
  BY DEF StallInv
<1>1. CASE Moving(a, p, tx[a][p].id)'
  BY <1>1
<1>2. CASE p \in Live(a) /\ tx'[a][p].id = tx[a][p].id
  <2>1. PICK i : i = tx[a][p].id
    OBVIOUS
  <2>2. i \in hurt \/ Moving(a, p, i)
    BY <1>2, <2>1 DEF StallInv
  <2>3. i \in hurt' \/ Moving(a, p, i)'
    BY <2>2, AnswersStay, MovingKept
  <2>4. Moving(a, p, i)' => Moving(a, p, tx[a][p].id)'
    BY <1>2, <2>1
  <2> QED BY <1>2, <2>1, <2>3, <2>4
<1> QED BY <1>1, <1>2

LEMMA BusGrows ==
    ASSUME TypeOK, NEW more \in Seq(Frame), toRx' = toRx \o more
    PROVE  KeepsBus
BY Sent DEF KeepsBus

LEMMA StallContinues ==
    ASSUME TypeOK, StallInv, Continues, hurt \subseteq hurt',
           \A c \in Source : KeepsAnswers(c), \A s \in rx : \E t \in rx' : Aged(s, t)
    PROVE  StallInv'
<1>1. KeepsBus
  BY BusGrows DEF Continues
<1>2. \A c \in Source : \A q \in Live(c)' : q \in Live(c) /\ tx'[c][q].id = tx[c][q].id
  BY DEF Continues, KeepsTransfers, Live
<1> QED BY <1>1, <1>2, StallKept

LEMMA SameAgain == 
    /\ toTx' = toTx => \A c \in Source : KeepsAnswers(c)
    /\ rx' = rx => \A s \in rx : \E t \in rx' : Aged(s, t)
BY DEF KeepsAnswers, Aged

LEMMA StallPasses ==
    ASSUME TypeOK, StallInv,
           \/ Tick \/ UNCHANGED vars
           \/ \E a \in Source : BamPacket(a)
           \/ \E a \in Source, p \in Pgn :
                DrainPending(a, p) \/ PollTimeouts(a, p) \/ \E g \in Stray : ForeignGrant(a, p, g)
    PROVE  StallInv'
<1>1. CASE Tick
  <2>1. /\ rx' = {[s EXCEPT !.age = Older(@, IF s.bam THEN T1 ELSE T4)] : s \in rx}
        /\ UNCHANGED <<toTx, hurt>>
    BY <1>1, Zenon DEF Tick, history
  <2>2. \A s \in Session : \A n : Aged(s, [s EXCEPT !.age = n])
    BY DEF Aged, Key, Session
  <2>3. \A s \in rx : \E t \in rx' : Aged(s, t)
    <3> TAKE s \in rx
    <3> DEFINE n == Older(s.age, IF s.bam THEN T1 ELSE T4)
    <3>1. s \in Session /\ [s EXCEPT !.age = n] \in rx'
      BY <2>1 DEF TypeOK
    <3> HIDE DEF n
    <3> QED BY <2>2, <3>1
  <2> QED BY <1>1, <2>1, <2>3, SameAgain, TickContinues, StallContinues
<1>2. CASE UNCHANGED vars
  <2>1. UNCHANGED <<rx, toTx, hurt>>
    BY <1>2 DEF vars, receiver, history
  <2> QED BY <1>2, <2>1, SameAgain, StutterContinues, StallContinues
<1>3. ASSUME NEW a \in Source, BamPacket(a)
      PROVE  StallInv'
  <2>1. UNCHANGED <<rx, toTx, hurt>>
    BY <1>3 DEF BamPacket, receiver, history
  <2> QED BY <1>3, <2>1, SameAgain, BamContinues, StallContinues
<1>4. ASSUME NEW a \in Source, NEW p \in Pgn, DrainPending(a, p) \/ PollTimeouts(a, p)
      PROVE  StallInv'
  <2>1. UNCHANGED <<rx, toTx, hurt>>
    BY <1>4 DEF DrainPending, PollTimeouts, receiver, history
  <2>2. Continues
    BY <1>4, DrainContinues, PollContinues
  <2> QED BY <2>1, <2>2, SameAgain, StallContinues
<1>5. ASSUME NEW a \in Source, NEW p \in Pgn, NEW g \in Stray, ForeignGrant(a, p, g)
      PROVE  StallInv'
  <2>1. UNCHANGED <<rx, hurt>> /\ Tell(a, <<Answer("CTS", p, g[1], g[2])>>)
    BY <1>5 DEF ForeignGrant, receiver
  <2>2. <<Answer("CTS", p, g[1], g[2])>> \in Seq(Reply)
    <3>1. g[1] \in Nat /\ g[2] \in Nat
      BY TransportAssumption
    <3> QED BY <3>1, Replies
  <2>3. \A c \in Source : KeepsAnswers(c)
    BY <2>1, <2>2, TellAnswers
  <2> QED BY <1>5, <2>1, <2>3, SameAgain, AnswersContinue, StallContinues
<1> QED BY <1>1, <1>2, <1>3, <1>4, <1>5

\* A transfer that begins is announced.
LEMMA StallBegins ==
    ASSUME TypeOK, StallInv, NEW a \in Source, NEW p \in Pgn,
           StartTransfer(a, p) \/ StartBam(a, p)
    PROVE  StallInv'
<1>1. PICK b \in BOOLEAN :
        /\ toRx' = Append(toRx, Cm("CM", a, b, p, NextId))
        /\ UNCHANGED <<rx, toTx, hurt>>
        /\ \A c \in Source : \A q \in Live(c)' :
              \/ q \in Live(c) /\ tx'[c][q].id = tx[c][q].id
              \/ b = FALSE /\ c = a /\ q = p /\ tx'[c][q].id = NextId
  <2>1. CASE StartBam(a, p)
    BY <2>1 DEF StartBam, receiver, Live
  <2>2. CASE StartTransfer(a, p)
    <3> DEFINE new == [id |-> NextId, state |-> "WAIT_CTS", next |-> 1, age |-> 0,
                       hold |-> 0, heldFor |-> 0]
    <3>1. /\ \E gone : tx' = [tx EXCEPT ![a] = [q \in Pgn |-> IF q = p THEN new
                                             ELSE IF q \in gone THEN NoTx ELSE @[q]]]
          /\ toRx' = Append(toRx, Cm("CM", a, FALSE, p, NextId))
          /\ UNCHANGED <<rx, toTx, hurt>>
      BY <2>2, Zenon DEF StartTransfer, receiver
    <3>2. new.id = NextId
      OBVIOUS
    <3> HIDE DEF new
    <3>3. \A c \in Source : \A q \in Live(c)' :
             \/ q \in Live(c) /\ tx'[c][q].id = tx[c][q].id
             \/ c = a /\ q = p /\ tx'[c][q].id = NextId
      BY <3>1, <3>2 DEF Live, TypeOK
    <3> QED BY <3>1, <3>3
  <2> QED BY <2>1, <2>2
<1>2. PICK f \in Frame : f = Cm("CM", a, b, p, NextId)
  <2>1. NextId \in Nat
    BY DEF NextId, TypeOK
  <2> QED BY <2>1, FramesSent
<1>3. f.type = "CM" /\ f.id = NextId /\ Key(f) = <<a, b, p>>
  BY <1>2 DEF Cm, Key
<1>4. /\ toRx' = toRx \o <<f>> /\ <<f>> \in Seq(Frame) /\ KeepsBus
      /\ Len(toRx') \in 1..Len(toRx') /\ toRx'[Len(toRx')] = f
  <2>1. toRx' = toRx \o <<f>> /\ <<f>> \in Seq(Frame)
    BY <1>1, <1>2, SentOne
  <2>2. toRx \in Seq(Frame)
    BY BusTypes
  <2>3. /\ Len(toRx \o <<f>>) = Len(toRx) + 1
        /\ (toRx \o <<f>>)[Len(toRx) + 1] = f
        /\ Len(toRx) \in Nat
    BY <2>2
  <2>4. KeepsBus
    BY <2>1, BusGrows
  <2> QED BY <2>1, <2>3, <2>4
<1>5. ASSUME NEW c \in Source, NEW q \in Live(c)', b = FALSE, c = a, q = p,
             tx'[c][q].id = NextId
      PROVE  Moving(c, q, tx[c][q].id)'
  <2>1. /\ toRx'[Len(toRx')].type = "CM" /\ toRx'[Len(toRx')].id = tx'[c][q].id
        /\ Key(toRx'[Len(toRx')]) = <<c, FALSE, q>>
    BY <1>3, <1>4, <1>5
  <2> QED BY <1>4, <2>1 DEF Moving, Key
<1> QED BY <1>1, <1>4, <1>5, SameAgain, StallKept

\* Of the answers, the one that is taken is gone.
LEMMA AnswersLeft ==
    ASSUME TypeOK, NEW a \in Source, toTx[a] # <<>>, toTx' = [toTx EXCEPT ![a] = Tail(@)],
           NEW f, f = Head(toTx[a])
    PROVE  /\ \A c \in Source : c # a => KeepsAnswers(c)
           /\ \A q : q # f.pgn \/ f.type = "CTS" => (Ending(a, q) => Ending(a, q)')
           /\ \A q : q # f.pgn \/ ~FullGrant(f) => (Granting(a, q) => Granting(a, q)')
<1>1. toTx[a] \in Seq(Reply) /\ toTx'[a] = Tail(toTx[a])
  BY DEF TypeOK
<1>2. \A c \in Source : c # a => toTx'[c] = toTx[c]
  BY DEF TypeOK
<1>3. \A k \in 1..Len(toTx[a]) : toTx[a][k] # f =>
         \E j \in 1..Len(toTx'[a]) : toTx'[a][j] = toTx[a][k]
  <2> SUFFICES ASSUME NEW k \in 1..Len(toTx[a]), toTx[a][k] # f
               PROVE  \E j \in 1..Len(toTx'[a]) : toTx'[a][j] = toTx[a][k]
    OBVIOUS
  <2>1. f = toTx[a][1]
    BY AnswerTaken
  <2>2. /\ Len(toTx'[a]) = Len(toTx[a]) - 1 /\ Len(toTx[a]) \in Nat
        /\ \A j \in 1..Len(toTx'[a]) : toTx'[a][j] = toTx[a][j + 1]
    BY <1>1, TailOf
  <2>3. k # 1
    BY <2>1
  <2>4. k - 1 \in 1..Len(toTx'[a]) /\ (k - 1) + 1 = k
    BY <2>2, <2>3
  <2>5. toTx'[a][k - 1] = toTx[a][k]
    BY <2>2, <2>4
  <2> QED BY <2>4, <2>5
<1>4. \A c \in Source : c # a => KeepsAnswers(c)
  BY <1>2 DEF KeepsAnswers
<1>5. \A q : q # f.pgn \/ f.type = "CTS" => (Ending(a, q) => Ending(a, q)')
  BY <1>3 DEF Ending
<1>6. \A q : q # f.pgn \/ ~FullGrant(f) => (Granting(a, q) => Granting(a, q)')
  BY <1>3 DEF Granting
<1> QED BY <1>4, <1>5, <1>6

\* A transfer of a source survives the loss of an answer, or an answer that does not end
\* it, if a grant that reached a boundary has become a packet that does.
LEMMA StallAnswered ==
    ASSUME TypeOK, StallInv, Continues, rx' = rx, hurt \subseteq hurt',
           NEW a \in Source, toTx[a] # <<>>, toTx' = [toTx EXCEPT ![a] = Tail(@)],
           NEW f, f = Head(toTx[a]),
           f.pgn \in Live(a)' =>
              \/ tx[a][f.pgn].id \in hurt'
              \/ /\ f.type = "CTS"
                 /\ \/ ~FullGrant(f)
                    \/ \A s \in rx :
                          s.id = tx[a][f.pgn].id /\ Key(s) = <<a, FALSE, f.pgn>> =>
                              \E k \in 1..Len(toRx') : Settles(toRx'[k], s)
    PROVE  StallInv'
<1>1. KeepsBus /\ \A s \in rx : \E t \in rx' : Aged(s, t)
  BY BusGrows, SameAgain DEF Continues
<1>2. \A c \in Source : \A q \in Live(c)' : q \in Live(c) /\ tx'[c][q].id = tx[c][q].id
  BY DEF Continues, KeepsTransfers, Live
<1> SUFFICES ASSUME NEW c \in Source, NEW q \in Live(c)'
             PROVE  tx'[c][q].id \in hurt' \/ Moving(c, q, tx[c][q].id)'
  BY DEF StallInv
<1>3. PICK i : i = tx[c][q].id
  OBVIOUS
<1>4. q \in Live(c) /\ tx'[c][q].id = i
  BY <1>2, <1>3
<1>5. i \in hurt \/ Moving(c, q, i)
  BY <1>3, <1>4 DEF StallInv
<1>6. ASSUME Moving(c, q, i), i \notin hurt'
      PROVE  Moving(c, q, i)'
  <2>1. CASE c # a
    BY <1>1, <1>6, <2>1, AnswersLeft, AnswersStay, MovingKept
  <2>2. CASE c = a /\ q # f.pgn
    BY <1>1, <1>6, <2>2, AnswersLeft, MovingKept
  <2>3. CASE c = a /\ q = f.pgn
    <3>1. f.type = "CTS" /\ (Ending(c, q) => Ending(c, q)')
      BY <1>3, <1>6, <2>3, AnswersLeft
    <3>2. \/ Granting(c, q) => Granting(c, q)'
          \/ \A s \in rx : s.id = i /\ Key(s) = <<c, FALSE, q>> =>
                 \E k \in 1..Len(toRx') : Settles(toRx'[k], s)
      BY <1>3, <1>6, <2>3, AnswersLeft
    <3> QED BY <1>1, <1>6, <3>1, <3>2, MovingKept
  <2> QED BY <2>1, <2>2, <2>3
<1>7. Moving(c, q, i)' => Moving(c, q, tx[c][q].id)'
  BY <1>4
<1> QED BY <1>4, <1>5, <1>6, <1>7

LEMMA StallLosesAnswer ==
    ASSUME TypeOK, StallInv, NEW a \in Source, NEW f, f = Head(toTx[a]), LoseAnswer(a)
    PROVE  StallInv'
<1>1. /\ toTx[a] # <<>> /\ toTx' = [toTx EXCEPT ![a] = Tail(@)] /\ rx' = rx /\ tx' = tx
      /\ hurt' = IF tx[a][f.pgn] = NoTx THEN hurt
                 ELSE hurt \cup {tx[a][f.pgn].id}
  BY DEF LoseAnswer, receiver, sender
<1>2. f.pgn \in Live(a)' => tx[a][f.pgn].id \in hurt'
  BY <1>1 DEF Live
<1>3. hurt \subseteq hurt'
  BY <1>1
<1> QED BY <1>1, <1>2, <1>3, AnswersContinue, StallAnswered

\* The last packet of a full grant settles any session of the transfer.
LEMMA GrantSettles ==
    ASSUME TypeOK, NEW a \in Source, NEW f \in Reply, NEW t \in Transfer, ~BadGrant(f, t),
           f.count > 0, Granted(a, f, t), FullGrant(f),
           NEW s \in rx, s.id = t.id, Key(s) = <<a, FALSE, f.pgn>>
    PROVE  \E k \in 1..Len(toRx') : Settles(toRx'[k], s)
<1> DEFINE last == Least(f.next + f.count - 1, Packets[f.pgn])
           sent == Batch(a, t, f.next, last)
           n == last + 1 - f.next
           g == Dt(a, FALSE, last, t.id)
<1>1. /\ f.pgn \in Pgn /\ f.next \in Nat /\ f.count \in Nat /\ f.next > 0
      /\ f.next =< Packets[f.pgn] /\ Packets[f.pgn] \in Nat
  BY Limits DEF Reply, BadGrant
<1>2. last \in Nat /\ last >= f.next
  BY <1>1 DEF Least
<1>3. toRx' = toRx \o sent
  BY DEF Granted
<1>4. Boundary(f.pgn, last)
  BY DEF FullGrant
<1> HIDE DEF last
<1>5. n \in Nat /\ n > 0 /\ n \in 1..n /\ f.next + n - 1 = last
  BY <1>1, <1>2
<1>6. /\ sent \in Seq(Frame) /\ Len(sent) = n
      /\ \A k \in 1..Len(sent) : sent[k] = Dt(a, FALSE, f.next + k - 1, t.id)
  <2>1. /\ sent \in Seq(Frame)
        /\ \A k \in 1..Len(sent) : sent[k] = Dt(a, FALSE, f.next + k - 1, t.id)
    BY <1>1, <1>2, BatchType
  <2>2. DOMAIN sent = 1..n
    BY DEF Batch
  <2> HIDE DEF sent, n
  <2>3. Len(sent) = n
    BY <1>5, <2>1, <2>2
  <2> QED BY <2>1, <2>3
<1>7. sent[n] = g
  BY <1>5, <1>6
<1> HIDE DEF sent, n
<1>8. Len(toRx) + n \in 1..Len(toRx') /\ toRx'[Len(toRx) + n] = g
  <2>1. /\ Len(toRx') = Len(toRx) + n /\ Len(toRx) \in Nat
        /\ \A k \in Len(toRx) + 1 .. Len(toRx) + n : toRx'[k] = sent[k - Len(toRx)]
    BY <1>3, <1>6, Sent
  <2>2. /\ Len(toRx) + n \in Len(toRx) + 1 .. Len(toRx) + n
        /\ (Len(toRx) + n) - Len(toRx) = n
    BY <1>5, <2>1
  <2>3. toRx'[Len(toRx) + n] = sent[n]
    BY <2>1, <2>2
  <2>4. Len(toRx) + n \in 1..Len(toRx')
    BY <1>5, <2>1
  <2> QED BY <1>7, <2>3, <2>4
<1>9. s.next \in Nat /\ s.pgn = f.pgn /\ Prefix(s) = <<a, FALSE>>
  BY DEF TypeOK, Session, Key, Prefix
<1>10. g.type = "DT" /\ g.id = t.id /\ g.seq = last /\ Prefix(g) = <<a, FALSE>>
  BY DEF Dt, Prefix
<1> HIDE DEF g
<1>11. g.seq < s.next \/ last \in s.next .. g.seq
  BY <1>2, <1>9, <1>10
<1>12. Settles(g, s)
  BY <1>4, <1>9, <1>10, <1>11 DEF Settles
<1> QED BY <1>8, <1>12

LEMMA StallTakesControl ==
    ASSUME TypeOK, StallInv, NEW a \in Source, NEW f, f = Head(toTx[a]), TakeControl(a)
    PROVE  StallInv'
<1> DEFINE t == tx[a][f.pgn]
<1>1. /\ toTx[a] # <<>> /\ toTx' = [toTx EXCEPT ![a] = Tail(@)]
      /\ UNCHANGED <<rx, hurt>>
  BY DEF TakeControl, receiver
<1>2. f \in Reply /\ f.pgn \in Pgn /\ t \in Transfer \cup {NoTx}
  BY <1>1, AnswerTaken, Sessions
<1>3. \/ f.pgn \notin Live(a)'
      \/ f.type = "CTS" /\ f.count = 0
      \/ /\ t # NoTx /\ f.type = "CTS" /\ ~BadGrant(f, t) /\ f.count > 0 /\ Granted(a, f, t)
  <2>1. Ends(a, f.pgn) => f.pgn \notin Live(a)'
    BY <1>2 DEF Ends, Live, TypeOK
  <2>2. t = NoTx /\ tx' = tx => f.pgn \notin Live(a)'
    BY DEF Live
  <2> QED BY <2>1, <2>2, Zenon DEF TakeControl
<1>4. f.count = 0 => ~FullGrant(f)
  BY DEF FullGrant
<1>5. ASSUME f.pgn \in Live(a)'
      PROVE  /\ f.type = "CTS"
             /\ \/ ~FullGrant(f)
                \/ \A s \in rx : s.id = t.id /\ Key(s) = <<a, FALSE, f.pgn>> =>
                       \E k \in 1..Len(toRx') : Settles(toRx'[k], s)
  <2>1. CASE f.type = "CTS" /\ f.count = 0
    BY <1>4, <2>1
  <2>2. CASE /\ t # NoTx /\ f.type = "CTS" /\ ~BadGrant(f, t) /\ f.count > 0 
             /\ Granted(a, f, t)
    <3>1. t \in Transfer
      BY <1>2, <2>2
    <3> HIDE DEF t
    <3> QED BY <1>2, <2>2, <3>1, GrantSettles
  <2> QED BY <1>3, <1>5, <2>1, <2>2
<1>6. Continues
  BY ControlContinues
<1> QED BY <1>1, <1>5, <1>6, StallAnswered

-----------------------------------------------------------------------------
(* The receiver's half.                                                    *)

\* What becomes of the announcement f, and of a session s when f is taken.
Heard(f) ==
    \/ f.id \in hurt'
    \/ Ending(f.sa, f.pgn)'
    \/ Granting(f.sa, f.pgn)' /\ \E t \in rx' : t.id = f.id /\ Key(t) = Key(f)

Served(s, f) ==
    \/ s.id \in hurt'
    \/ Ending(s.sa, s.pgn)'
    \/ \E t \in rx' :
          /\ t.id = s.id /\ Key(t) = Key(s)
          /\ \/ Granting(s.sa, s.pgn)'
             \/ ~Settles(f, s) /\ \A g \in Frame : Settles(g, s) => Settles(g, t)

LEMMA StallTakes ==
    ASSUME TypeOK, StallInv, toRx # <<>>, toRx' = Tail(toRx), UNCHANGED tx,
           hurt \subseteq hurt', \A a \in Source : KeepsAnswers(a),
           NEW f, f = Head(toRx),
           f.type = "CM" /\ ~f.bam => Heard(f),
           \A s \in rx : ~s.bam => Served(s, f)
    PROVE  StallInv'
<1> SUFFICES ASSUME NEW a \in Source, NEW p \in Live(a)
             PROVE  tx[a][p].id \in hurt' \/ Moving(a, p, tx[a][p].id)'
  BY DEF StallInv, Live
<1>1. PICK i : i = tx[a][p].id
  OBVIOUS
<1>2. /\ f = toRx[1] /\ f \in Frame /\ Len(toRx) \in Nat
      /\ Len(toRx') = Len(toRx) - 1
      /\ \A l \in 1..Len(toRx') : toRx'[l] = toRx[l + 1]
      /\ \A k \in 1..Len(toRx) : toRx[k] \in Frame
  BY Taken, BusTypes
<1>3. \A k \in 1..Len(toRx) : toRx[k] = f \/ \E j \in 1..Len(toRx') : toRx'[j] = toRx[k]
  <2> TAKE k \in 1..Len(toRx)
  <2>1. CASE k = 1
    BY <1>2, <2>1
  <2>2. CASE k # 1
    <3>1. k - 1 \in 1..Len(toRx') /\ (k - 1) + 1 = k
      BY <1>2, <2>2
    <3>2. toRx'[k - 1] = toRx[k]
      BY <1>2, <3>1
    <3> QED BY <3>1, <3>2
  <2> QED BY <2>1, <2>2
<1>4. i \in hurt \/ Moving(a, p, i)
  BY <1>1 DEF StallInv
<1>5. /\ Ending(a, p) => Ending(a, p)'
      /\ Granting(a, p) => Granting(a, p)'
  BY AnswersStay
<1>6. ASSUME NEW k \in 1..Len(toRx), toRx[k].type = "CM", toRx[k].id = i,
             Key(toRx[k]) = <<a, FALSE, p>>
      PROVE  i \in hurt' \/ Moving(a, p, i)'
  <2>1. CASE \E j \in 1..Len(toRx') : toRx'[j] = toRx[k]
    <3>1. PICK j \in 1..Len(toRx') : toRx'[j] = toRx[k]
      BY <2>1
    <3>2. toRx'[j].type = "CM" /\ toRx'[j].id = i /\ Key(toRx'[j]) = <<a, FALSE, p>>
      BY <1>6, <3>1
    <3> QED BY <3>2 DEF Moving, Key
  <2>2. CASE toRx[k] = f
    <3>1. f.type = "CM" /\ f.id = i /\ Key(f) = <<a, FALSE, p>>
      BY <1>6, <2>2
    <3>2. ~f.bam /\ f.sa = a /\ f.pgn = p
      BY <3>1 DEF Key
    <3>3. \/ i \in hurt' \/ Ending(a, p)'
          \/ Granting(a, p)' /\ \E t \in rx' : t.id = i /\ Key(t) = <<a, FALSE, p>>
      BY <3>1, <3>2 DEF Heard
    <3> QED BY <3>3 DEF Moving, Key
  <2> QED BY <1>3, <2>1, <2>2
<1>7. ASSUME NEW s \in rx, s.id = i, Key(s) = <<a, FALSE, p>>,
             Granting(a, p) \/ \E k \in 1..Len(toRx) : Settles(toRx[k], s)
      PROVE  i \in hurt' \/ Moving(a, p, i)'
  <2>1. ~s.bam /\ s.sa = a /\ s.pgn = p
    BY <1>7 DEF Key
  <2>2. Served(s, f)
    BY <2>1
  <2>3. CASE i \in hurt' \/ Ending(a, p)'
    BY <2>3 DEF Moving
  <2>4. ASSUME NEW t \in rx', t.id = i, Key(t) = <<a, FALSE, p>>,
               \/ Granting(a, p)'
               \/ ~Settles(f, s) /\ \A g \in Frame : Settles(g, s) => Settles(g, t)
        PROVE  Moving(a, p, i)'
    <3>1. Granting(a, p)' \/ \E k \in 1..Len(toRx') : Settles(toRx'[k], t)
      <4>1. CASE Granting(a, p)'
        BY <4>1
      <4>2. ASSUME NEW k \in 1..Len(toRx), Settles(toRx[k], s), ~Settles(f, s),
                   \A g \in Frame : Settles(g, s) => Settles(g, t)
            PROVE  \E j \in 1..Len(toRx') : Settles(toRx'[j], t)
        <5>1. PICK j \in 1..Len(toRx') : toRx'[j] = toRx[k]
          BY <1>3, <4>2
        <5>2. Settles(toRx[k], t)
          BY <1>2, <4>2
        <5> QED BY <5>1, <5>2
      <4> QED BY <1>5, <1>7, <2>4, <4>1, <4>2
    <3> QED BY <2>4, <3>1 DEF Moving, Key, Settles
  <2> QED BY <1>7, <2>1, <2>2, <2>3, <2>4 DEF Served
<1>8. Moving(a, p, i) => i \in hurt' \/ Moving(a, p, i)'
  <2>1. Ending(a, p)' => Moving(a, p, i)'
    BY DEF Moving
  <2> QED BY <1>5, <1>6, <1>7, <2>1 DEF Moving
<1>9. i \in hurt' \/ Moving(a, p, i)'
  BY <1>4, <1>8
<1>10. tx' = tx /\ p \in Live(a)
  OBVIOUS
<1> QED BY <1>1, <1>9, <1>10

\* A session that stays as it is, and that the frame is not for.
LEMMA StaysServed ==
    ASSUME NEW s \in rx, s \in rx', NEW f, ~Settles(f, s)
    PROVE  Served(s, f)
BY DEF Served

LEMMA StallPeerAborts ==
    ASSUME TypeOK, StallInv, NEW f, f = Head(toRx), PeerAborts PROVE StallInv'
<1> DEFINE gone == {s \in rx : Overdue(s) \/ Key(s) = Key(f)}
<1>1. /\ toRx # <<>> /\ f.type = "ABORT" /\ toRx' = Tail(toRx)
      /\ rx' = rx \ gone /\ hurt' = hurt \cup Ids(gone) /\ UNCHANGED <<tx, toTx>>
  BY DEF PeerAborts, sender
<1>2. \A s \in gone : s.id \in Ids(gone)
  BY DEF Ids
<1>3. \A s : ~Settles(f, s)
  BY <1>1 DEF Settles
<1> HIDE DEF gone
<1>4. ASSUME NEW s \in rx PROVE Served(s, f)
  <2>1. CASE s \in gone
    BY <1>1, <1>2, <2>1 DEF Served
  <2>2. CASE s \notin gone
    BY <1>1, <1>3, <2>2, StaysServed
  <2> QED BY <2>1, <2>2
<1> QED BY <1>1, <1>4, SameAgain, StallTakes

LEMMA StallLosesFrame ==
    ASSUME TypeOK, StallInv, NEW f, f = Head(toRx), LoseFrame PROVE StallInv'
<1>1. /\ toRx # <<>> /\ toRx' = Tail(toRx) /\ hurt' = hurt \cup {f.id}
      /\ UNCHANGED <<rx, tx, toTx>>
  BY DEF LoseFrame, receiver, sender
<1>2. f.id \in hurt'
  BY <1>1
<1>3. Heard(f)
  BY <1>2 DEF Heard
<1>4. ASSUME NEW s \in rx PROVE Served(s, f)
  <2>1. CASE Settles(f, s)
    BY <1>2, <2>1 DEF Served, Settles
  <2>2. CASE ~Settles(f, s)
    BY <1>1, <2>2, StaysServed
  <2> QED BY <2>1, <2>2
<1> QED BY <1>1, <1>3, <1>4, SameAgain, StallTakes

\* A packet is for the one session of its source, if there is one.
LEMMA OwnerIsOne ==
    ASSUME OneSessionPerPrefix, NEW f, NEW s \in rx, Prefix(s) = Prefix(f)
    PROVE  Owners(f) = {s}
<1>1. {r \in rx : Prefix(r) = Prefix(f)} = {s}
  BY DEF OneSessionPerPrefix
<1>2. Cardinality({s}) = 1
  BY FS_Singleton
<1> QED BY <1>1, <1>2 DEF Owners

LEMMA StallDataIgnored ==
    ASSUME TypeOK, StallInv, OneSessionPerPrefix, NEW f, f = Head(toRx), DataIgnored
    PROVE  StallInv'
<1>1. /\ toRx # <<>> /\ f.type = "DT" /\ Cardinality(Owners(f)) # 1 /\ toRx' = Tail(toRx)
      /\ rx' = rx \ Owners(f) /\ hurt' = hurt \cup Ids(Owners(f)) /\ UNCHANGED <<tx, toTx>>
  BY DEF DataIgnored, Drops, Stays, sender
<1>2. ASSUME NEW s \in rx PROVE Served(s, f)
  <2>1. CASE s \in Owners(f)
    BY <1>1, <2>1 DEF Served, Ids
  <2>2. CASE s \notin Owners(f)
    <3>1. Prefix(s) # Prefix(f)
      BY <2>2, OwnerIsOne
    <3> QED BY <1>1, <2>2, <3>1, StaysServed DEF Settles
  <2> QED BY <2>1, <2>2
<1> QED BY <1>1, <1>2, SameAgain, StallTakes

LEMMA StallDataRefused ==
    ASSUME TypeOK, StallInv, OneSessionPerPrefix, NEW f, f = Head(toRx), DataRefused
    PROVE  StallInv'
<1>1. PICK s \in rx : /\ toRx # <<>> /\ f.type = "DT" /\ toRx' = Tail(toRx)
                      /\ Owners(f) = {s} /\ rx' = rx \ {s} /\ Tell(f.sa, Refusal(s))
                      /\ hurt \subseteq hurt' /\ UNCHANGED tx
  BY DEF DataRefused, Drops, Stays, sender
<1>2. f \in Frame /\ f.sa \in Source /\ s \in Session
  BY <1>1, Taken, FrameFields DEF TypeOK
<1>3. s.pgn \in Pgn /\ Prefix(s) = Prefix(f) /\ s.sa = f.sa
  <2>1. s \in Owners(f)
    BY <1>1
  <2> QED BY <1>2, <2>1 DEF Owners, Prefix, Session
<1>4. Refusal(s) \in Seq(Reply)
  BY <1>3, Replies DEF Refusal
<1>5. /\ \A c \in Source : KeepsAnswers(c)
      /\ \A k \in 1..Len(Refusal(s)) : \E j \in 1..Len(toTx'[f.sa]) :
            toTx'[f.sa][j] = Refusal(s)[k]
  BY <1>1, <1>2, <1>4, TellAnswers
<1>6. ~s.bam => Ending(s.sa, s.pgn)'
  <2> SUFFICES ASSUME ~s.bam PROVE Ending(s.sa, s.pgn)'
    OBVIOUS
  <2>1. Len(Refusal(s)) = 1 /\ Refusal(s)[1] = Abort(s.pgn)
    BY DEF Refusal
  <2>2. PICK j \in 1..Len(toTx'[f.sa]) : toTx'[f.sa][j] = Abort(s.pgn)
    BY <1>5, <2>1
  <2>3. Abort(s.pgn).pgn = s.pgn /\ Abort(s.pgn).type # "CTS"
    BY DEF Abort, Answer
  <2> QED BY <1>3, <2>2, <2>3 DEF Ending
<1>7. ASSUME NEW r \in rx, ~r.bam PROVE Served(r, f)
  <2>1. CASE r = s
    BY <1>6, <1>7, <2>1 DEF Served
  <2>2. CASE r # s
    <3>1. Prefix(r) # Prefix(f)
      BY <1>1, <2>2, OwnerIsOne
    <3> QED BY <1>1, <2>2, <3>1, StaysServed DEF Settles
  <2> QED BY <2>1, <2>2
<1> QED BY <1>1, <1>5, <1>7, StallTakes

\* A packet in order moves its session on: to the end of the message, past a boundary
\* with a grant, or on to the boundary that other packets lead to.
LEMMA StallDataTaken ==
    ASSUME TypeOK, StallInv, OneSessionPerPrefix, NEW f, f = Head(toRx), DataTaken
    PROVE  StallInv'
<1> DEFINE ack(s) == IF s.bam THEN <<>> ELSE <<Answer("ACK", s.pgn, 0, 0)>>
           cts(s) == IF s.bam \/ s.next % Window # 0 THEN <<>>
                     ELSE <<Answer("CTS", s.pgn, Least(Least(Window, Packets[s.pgn] - s.next), Cap),
                                   Grown(s, f).next)>>
<1>1. PICK s \in rx :
        /\ Owners(f) = {s} /\ InOrder(s, f)
        /\ \/ IsWhole(Grown(s, f)) /\ rx' = rx \ {s} /\ Tell(f.sa, ack(s))
           \/ /\ ~IsWhole(Grown(s, f)) /\ rx' = (rx \ {s}) \cup {Grown(s, f)}
              /\ Tell(f.sa, cts(s))
  BY Zenon DEF DataTaken, Grown, Drops
<1>2. toRx # <<>> /\ f.type = "DT" /\ toRx' = Tail(toRx) /\ UNCHANGED <<tx, hurt>>
  BY DEF DataTaken, Stays, sender
<1>3. f \in Frame /\ f.sa \in Source /\ s \in Session /\ f.seq \in Nat
  BY <1>2, Taken, FrameFields DEF TypeOK
<1> HIDE DEF ack, cts
<1>4. Prefix(s) = Prefix(f) /\ s.sa = f.sa
  <2>1. s \in Owners(f)
    BY <1>1
  <2> QED BY <1>3, <2>1 DEF Owners, Prefix
<1>5. /\ s.next \in Nat /\ s.pgn \in Pgn /\ Packets[s.pgn] \in Nat /\ f.seq = s.next
      /\ Grown(s, f).next = s.next + 1 /\ Grown(s, f).pgn = s.pgn
      /\ Grown(s, f).id = s.id /\ Key(Grown(s, f)) = Key(s) /\ Prefix(Grown(s, f)) = Prefix(s)
      /\ IsWhole(Grown(s, f)) <=> s.next >= Packets[s.pgn]
  <2>1. /\ s.next \in Nat /\ s.pgn \in Pgn /\ Grown(s, f).next = s.next + 1
        /\ Grown(s, f).pgn = s.pgn /\ Grown(s, f).id = s.id /\ Key(Grown(s, f)) = Key(s)
        /\ Prefix(Grown(s, f)) = Prefix(s)
    BY <1>3, GrownFields
  <2> QED BY <1>1, <2>1, Limits DEF IsWhole, InOrder
<1>6. ack(s) \in Seq(Reply) /\ (~IsWhole(Grown(s, f)) => cts(s) \in Seq(Reply))
  <2>1. ack(s) \in Seq(Reply)
    BY <1>5, Replies DEF ack
  <2>2. ASSUME ~IsWhole(Grown(s, f)) PROVE cts(s) \in Seq(Reply)
    <3>1. Least(Least(Window, Packets[s.pgn] - s.next), Cap) \in Nat
      BY <1>5, <2>2, Limits DEF Least
    <3> QED BY <1>5, <3>1, Replies DEF cts
  <2> QED BY <2>1, <2>2
<1>7. ASSUME IsWhole(Grown(s, f)), ~s.bam
      PROVE  Ending(s.sa, s.pgn)'
  <2>1. Tell(f.sa, <<Answer("ACK", s.pgn, 0, 0)>>)
        /\ <<Answer("ACK", s.pgn, 0, 0)>> \in Seq(Reply)
    BY <1>1, <1>6, <1>7 DEF ack
  <2> DEFINE r == Answer("ACK", s.pgn, 0, 0)
  <2>2. \A k \in 1..Len(<<r>>) : \E j \in 1..Len(toTx'[f.sa]) : toTx'[f.sa][j] = <<r>>[k]
    BY <1>3, <2>1, TellAnswers
  <2>3. r.pgn = s.pgn /\ r.type # "CTS"
    BY DEF Answer
  <2> HIDE DEF r
  <2>4. \E j \in 1..Len(toTx'[f.sa]) : toTx'[f.sa][j] = r
    BY <2>2
  <2> QED BY <1>4, <2>3, <2>4 DEF Ending
<1>8. ASSUME ~IsWhole(Grown(s, f)), ~s.bam, s.next % Window = 0
      PROVE  Granting(s.sa, s.pgn)'
  <2> DEFINE r == Answer("CTS", s.pgn, Least(Least(Window, Packets[s.pgn] - s.next), Cap),
                         s.next + 1)
  <2>1. cts(s) = <<r>> /\ Tell(f.sa, <<r>>) /\ <<r>> \in Seq(Reply)
    BY <1>1, <1>5, <1>6, <1>8 DEF cts
  <2>2. r.pgn = s.pgn /\ FullGrant(r)
    BY <1>5, <1>8, NextGrantIsFull
  <2> HIDE DEF r
  <2>3. \A k \in 1..Len(<<r>>) : \E j \in 1..Len(toTx'[f.sa]) : toTx'[f.sa][j] = <<r>>[k]
    BY <1>3, <2>1, TellAnswers
  <2>4. \E j \in 1..Len(toTx'[f.sa]) : toTx'[f.sa][j] = r
    BY <2>3
  <2> QED BY <1>4, <2>2, <2>4 DEF Granting
<1>9. ASSUME ~IsWhole(Grown(s, f)), s.next % Window # 0
      PROVE  ~Settles(f, s) /\ \A g \in Frame : Settles(g, s) => Settles(g, Grown(s, f))
  <2>1. ~Boundary(s.pgn, s.next)
    BY <1>5, <1>9 DEF Boundary
  <2>2. ~Settles(f, s)
    BY <1>5, <2>1 DEF Settles
  <2>3. ASSUME NEW g \in Frame, Settles(g, s) PROVE Settles(g, Grown(s, f))
    <3>1. g.type = "DT" /\ g.id = s.id /\ Prefix(g) = Prefix(s) /\ g.seq \in Nat
      BY <2>3, FrameFields DEF Settles
    <3>2. CASE g.seq < s.next
      <4>1. g.seq < s.next + 1
        BY <1>5, <3>1, <3>2
      <4> QED BY <1>5, <3>1, <4>1 DEF Settles
    <3>3. ASSUME NEW n \in s.next .. g.seq, Boundary(s.pgn, n)
          PROVE  Settles(g, Grown(s, f))
      <4>1. n # s.next
        BY <2>1, <3>3
      <4>2. n \in s.next + 1 .. g.seq
        BY <1>5, <3>1, <4>1
      <4> QED BY <1>5, <3>1, <3>3, <4>2 DEF Settles
    <3> QED BY <2>3, <3>2, <3>3 DEF Settles
  <2> QED BY <2>2, <2>3
<1>10. ASSUME NEW r \in rx, ~r.bam PROVE Served(r, f)
  <2>1. CASE r = s /\ IsWhole(Grown(s, f))
    BY <1>7, <1>10, <2>1 DEF Served
  <2>2. CASE r = s /\ ~IsWhole(Grown(s, f))
    <3>1. Grown(s, f) \in rx' /\ Grown(s, f).id = s.id /\ Key(Grown(s, f)) = Key(s)
      BY <1>1, <1>5, <2>2
    <3>2. CASE s.next % Window = 0
      BY <1>8, <1>10, <2>2, <3>1, <3>2 DEF Served
    <3>3. CASE s.next % Window # 0
      BY <1>9, <2>2, <3>1, <3>3 DEF Served
    <3> QED BY <3>2, <3>3
  <2>3. CASE r # s
    <3>1. Prefix(r) # Prefix(f)
      BY <1>1, <2>3, OwnerIsOne
    <3> QED BY <1>1, <2>3, <3>1, StaysServed DEF Settles
  <2> QED BY <2>1, <2>2, <2>3
<1>11. \A c \in Source : KeepsAnswers(c)
  BY <1>1, <1>3, <1>6, TellAnswers
<1> QED BY <1>2, <1>10, <1>11, StallTakes

\* An announcement opens a session and grants it its first packets, or its source is told,
\* or the transfer is hurt; a session that makes room is aborted, or hurt.
LEMMA OpenServes ==
    ASSUME TypeOK, OneSessionPerPrefix, Window =< MaxPerCts,
           NEW f \in CmFrame, f.type = "CM", NEW old \in SUBSET Fresh,
           \A s \in old : Prefix(s) = Prefix(f), OpenSession(f, old)
    PROVE  /\ hurt \subseteq hurt' /\ \A c \in Source : KeepsAnswers(c)
           /\ ~f.bam => Heard(f)
           /\ \A s \in rx : ~s.bam => Served(s, f)
<1> DEFINE kept == Fresh \ old
           aborts == IF f.bam \/ old = {} THEN <<>> ELSE <<Abort((CHOOSE s \in old : TRUE).pgn)>>
           first == Answer("CTS", f.pgn, GrantOf(f.pgn, MaxPerCts), 1)
           grant == IF f.bam THEN <<>> ELSE <<first>>
           silent == Ids(rx \ Fresh) \cup IF f.bam THEN Ids(old) ELSE {}
<1>1. \/ /\ rx' = kept /\ Tell(f.sa, aborts) /\ hurt' = hurt \cup silent \cup {f.id}
      \/ \E out : /\ rx' = (kept \ out) \cup {Opened(f)} /\ Tell(f.sa, aborts \o grant)
                  /\ hurt' = hurt \cup silent \cup Ids(out)
  BY DEF OpenSession
<1>2. kept \subseteq rx /\ old \subseteq rx /\ rx \subseteq Session
  BY DEF Fresh, TypeOK
<1>3. f.sa \in Source /\ f.pgn \in Pgn /\ f.bam \in BOOLEAN
  BY DEF CmFrame
<1>4. aborts \in Seq(Reply)
  <2>1. CASE f.bam \/ old = {}
    BY <2>1, Replies
  <2>2. CASE ~(f.bam \/ old = {})
    <3>1. (CHOOSE s \in old : TRUE) \in Session
      BY <1>2, <2>2
    <3>2. (CHOOSE s \in old : TRUE).pgn \in Pgn
      BY <3>1 DEF Session
    <3> QED BY <2>2, <3>2, Replies
  <2> QED BY <2>1, <2>2
<1>5. first \in Reply /\ first.pgn = f.pgn /\ FullGrant(first)
  <2>1. GrantOf(f.pgn, MaxPerCts) \in Nat
    BY <1>3, Limits DEF GrantOf, Least
  <2> QED BY <1>3, <2>1, Replies, FirstGrantIsFull
<1>6. grant \in Seq(Reply) /\ (~f.bam => grant = <<first>>)
  <2> HIDE DEF first
  <2> QED BY <1>5, Replies
<1>7. \A s \in old : ~s.bam => aborts = <<Abort(s.pgn)>>
  <2> TAKE s \in old
  <2>1. (CHOOSE r \in old : TRUE) = s
    BY <1>2 DEF OneSessionPerPrefix
  <2>2. f.bam = s.bam
    BY DEF Prefix
  <2> QED BY <2>1, <2>2
<1>8. \A s \in rx : s \notin Fresh \/ (s \in old /\ f.bam) => s.id \in silent
  BY DEF Ids
<1> HIDE DEF aborts, grant, first, silent
<1>9. \E more \in Seq(Reply) :
         /\ Tell(f.sa, more)
         /\ Len(aborts) \in Nat
         /\ \A k \in 1..Len(aborts) : \E j \in 1..Len(more) : more[j] = aborts[k]
         /\ \/ f.id \in hurt'
            \/ /\ Opened(f) \in rx'
               /\ \A k \in 1..Len(grant) : \E j \in 1..Len(more) : more[j] = grant[k]
  <2>1. CASE f.id \in hurt' /\ Tell(f.sa, aborts)
    BY <1>4, <2>1
  <2>2. CASE Opened(f) \in rx' /\ Tell(f.sa, aborts \o grant)
    <3>1. /\ aborts \o grant \in Seq(Reply)
          /\ Len(aborts) \in Nat /\ Len(grant) \in Nat
          /\ Len(aborts \o grant) = Len(aborts) + Len(grant)
          /\ \A k \in 1..Len(aborts) : (aborts \o grant)[k] = aborts[k]
          /\ \A k \in 1..Len(grant) : (aborts \o grant)[Len(aborts) + k] = grant[k]
      BY <1>4, <1>6
    <3>2. \A k \in 1..Len(aborts) : k \in 1..Len(aborts \o grant)
      BY <3>1
    <3>3. \A k \in 1..Len(grant) : Len(aborts) + k \in 1..Len(aborts \o grant)
      BY <3>1
    <3>4. \A k \in 1..Len(aborts) :
             \E j \in 1..Len(aborts \o grant) : (aborts \o grant)[j] = aborts[k]
      BY <3>1, <3>2
    <3>5. \A k \in 1..Len(grant) :
             \E j \in 1..Len(aborts \o grant) : (aborts \o grant)[j] = grant[k]
      BY <3>1, <3>3
    <3> QED BY <2>2, <3>1, <3>4, <3>5
  <2> QED BY <1>1, <2>1, <2>2
<1>10. PICK more \in Seq(Reply) :
         /\ Tell(f.sa, more)
         /\ \A k \in 1..Len(aborts) : \E j \in 1..Len(more) : more[j] = aborts[k]
         /\ \/ f.id \in hurt'
            \/ /\ Opened(f) \in rx'
               /\ \A k \in 1..Len(grant) : \E j \in 1..Len(more) : more[j] = grant[k]
  BY <1>9
<1>11. /\ \A c \in Source : KeepsAnswers(c)
       /\ \A k \in 1..Len(more) : \E j \in 1..Len(toTx'[f.sa]) : toTx'[f.sa][j] = more[k]
  BY <1>3, <1>10, TellAnswers
<1>12. ASSUME NEW r, aborts = <<r>>
       PROVE  \E j \in 1..Len(toTx'[f.sa]) : toTx'[f.sa][j] = r
  <2>1. 1 \in 1..Len(aborts) /\ aborts[1] = r
    BY <1>12
  <2>2. PICK k \in 1..Len(more) : more[k] = r
    BY <1>10, <2>1
  <2> QED BY <1>11, <2>2
<1>13. ASSUME ~f.bam, f.id \notin hurt'
       PROVE  Granting(f.sa, f.pgn)' /\ Opened(f) \in rx'
  <2>1. 1 \in 1..Len(grant) /\ grant[1] = first
    BY <1>6, <1>13
  <2>2. PICK k \in 1..Len(more) : more[k] = first
    BY <1>10, <1>13, <2>1
  <2>3. PICK j \in 1..Len(toTx'[f.sa]) : toTx'[f.sa][j] = first
    BY <1>11, <2>2
  <2> QED BY <1>5, <1>10, <1>13, <2>3 DEF Granting
<1>14. ~f.bam => Heard(f)
  BY <1>13, OpenedType DEF Heard
<1>15. ASSUME NEW s \in rx, ~s.bam PROVE Served(s, f)
  <2>1. CASE s \notin Fresh
    BY <1>1, <1>8, <2>1 DEF Served
  <2>2. CASE s \in old
    <3>1. aborts = <<Abort(s.pgn)>> /\ s.sa = f.sa
      BY <1>7, <1>15, <2>2 DEF Prefix
    <3>2. \E j \in 1..Len(toTx'[f.sa]) : toTx'[f.sa][j] = Abort(s.pgn)
      BY <1>12, <3>1
    <3>3. Abort(s.pgn).pgn = s.pgn /\ Abort(s.pgn).type # "CTS"
      BY DEF Abort, Answer
    <3> QED BY <3>1, <3>2, <3>3 DEF Served, Ending
  <2>3. CASE s \in kept
    <3>1. ~Settles(f, s)
      BY DEF Settles
    <3>2. s \in rx' \/ s.id \in hurt'
      BY <1>1, <2>3 DEF Ids
    <3> QED BY <3>1, <3>2, StaysServed DEF Served
  <2> QED BY <2>1, <2>2, <2>3
<1>16. hurt \subseteq hurt'
  BY <1>1
<1> QED BY <1>11, <1>14, <1>15, <1>16

LEMMA StallAnnounced ==
    ASSUME TypeOK, StallInv, OneSessionPerPrefix, Window =< MaxPerCts,
           NEW f, f = Head(toRx), Announced
    PROVE  StallInv'
<1> DEFINE same == {s \in Fresh : Key(s) = Key(f)}
           live == {s \in Fresh : Prefix(s) = Prefix(f)}
<1>1. /\ toRx # <<>> /\ f.type = "CM" /\ toRx' = Tail(toRx) /\ UNCHANGED tx
      /\ \/ OpenSession(f, same)
         \/ \E s \in live : OpenSession(f, {s})
         \/ /\ rx' = Fresh /\ Tell(f.sa, IF f.bam THEN <<>> ELSE <<Abort(f.pgn)>>)
            /\ hurt' = hurt \cup Ids(rx \ Fresh)
  BY Zenon DEF Announced, sender
<1>2. /\ same \in SUBSET Fresh /\ \A s \in same : Prefix(s) = Prefix(f)
      /\ \A s \in live : {s} \in SUBSET Fresh /\ \A r \in {s} : Prefix(r) = Prefix(f)
  BY DEF Key, Prefix
<1>3. f \in CmFrame /\ f.sa \in Source /\ f.pgn \in Pgn /\ f = Head(toRx)
  BY <1>1, Taken, FrameFields
<1> HIDE DEF same, live
<1>4. ASSUME NEW old \in SUBSET Fresh, \A s \in old : Prefix(s) = Prefix(f), OpenSession(f, old)
      PROVE  StallInv'
  BY <1>1, <1>3, <1>4, OpenServes, StallTakes
<1>5. CASE /\ rx' = Fresh /\ Tell(f.sa, IF f.bam THEN <<>> ELSE <<Abort(f.pgn)>>)
           /\ hurt' = hurt \cup Ids(rx \ Fresh)
  <2> DEFINE more == IF f.bam THEN <<>> ELSE <<Abort(f.pgn)>>
  <2>1. more \in Seq(Reply) /\ Tell(f.sa, more)
    BY <1>3, <1>5, Replies
  <2>2. ~f.bam => 1 \in 1..Len(more) /\ more[1] = Abort(f.pgn)
    OBVIOUS
  <2> HIDE DEF more
  <2>3. /\ \A c \in Source : KeepsAnswers(c)
        /\ \A k \in 1..Len(more) : \E j \in 1..Len(toTx'[f.sa]) : toTx'[f.sa][j] = more[k]
    BY <1>3, <2>1, TellAnswers
  <2>4. ~f.bam => Heard(f)
    <3>1. Abort(f.pgn).pgn = f.pgn /\ Abort(f.pgn).type # "CTS"
      BY DEF Abort, Answer
    <3>2. ~f.bam => \E j \in 1..Len(toTx'[f.sa]) : toTx'[f.sa][j] = Abort(f.pgn)
      BY <2>2, <2>3
    <3> QED BY <3>1, <3>2 DEF Heard, Ending
  <2>5. ASSUME NEW s \in rx PROVE Served(s, f)
    <3>1. CASE s \in Fresh
      BY <1>1, <1>5, <3>1, StaysServed DEF Settles
    <3>2. CASE s \notin Fresh
      BY <1>5, <3>2 DEF Served, Ids
    <3> QED BY <3>1, <3>2
  <2>6. hurt \subseteq hurt'
    BY <1>5
  <2> QED BY <1>1, <1>3, <2>3, <2>4, <2>5, <2>6, StallTakes
<1> QED BY <1>1, <1>2, <1>4, <1>5

LEMMA StallStep ==
    ASSUME TypeOK, OneSessionPerPrefix, Window =< MaxPerCts, StallInv, [Next]_vars
    PROVE  StallInv'
<1>1. CASE Receives
  <2>1. PICK f : f = Head(toRx)
    OBVIOUS
  <2> QED BY <1>1, <2>1, StallAnnounced, StallPeerAborts, StallDataIgnored, StallDataRefused,
             StallDataTaken DEF Receives
<1>2. CASE LoseFrame
  <2>1. PICK f : f = Head(toRx)
    OBVIOUS
  <2> QED BY <1>2, <2>1, StallLosesFrame
<1>3. CASE Tick \/ UNCHANGED vars
  BY <1>3, StallPasses
<1>4. ASSUME NEW a \in Source, TakeControl(a) \/ BamPacket(a) \/ LoseAnswer(a)
      PROVE  StallInv'
  <2>1. PICK f : f = Head(toTx[a])
    OBVIOUS
  <2> QED BY <1>4, <2>1, StallTakesControl, StallPasses, StallLosesAnswer
<1>5. ASSUME NEW a \in Source, NEW p \in Pgn, StartTransfer(a, p) \/ StartBam(a, p)
      PROVE  StallInv'
  BY <1>5, StallBegins
<1>6. ASSUME NEW a \in Source, NEW p \in Pgn,
             DrainPending(a, p) \/ PollTimeouts(a, p) \/ \E g \in Stray : ForeignGrant(a, p, g)
      PROVE  StallInv'
  BY <1>6, StallPasses
<1> QED BY <1>1, <1>2, <1>3, <1>4, <1>5, <1>6 DEF Next

\* Something is on its way that will move every transfer a source is in, whatever was
\* aborted, refused, replaced or granted by another node, unless the transfer met a loss
\* or its session was dropped without a word; for sources whose RTS (byte 5) asks for no
\* smaller grants than the receiver's window.
THEOREM NothingStallsSilently ==
    ASSUME Window =< MaxPerCts PROVE Spec => []NoSilentStall
<1>1. Init => TypeOK /\ StallInv
  <2> SUFFICES ASSUME Init PROVE StallInv
    BY TypeInit
  <2>1. \A a \in Source : Live(a) = {}
    BY DEF Init, Live
  <2> QED BY <2>1 DEF StallInv
<1>2. TypeOK /\ StallInv /\ OneSessionPerPrefix /\ [Next]_vars => TypeOK' /\ StallInv'
  BY TypeStep, StallStep
<1>3. StallInv => NoSilentStall
  <2> SUFFICES ASSUME StallInv, NEW a \in Source, NEW p \in Live(a), tx[a][p].id \notin hurt
               PROVE  \/ \E k \in 1..Len(toRx) : toRx[k].id = tx[a][p].id
                      \/ \E k \in 1..Len(toTx[a]) : toTx[a][k].pgn = p
    BY DEF NoSilentStall
  <2>1. Moving(a, p, tx[a][p].id)
    BY DEF StallInv
  <2> QED BY <2>1 DEF Moving, Ending, Granting, Settles
<1> QED BY <1>1, <1>2, <1>3, PacketsHaveOneOwner, PTL DEF Spec
=============================================================================
