--------------------------- MODULE J1939Transport ---------------------------
(***************************************************************************)
(* J1939TransportProtocol: multi-packet messages over BAM (broadcast, no   *)
(* answer) and over RTS/CTS.  The receiving half is the tool's; the        *)
(* sending half is the same class at every Source, whose frames reach the  *)
(* receiver in order through toRx, and the receiver's answers reach the    *)
(* source through toTx.  Frames may be lost (the bus, a full queue, or a   *)
(* refusal of the gateway, which the caller logs and passes over), and a   *)
(* receiver of another make may send a source grants of its own.           *)
(*                                                                         *)
(* A packet's data is the number of the transfer it belongs to.  Each      *)
(* method runs under _sessions_lock, so a frame is one step.  Ages are     *)
(* counted in ticks and stop once they are past every timeout.             *)
(***************************************************************************)
EXTENDS Naturals, Sequences, FiniteSets

CONSTANTS
    Source, Pgn,
    Packets,                    \* total_packets of a message, by PGN
    MaxPerCts,                  \* byte 5 of an RTS: 255 in this code's own
    Window,                     \* rx_cts_window or the CTS cap
    Cap,                        \* MAX_CTS_PACKET_COUNT
    T1, T2, T3, T4,
    MaxPerSa, MaxSessions,      \* MAX_SESSIONS_PER_SA, MAX_CONCURRENT_SESSIONS
    Burst, StormWindow,         \* PREFIX_COLLISION_BURST, _WINDOW_S
    MaxTx, MaxHold, HoldWindow, MaxRewind,
    Parallel,                   \* may a source have transfers of two PGNs at once
    NoTx,
    Stray,                      \* grants of a third node: <<count, next packet>>
    MaxTransfers, MaxFaults,    \* bounds
    MaxFlight                   \* bound: frames on their way when another joins

ASSUME TransportAssumption ==
    /\ Packets \in [Pgn -> Nat \ {0}]
    /\ {MaxPerCts, Window, Cap, Burst} \subseteq Nat \ {0}
    /\ {T1, T2, T3, T4, MaxPerSa, MaxSessions, StormWindow, MaxTx, MaxHold,
        HoldWindow, MaxRewind, MaxTransfers, MaxFaults, MaxFlight} \subseteq Nat
    /\ Stray \subseteq Nat \X Nat
    /\ Window =< Cap /\ Parallel \in BOOLEAN

VARIABLES
    rx, perSa, marks,           \* _rx_sessions, _per_sa_sessions, _rts_prefix_marks
    tx, pending,                \* _tx_sessions; PGNs with an abort to be drained
    bam,                        \* the broadcast a source is in
    toRx, toTx,                 \* frames on their way
    started,                    \* history: the transfers, in the order they began
    delivered, acked,           \* history: completed messages; transfers the
                                \* source was told are complete
    unheard,                    \* history: transfers no session was opened for
    hurt,                       \* history: transfers that met a loss, or whose
                                \* session went without a word to the source
    astray,                     \* history: transfers that an answer meant for
                                \* another one may reach
    faults                      \* history: losses and stray grants so far

receiver == <<rx, perSa, marks>>
sender == <<tx, pending, bam>>
history == <<started, delivered, acked, unheard, hurt, astray, faults>>
vars == <<receiver, sender, toRx, toTx, history>>

\* The records of the tables and the frames.
Session == [sa : Source, bam : BOOLEAN, pgn : Pgn, id : Nat, next : Nat, age : Nat,
            pieces : SUBSET (Nat \X Nat)]
Transfer == [id : Nat, state : {"WAIT_CTS", "WAIT_ACK"}, next : Nat, age : Nat, hold : Nat,
             heldFor : Nat]
Broadcast == [id : Nat, pgn : Pgn, next : Nat]
CmFrame == [type : {"CM", "ABORT"}, sa : Source, bam : BOOLEAN, pgn : Pgn, id : Nat]
DtFrame == [type : {"DT"}, sa : Source, bam : BOOLEAN, seq : Nat, id : Nat]
Reply == [type : {"CTS", "ACK", "ABORT"}, pgn : Pgn, count : Nat, next : Nat]

ASSUME NoTxAssumption == NoTx \notin Transfer \cup Broadcast

TypeOK ==
    /\ rx \subseteq Session
    /\ tx \in [Source -> [Pgn -> Transfer \cup {NoTx}]]
    /\ bam \in [Source -> Broadcast \cup {NoTx}]
    /\ toRx \in Seq(CmFrame \cup DtFrame)
    /\ toTx \in [Source -> Seq(Reply)]
    /\ pending \in [Source -> SUBSET Pgn]
    /\ started \in Seq([sa : Source, bam : BOOLEAN, pgn : Pgn])

NoMark == [age |-> 0, count |-> 0]

Init ==
    /\ rx = {} /\ perSa = [a \in Source |-> 0]
    /\ marks = [x \in Source \X BOOLEAN |-> NoMark]
    /\ tx = [a \in Source |-> [p \in Pgn |-> NoTx]]
    /\ pending = [a \in Source |-> {}]
    /\ bam = [a \in Source |-> NoTx]
    /\ toRx = <<>> /\ toTx = [a \in Source |-> <<>>]
    /\ started = <<>> /\ delivered = {} /\ acked = {}
    /\ unheard = {} /\ hurt = {} /\ astray = {} /\ faults = 0

Least(a, b) == IF a < b THEN a ELSE b

\* TP.CM frames that open or abort, and TP.DT, which carries no PGN.
Cm(type, a, b, p, i) == [type |-> type, sa |-> a, bam |-> b, pgn |-> p, id |-> i]
Dt(a, b, seq, i) == [type |-> "DT", sa |-> a, bam |-> b, seq |-> seq, id |-> i]

Answer(type, p, count, next) == [type |-> type, pgn |-> p, count |-> count, next |-> next]
Abort(p) == Answer("ABORT", p, 0, 0)

-----------------------------------------------------------------------------
(* The receiver's table of sessions.                                       *)

Key(s) == <<s.sa, s.bam, s.pgn>>
Prefix(s) == <<s.sa, s.bam>>

Overdue(s) == s.age > IF s.bam THEN T1 ELSE T4

Fresh == {s \in rx : ~Overdue(s)}

\* Mutant: a released session keeps its slot.
KeepSlots(count, gone) == count

\* The slots left once the sessions in gone are released.
FreeSlots(count, gone) ==
    [a \in Source |->
        LET n == Cardinality({s \in gone : s.sa = a}) IN
        IF n > count[a] THEN 0 ELSE count[a] - n]

Tell(a, answers) == toTx' = [toTx EXCEPT ![a] = @ \o answers]

GrantOf(p, max) == Least(Least(Packets[p], max), Least(Window, Cap))

\* Mutant: a new session waits for the second packet.
OpenedAtSecond(f) == [sa |-> f.sa, bam |-> f.bam, pgn |-> f.pgn, id |-> f.id,
                      next |-> 2, age |-> 0, pieces |-> {}]

Opened(f) == [sa |-> f.sa, bam |-> f.bam, pgn |-> f.pgn, id |-> f.id,
              next |-> 1, age |-> 0, pieces |-> {}]

Ids(S) == {s.id : s \in S}

\* A mark of an earlier window counts no more.
Storm(m) == m.count >= Burst /\ m.age =< StormWindow

Marked(m) == IF m.count = 0 \/ m.age > StormWindow THEN [age |-> 0, count |-> 1]
                                                   ELSE [m EXCEPT !.count = @ + 1]

\* Quota, capacity and the new session, once the sessions in old made room.
OpenSession(f, old) ==
    LET kept == Fresh \ old
        free == FreeSlots(perSa, rx \ kept)
        aborts == IF f.bam \/ old = {} THEN <<>> ELSE <<Abort((CHOOSE s \in old : TRUE).pgn)>>
        silent == Ids(rx \ Fresh) \cup IF f.bam THEN Ids(old) ELSE {}
    IN  \/ /\ free[f.sa] >= MaxPerSa
           /\ rx' = kept /\ perSa' = free
           /\ Tell(f.sa, aborts)
           /\ unheard' = unheard \cup {f.id}
           /\ hurt' = hurt \cup silent \cup {f.id}
        \/ /\ free[f.sa] < MaxPerSa
           /\ \E out \in IF Cardinality(kept) < MaxSessions THEN {{}}
                         ELSE {{s} : s \in {s \in kept : \A t \in kept : t.age =< s.age}} :
                /\ rx' = (kept \ out) \cup {Opened(f)}
                /\ perSa' = [FreeSlots(free, out) EXCEPT ![f.sa] = @ + 1]
                /\ hurt' = hurt \cup silent \cup Ids(out)
           /\ Tell(f.sa, aborts \o IF f.bam THEN <<>>
                                   ELSE <<Answer("CTS", f.pgn, GrantOf(f.pgn, MaxPerCts), 1)>>)
           /\ UNCHANGED unheard

\* BAM and RTS: a session of the same PGN, or one of another PGN unless these come
\* too fast, makes room for the new one.
Announced ==
    LET f == Head(toRx)
        same == {s \in Fresh : Key(s) = Key(f)}
        live == {s \in Fresh : Prefix(s) = Prefix(f)}
        x == Prefix(f)
    IN  /\ toRx # <<>> /\ f.type = "CM"
        /\ toRx' = Tail(toRx)
        /\ \/ /\ same # {} \/ live = {}
              /\ OpenSession(f, same)
              /\ UNCHANGED marks
           \/ /\ same = {} /\ live # {} /\ ~Storm(marks[x])
              /\ marks' = [marks EXCEPT ![x] = Marked(@)]
              /\ \E s \in live : OpenSession(f, {s})
           \/ /\ same = {} /\ live # {} /\ Storm(marks[x])
              /\ rx' = Fresh /\ perSa' = FreeSlots(perSa, rx \ Fresh)
              /\ Tell(f.sa, IF f.bam THEN <<>> ELSE <<Abort(f.pgn)>>)
              /\ unheard' = unheard \cup {f.id}
              /\ hurt' = hurt \cup Ids(rx \ Fresh)
              /\ UNCHANGED marks
        /\ UNCHANGED <<sender, started, delivered, acked, astray, faults>>

\* The peer aborts a transfer to us.
PeerAborts ==
    LET f == Head(toRx)
        gone == {s \in rx : Overdue(s) \/ Key(s) = Key(f)}
    IN  /\ toRx # <<>> /\ f.type = "ABORT"
        /\ toRx' = Tail(toRx)
        /\ rx' = rx \ gone /\ perSa' = FreeSlots(perSa, gone)
        /\ hurt' = hurt \cup Ids(gone)
        /\ UNCHANGED <<sender, toTx, marks, started, delivered, acked, unheard, astray, faults>>

\* _lookup_dt_session(): the sessions a packet may be for.
Owners(f) ==
    LET all == {s \in rx : Prefix(s) = Prefix(f)} IN
    IF Cardinality(all) =< 1 THEN all ELSE {s \in all : s.next = f.seq}

Drops(S) ==
    /\ rx' = rx \ S /\ perSa' = FreeSlots(perSa, S)

Stays == UNCHANGED <<marks, sender, started, acked, unheard, astray, faults>>

\* Mutant: a packet out of order is taken for the next one.
AnyOrder(s, f) == TRUE

InOrder(s, f) == s.next = f.seq

\* A packet that nothing, or more than one session, waits for.
DataIgnored ==
    LET f == Head(toRx)
        all == Owners(f)
    IN  /\ toRx # <<>> /\ f.type = "DT" /\ Cardinality(all) # 1
        /\ toRx' = Tail(toRx)
        /\ Drops(all)
        /\ hurt' = hurt \cup Ids(all)
        /\ UNCHANGED <<toTx, delivered>> /\ Stays

\* Mutant: a session that ends on a bad packet ends without a word.
SilentRefusal(s) == <<>>

Refusal(s) == IF s.bam THEN <<>> ELSE <<Abort(s.pgn)>>

\* A packet too late or out of order ends the session.
DataRefused ==
    LET f == Head(toRx)
    IN  /\ toRx # <<>> /\ f.type = "DT"
        /\ \E s \in rx :
            /\ Owners(f) = {s} /\ (Overdue(s) \/ ~InOrder(s, f))
            /\ Drops({s})
            /\ Tell(f.sa, Refusal(s))
            /\ hurt' = IF s.bam THEN hurt \cup {s.id} ELSE hurt
        /\ toRx' = Tail(toRx)
        /\ UNCHANGED delivered /\ Stays

IsWhole(s) == s.next > Packets[s.pgn]

\* A packet in order, the last one with the message and its acknowledgement.
DataTaken ==
    LET f == Head(toRx)
    IN  /\ toRx # <<>> /\ f.type = "DT"
        /\ \E s \in rx :
            LET t == [s EXCEPT !.next = @ + 1, !.age = 0, !.pieces = @ \cup {<<f.id, f.seq>>}]
                left == Packets[s.pgn] - s.next
            IN  /\ Owners(f) = {s} /\ ~Overdue(s) /\ InOrder(s, f)
                /\ \/ /\ IsWhole(t)
                      /\ Drops({s})
                      /\ delivered' = delivered \cup {[pgn |-> s.pgn, id |-> s.id,
                                                       pieces |-> t.pieces]}
                      /\ Tell(f.sa, IF s.bam THEN <<>> ELSE <<Answer("ACK", s.pgn, 0, 0)>>)
                   \/ /\ ~IsWhole(t)
                      /\ rx' = (rx \ {s}) \cup {t}
                      /\ UNCHANGED <<perSa, delivered>>
                      /\ Tell(f.sa, IF s.bam \/ s.next % Window # 0 THEN <<>>
                                    ELSE <<Answer("CTS", s.pgn, Least(Least(Window, left), Cap),
                                                  t.next)>>)
        /\ toRx' = Tail(toRx)
        /\ UNCHANGED hurt /\ Stays

-----------------------------------------------------------------------------
(* The sender.                                                             *)

Live(a) == {p \in Pgn : tx[a][p] # NoTx}

Expired(s) ==
    \/ s.state = "WAIT_CTS" /\ s.age > T2
    \/ s.state = "WAIT_ACK" /\ s.age > T3

NextId == Len(started) + 1

\* Something of an earlier transfer of the PGN may still be answered.
Unquiet(a, p) ==
    \/ <<a, FALSE, p>> \in {Key(s) : s \in rx}
    \/ \E k \in 1..Len(toRx) :
            LET i == toRx[k].id IN i # 0 /\ started[i] = [sa |-> a, bam |-> FALSE, pgn |-> p]
    \/ \E k \in 1..Len(toTx[a]) : toTx[a][k].pgn = p

\* start_cmdt_transfer(): the aborts of reaped sessions are only queued.
StartTransfer(a, p) ==
    LET late == {q \in Live(a) : Expired(tx[a][q])}
        left == Live(a) \ late
        new == [id |-> NextId, state |-> "WAIT_CTS", next |-> 1, age |-> 0,
                hold |-> 0, heldFor |-> 0]
    IN  /\ NextId =< MaxTransfers /\ Len(toRx) < MaxFlight
        /\ Parallel \/ left \subseteq {p}
        /\ \E out \in IF Cardinality(left) < MaxTx THEN {{}}
                      ELSE {{q} : q \in {q \in left : \A r \in left :
                                            tx[a][r].age =< tx[a][q].age}} :
            /\ tx' = [tx EXCEPT ![a] = [q \in Pgn |-> IF q = p THEN new
                                        ELSE IF q \in late \cup out THEN NoTx ELSE @[q]]]
            /\ pending' = [pending EXCEPT ![a] = @ \cup late \cup out]
        /\ started' = Append(started, [sa |-> a, bam |-> FALSE, pgn |-> p])
        /\ toRx' = Append(toRx, Cm("CM", a, FALSE, p, NextId))
        /\ astray' = IF Unquiet(a, p) THEN astray \cup {NextId} ELSE astray
        /\ UNCHANGED <<receiver, bam, toTx, delivered, acked, unheard, hurt, faults>>

\* The caller drains what start_cmdt_transfer() has queued.
DrainPending(a, p) ==
    /\ p \in pending[a]
    /\ pending' = [pending EXCEPT ![a] = @ \ {p}]
    /\ toRx' = Append(toRx, Cm("ABORT", a, FALSE, p, 0))
    /\ UNCHANGED <<receiver, tx, bam, toTx, history>>

\* poll_cmdt_timeouts() and advance_cmdt_transfer(): a session that waited too
\* long is aborted.
PollTimeouts(a, p) ==
    /\ p \in Live(a) /\ Expired(tx[a][p])
    /\ tx' = [tx EXCEPT ![a][p] = NoTx]
    /\ toRx' = Append(toRx, Cm("ABORT", a, FALSE, p, 0))
    /\ UNCHANGED <<receiver, pending, bam, toTx, history>>

\* The packets of a grant.
Batch(a, s, next, last) == [k \in 1..last + 1 - next |-> Dt(a, FALSE, next + k - 1, s.id)]

\* A grant from packet f.next on: the packets go out at once.
Granted(a, f, s) ==
    LET last == Least(f.next + f.count - 1, Packets[f.pgn])
    IN  /\ tx' = [tx EXCEPT ![a][f.pgn] =
                    [s EXCEPT !.state = IF last = Packets[f.pgn] THEN "WAIT_ACK" ELSE "WAIT_CTS",
                              !.next = last + 1, !.age = 0, !.hold = 0, !.heldFor = 0]]
        /\ toRx' = toRx \o Batch(a, s, f.next, last)

HoldStarts(s) == s.hold = 0 \/ s.heldFor > HoldWindow

\* A grant of no packets holds the connection, so many times in a window.
Held(s) ==
    [s EXCEPT !.state = "WAIT_CTS", !.age = 0,
              !.hold = IF HoldStarts(s) THEN 1 ELSE @ + 1,
              !.heldFor = IF HoldStarts(s) THEN 0 ELSE @]

BadGrant(f, s) ==
    \/ f.next = 0 \/ f.next > Packets[f.pgn] \/ f.next > s.next
    \/ f.count > Cap
    \/ f.count = 0 /\ Held(s).hold > MaxHold
    \/ f.count > 0 /\ s.next > f.next + MaxRewind

Ends(a, p) == tx' = [tx EXCEPT ![a][p] = NoTx]

AckExpected(s) == s.state = "WAIT_ACK"

\* _handle_tx_cm()
TakeControl(a) ==
    LET f == Head(toTx[a])
        s == tx[a][f.pgn]
        aborts == Append(toRx, Cm("ABORT", a, FALSE, f.pgn, 0))
    IN  /\ toTx[a] # <<>>
        /\ toTx' = [toTx EXCEPT ![a] = Tail(@)]
        /\ \/ /\ s = NoTx
              /\ UNCHANGED <<tx, toRx, acked>>
           \/ /\ s # NoTx /\ f.type = "CTS" /\ BadGrant(f, s)
              /\ Ends(a, f.pgn) /\ toRx' = aborts
              /\ UNCHANGED acked
           \/ /\ s # NoTx /\ f.type = "CTS" /\ ~BadGrant(f, s) /\ f.count = 0
              /\ tx' = [tx EXCEPT ![a][f.pgn] = Held(s)]
              /\ UNCHANGED <<toRx, acked>>
           \/ /\ s # NoTx /\ f.type = "CTS" /\ ~BadGrant(f, s) /\ f.count > 0
              /\ Granted(a, f, s)
              /\ UNCHANGED acked
           \/ /\ s # NoTx /\ f.type = "ACK" /\ AckExpected(s)
              /\ Ends(a, f.pgn)
              /\ acked' = acked \cup {s.id}
              /\ UNCHANGED toRx
           \/ /\ s # NoTx /\ f.type = "ACK" /\ ~AckExpected(s)
              /\ Ends(a, f.pgn) /\ toRx' = aborts
              /\ UNCHANGED acked
           \/ /\ s # NoTx /\ f.type = "ABORT"
              /\ Ends(a, f.pgn)
              /\ UNCHANGED <<toRx, acked>>
        /\ UNCHANGED <<receiver, pending, bam, started, delivered, unheard, hurt, astray, faults>>

\* start_tp_bam(): the announcement, then the packets, whatever becomes of them.
StartBam(a, p) ==
    /\ NextId =< MaxTransfers /\ Len(toRx) < MaxFlight
    /\ started' = Append(started, [sa |-> a, bam |-> TRUE, pgn |-> p])
    /\ bam' = [bam EXCEPT ![a] = [id |-> NextId, pgn |-> p, next |-> 1]]
    /\ toRx' = Append(toRx, Cm("CM", a, TRUE, p, NextId))
    /\ UNCHANGED <<receiver, tx, pending, toTx, delivered, acked, unheard, hurt, astray, faults>>

BamPacket(a) ==
    LET b == bam[a]
    IN  /\ b # NoTx /\ Len(toRx) < MaxFlight
        /\ toRx' = Append(toRx, Dt(a, TRUE, b.next, b.id))
        /\ bam' = [bam EXCEPT ![a] = IF b.next = Packets[b.pgn] THEN NoTx
                                     ELSE [b EXCEPT !.next = @ + 1]]
        /\ UNCHANGED <<receiver, tx, pending, toTx, history>>

-----------------------------------------------------------------------------
(* External: the bus, time and receivers of another make.                  *)

LoseFrame ==
    LET f == Head(toRx)
    IN  /\ faults < MaxFaults /\ faults' = faults + 1
        /\ toRx # <<>> /\ toRx' = Tail(toRx)
        /\ unheard' = IF f.type = "CM" THEN unheard \cup {f.id} ELSE unheard
        /\ hurt' = hurt \cup {f.id}
        /\ UNCHANGED <<receiver, sender, toTx, started, delivered, acked, astray>>

LoseAnswer(a) ==
    LET s == tx[a][Head(toTx[a]).pgn]
    IN  /\ faults < MaxFaults /\ faults' = faults + 1
        /\ toTx[a] # <<>> /\ toTx' = [toTx EXCEPT ![a] = Tail(@)]
        /\ hurt' = IF s = NoTx THEN hurt ELSE hurt \cup {s.id}
        /\ UNCHANGED <<receiver, sender, toRx, started, delivered, acked, unheard, astray>>

ForeignGrant(a, p, g) ==
    /\ faults < MaxFaults /\ faults' = faults + 1
    /\ p \in Live(a) /\ astray' = astray \cup {tx[a][p].id}
    /\ Tell(a, <<Answer("CTS", p, g[1], g[2])>>)
    /\ UNCHANGED <<receiver, sender, toRx, started, delivered, acked, unheard, hurt>>

Older(n, limit) == IF n > limit THEN n ELSE n + 1

Tick ==
    /\ rx' = {[s EXCEPT !.age = Older(@, IF s.bam THEN T1 ELSE T4)] : s \in rx}
    /\ marks' = [x \in DOMAIN marks |->
                    IF marks[x].count = 0 THEN marks[x]
                    ELSE [marks[x] EXCEPT !.age = Older(@, StormWindow)]]
    /\ tx' = [a \in Source |-> [p \in Pgn |->
                IF tx[a][p] = NoTx THEN NoTx
                ELSE LET s == tx[a][p] IN
                     [s EXCEPT !.age = Older(@, IF T2 > T3 THEN T2 ELSE T3),
                               !.heldFor = IF s.hold = 0 THEN 0 ELSE Older(@, HoldWindow)]]]
    /\ UNCHANGED <<perSa, pending, bam, toRx, toTx, history>>

Receives == Announced \/ PeerAborts \/ DataIgnored \/ DataRefused \/ DataTaken

Next ==
    \/ Receives \/ LoseFrame \/ Tick
    \/ \E a \in Source :
        \/ TakeControl(a) \/ BamPacket(a) \/ LoseAnswer(a)
        \/ \E p \in Pgn :
            \/ StartTransfer(a, p) \/ DrainPending(a, p) \/ PollTimeouts(a, p) \/ StartBam(a, p)
            \/ \E g \in Stray : ForeignGrant(a, p, g)

Spec == Init /\ [][Next]_vars

-----------------------------------------------------------------------------
\* A completed message has every packet, and they are of the transfer it was
\* announced as, unless the announcement of the transfer that lent the others
\* opened no session (transport.py: TP.DT carries no PGN, so a packet is given to
\* whatever session its source has).
WholeTransfers ==
    \A d \in delivered :
        /\ {x[2] : x \in d.pieces} = 1..Packets[d.pgn]
        /\ {x[1] : x \in d.pieces} \ {d.id} \subseteq unheard

\* A transfer that the sender takes for acknowledged was delivered whole under
\* its PGN, whatever was lost, timed out, evicted or replaced in between, unless
\* an answer to another transfer of that PGN could reach it (transport.py: an
\* EndOfMsgACK names the PGN and no transfer).
AckedIsDelivered ==
    \A i \in acked \ astray :
        LET p == started[i].pgn IN
        \E d \in delivered : d.pgn = p /\ d.pieces = {i} \X (1..Packets[p])

\* While a sender waits, something is on its way that will move it, unless the
\* transfer met a loss or its session was dropped without a word.
NoSilentStall ==
    \A a \in Source : \A p \in Live(a) :
        LET i == tx[a][p].id IN
        \/ i \in hurt
        \/ \E k \in 1..Len(toRx) : toRx[k].id = i
        \/ \E k \in 1..Len(toTx[a]) : toTx[a][k].pgn = p

\* A source holds exactly the quota slots of its sessions: none leaks on any of
\* the paths that drop, replace, evict or complete one.
SlotsExact == \A a \in Source : perSa[a] = Cardinality({s \in rx : s.sa = a})

\* A source has one session for broadcasts and one for transfers to us, so that
\* a packet has one session it can be for.
OneSessionPerPrefix == \A s, t \in rx : Prefix(s) = Prefix(t) => s = t

-----------------------------------------------------------------------------
(* The inductive invariants behind the first two, for sources that have one *)
(* transfer at a time.                                                      *)

\* The transfers whose packets a source is still sending, of one kind.
Sending ==
    [x \in Source \X BOOLEAN |-> IF x[2] THEN {b.id : b \in {bam[x[1]]} \ {NoTx}}
                                        ELSE {tx[x[1]][p].id : p \in Live(x[1])}]

\* A packet of transfer j, behind position k of a bus and before l, finds there the
\* session of transfer i: it belongs to i, or to a later transfer that will have been
\* announced by then or that opened no session.
Explained(bus, unopened, x, j, i, k, l) ==
    \/ j = i
    \/ j > i /\ j \in unopened
    \/ j > i /\ \E m \in k + 1 .. l - 1 :
                    bus[m].type = "CM" /\ Prefix(bus[m]) = x /\ bus[m].id = j

\* What is on its way behind position k, and will be sent (ids), after transfer i of a
\* source has been announced there.
Orderly(bus, unopened, ids, x, i, k) ==
    /\ \A l \in k + 1 .. Len(bus) : Prefix(bus[l]) = x =>
          /\ bus[l].type = "CM" => bus[l].id > i
          /\ bus[l].type = "DT" => Explained(bus, unopened, x, bus[l].id, i, k, l)
    /\ \A j \in ids : Explained(bus, unopened, x, j, i, k, Len(bus) + 1)

OrderInv ==
    /\ \A s \in rx : Orderly(toRx, unheard, Sending[Prefix(s)], Prefix(s), s.id, 0)
    /\ \A k \in 1..Len(toRx) : toRx[k].type = "CM" =>
          Orderly(toRx, unheard, Sending[Prefix(toRx[k])], Prefix(toRx[k]), toRx[k].id, k)

\* Every number names a transfer that was started, of the source that uses it.
NamesInv ==
    /\ \A s \in rx : s.id \in 1..Len(started)
    /\ \A k \in 1..Len(toRx) :
          /\ toRx[k].id =< Len(started)
          /\ toRx[k].type = "CM" =>
                /\ toRx[k].id > 0
                /\ started[toRx[k].id] = [sa |-> toRx[k].sa, bam |-> toRx[k].bam,
                                          pgn |-> toRx[k].pgn]
    /\ \A a \in Source :
          /\ bam[a] # NoTx => bam[a].id \in 1..Len(started)
          /\ \A p \in Live(a) :
                /\ tx[a][p].id \in 1..Len(started)
                /\ started[tx[a][p].id] = [sa |-> a, bam |-> FALSE, pgn |-> p]
    /\ acked \subseteq 1..Len(started)

\* A session has the packets up to the next one, its own or of transfers that opened
\* no session.
PiecesInv ==
    /\ \A s \in rx :
          /\ s.next \in 1..Packets[s.pgn]
          /\ {x[2] : x \in s.pieces} = 1..s.next - 1
          /\ \A x \in s.pieces : x[1] = s.id \/ x[1] \in unheard
    /\ WholeTransfers

\* What the receiver has of the transfer i of PGN p that source a is in: its session
\* holds packets of i only, and an acknowledgement on its way is for i.
Matched(sessions, bus, answers, done, a, p, i) ==
    /\ \A s \in sessions : Key(s) = <<a, FALSE, p>> =>
          s.id = i /\ \A x \in s.pieces : x[1] = i
    /\ \A k \in 1..Len(bus) :
          bus[k].type = "CM" /\ Key(bus[k]) = <<a, FALSE, p>> => bus[k].id = i
    /\ \A k \in 1..Len(answers) : answers[k].type = "ACK" /\ answers[k].pgn = p =>
          \E d \in done : d.pgn = p /\ d.pieces = {i} \X (1..Packets[p])

\* A source is in one transfer at a time, nothing younger than it is on the bus, and
\* unless it has gone astray the receiver's half matches it.
AckInv ==
    /\ \A a \in Source : \A p, q \in Live(a) : p = q
    /\ \A a \in Source : \A p \in Live(a) :
          /\ \A k \in 1..Len(toRx) : Prefix(toRx[k]) = <<a, FALSE>> => toRx[k].id =< tx[a][p].id
          /\ tx[a][p].id \notin astray =>
                Matched(rx, toRx, toTx[a], delivered, a, p, tx[a][p].id)
    /\ AckedIsDelivered

(* And behind NoSilentStall, for sources with any number of transfers.     *)

\* The packets after which the receiver has something to say.
Boundary(p, n) == n % Window = 0 \/ n = Packets[p]

\* A grant that reaches such a packet.
FullGrant(r) ==
    /\ r.type = "CTS" /\ r.count > 0
    /\ Boundary(r.pgn, Least(r.next + r.count - 1, Packets[r.pgn]))

\* A packet that a session will answer, in order or not: one it already has, or one
\* with a boundary on the way to it.
Settles(f, s) ==
    /\ f.type = "DT" /\ f.id = s.id /\ Prefix(f) = Prefix(s)
    /\ f.seq < s.next \/ \E n \in s.next .. f.seq : Boundary(s.pgn, n)

\* On the way to source a, for PGN p: an answer that ends the transfer, or a grant.
Ending(a, p) == \E k \in 1..Len(toTx[a]) : toTx[a][k].pgn = p /\ toTx[a][k].type # "CTS"

Granting(a, p) == \E k \in 1..Len(toTx[a]) : toTx[a][k].pgn = p /\ FullGrant(toTx[a][k])

\* What moves transfer i: its announcement, an answer that ends it, or its session with
\* a grant or a packet that leads to an answer.
Moving(a, p, i) ==
    \/ \E k \in 1..Len(toRx) :
            toRx[k].type = "CM" /\ toRx[k].id = i /\ Key(toRx[k]) = <<a, FALSE, p>>
    \/ Ending(a, p)
    \/ \E s \in rx :
            /\ s.id = i /\ Key(s) = <<a, FALSE, p>>
            /\ Granting(a, p) \/ \E k \in 1..Len(toRx) : Settles(toRx[k], s)

StallInv ==
    \A a \in Source : \A p \in Live(a) :
        tx[a][p].id \in hurt \/ Moving(a, p, tx[a][p].id)
=============================================================================
