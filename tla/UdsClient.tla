------------------------------ MODULE UdsClient ------------------------------
(***************************************************************************)
(* UdsClient over IsoTpTransport: the clients the application makes for    *)
(* one ECU (create_uds_client() makes one per flash and per UDS action),   *)
(* each with its own operation lock, its own subscription queue of the     *)
(* frame router and its own reassembly session, but all with the same two  *)
(* arbitration ids.  An exchange holds its client's lock from the First    *)
(* Frame to the answer; the flasher's keep-alive thread sends TesterPresent *)
(* under the same lock.                                                    *)
(*                                                                         *)
(* The ECU is external: an ISO-TP peer that takes the frames in order,     *)
(* answers its requests in order and as it likes, and may break off.  A    *)
(* payload is the number of the request it belongs to; time passes in      *)
(* ticks of one second, and STmin pacing takes none.                       *)
(***************************************************************************)
EXTENDS Naturals, Sequences, FiniteSets

CONSTANTS
    Client,
    Service, Did,               \* service identifiers; what an answer echoes
    RequestCFs, AnswerCFs,      \* Consecutive Frames per service, 0 = Single Frame
    SNMod,                      \* 16: sequence numbers wrap
    NBs, Timeout, P2Star, Wall, NCr,    \* N_BS_TIMEOUT_S, timeout_s,
                                \* P2_STAR_TIMEOUT_S, the pending wall, TIMEOUT_SEC
    WftMax, MaxPending,         \* WFT_MAX, MAX_NRC_78_COUNT
    QueueSize,                  \* MAX_QUEUE_SIZE of the subscription queue
    Blocks,                     \* block sizes the ECU may grant, 0 = all
    MaxRequests                 \* bound: exchanges begun

ASSUME UdsAssumption ==
    /\ RequestCFs \in [Service -> Nat] /\ AnswerCFs \in [Service -> Nat]
    /\ {NBs, Timeout, P2Star, Wall, NCr, SNMod, QueueSize} \subseteq Nat \ {0}
    /\ {WftMax, MaxPending, MaxRequests} \subseteq Nat /\ Blocks \subseteq Nat
    /\ Timeout =< Wall

VARIABLES
    issued,                     \* the requests so far, in the order they began
    ex,                         \* the exchange each client's lock holder is in
    queue,                      \* rx_queue of each SafeMultiplexedBus
    session,                    \* the transport's reassembly session
    toEcu, rxEcu, jobs, txEcu,  \* external: the bus and the ECU
    gaveUp, accepted,           \* history: exchanges that raised; <<exchange,
                                \* the request its answer was given to>>
    broken,                     \* history: <<request, client>>: the client cut
                                \* off a request still being sent
    overrun                     \* history: requests with a Consecutive Frame the
                                \* ECU had not granted

tool == <<issued, ex, session>>
ecu == <<toEcu, rxEcu, jobs, txEcu>>
history == <<gaveUp, accepted, broken, overrun>>
vars == <<tool, queue, ecu, history>>

Idle == [phase |-> "idle", req |-> 0, sent |-> 0, left |-> 0, wft |-> 0,
         slack |-> 0, wall |-> 0, pend |-> 0]
None == [of |-> 0]

Init ==
    /\ issued = <<>>
    /\ ex = [c \in Client |-> Idle]
    /\ queue = [c \in Client |-> <<>>]
    /\ session = [c \in Client |-> None]
    /\ toEcu = <<>> /\ rxEcu = None /\ jobs = <<>> /\ txEcu = None
    /\ gaveUp = {} /\ accepted = {} /\ broken = {} /\ overrun = {}

Least(a, b) == IF a < b THEN a ELSE b

LockFree(c) == ex[c].phase = "idle"

Svc(i) == issued[i].svc

\* The ids of the frames a client sends are the number of the request; the
\* keep-alive has none.
Send(f) == toEcu' = Append(toEcu, f)

ToEcu(c, type, i) == [type |-> type, of |-> i, by |-> c]

AwaitAnswer(e) ==
    [e EXCEPT !.phase = "answer", !.slack = Timeout, !.wall = Wall, !.pend = 0]

AwaitFlowControl(e) == [e EXCEPT !.phase = "fc", !.slack = NBs]

Raises(c) ==
    /\ ex' = [ex EXCEPT ![c] = Idle]
    /\ gaveUp' = gaveUp \cup {ex[c].req}

-----------------------------------------------------------------------------
(* _send_and_receive(): the request.                                       *)

Begin(c, svc, did) ==
    LET i == Len(issued) + 1
        e == [Idle EXCEPT !.req = i]
        single == RequestCFs[svc] = 0
    IN  /\ LockFree(c) /\ Len(issued) < MaxRequests
        /\ issued' = Append(issued, [client |-> c, svc |-> svc, did |-> did])
        /\ Send(ToEcu(c, IF single THEN "SF" ELSE "FF", i))
        /\ ex' = [ex EXCEPT ![c] = IF single THEN AwaitAnswer(e)
                                              ELSE AwaitFlowControl(e)]
        /\ UNCHANGED <<session, queue, rxEcu, jobs, txEcu, history>>

\* Mutant: a WAIT is not counted.
UncountedWait(e) == e.wft

CountedWait(e) == e.wft + 1

\* _await_flow_control_sync() takes one frame; what is no Flow Control is lost.
TakeFlowControl(c) ==
    LET f == Head(queue[c])
        waits == CountedWait(ex[c])
    IN  /\ ex[c].phase = "fc" /\ ex[c].slack > 0 /\ queue[c] # <<>>
        /\ queue' = [queue EXCEPT ![c] = Tail(@)]
        /\ \/ /\ f.type # "FC"
              /\ UNCHANGED <<ex, gaveUp>>
           \/ /\ f.type = "FC" /\ f.status = "CTS"
              /\ ex' = [ex EXCEPT ![c].phase = "block", ![c].left = f.bs, ![c].wft = 0]
              /\ UNCHANGED gaveUp
           \/ /\ f.type = "FC" /\ f.status = "WAIT" /\ waits =< WftMax
              /\ ex' = [ex EXCEPT ![c] = AwaitFlowControl([@ EXCEPT !.wft = waits])]
              /\ UNCHANGED gaveUp
           \/ /\ f.type = "FC"
              /\ (f.status = "WAIT" /\ waits > WftMax) \/ f.status = "OVERFLOW"
              /\ Raises(c)
        /\ UNCHANGED <<issued, session, ecu, accepted, broken, overrun>>

\* Mutant: the block ends one frame late.
BlockEndsLate(e) == FALSE

BlockEnds(e) == e.left = 1

SendConsecutiveFrame(c) ==
    LET e == [ex[c] EXCEPT !.sent = @ + 1, !.left = IF @ = 0 THEN 0 ELSE @ - 1]
    IN  /\ ex[c].phase = "block"
        /\ Send(ToEcu(c, "CF", e.req))
        /\ ex' = [ex EXCEPT ![c] =
                    IF e.sent = RequestCFs[Svc(e.req)] THEN AwaitAnswer(e)
                    ELSE IF BlockEnds(ex[c]) THEN AwaitFlowControl(e) ELSE e]
        /\ UNCHANGED <<issued, session, queue, rxEcu, jobs, txEcu, history>>

\* The gateway refuses a Consecutive Frame.
Refused(c) ==
    /\ ex[c].phase = "block"
    /\ Raises(c)
    /\ UNCHANGED <<issued, session, queue, ecu, accepted, broken, overrun>>

\* N_Bs, the response window or the pending wall has run out.
Expires(c) ==
    /\ ex[c].phase \in {"fc", "answer"} /\ ex[c].slack = 0
    /\ Raises(c)
    /\ UNCHANGED <<issued, session, queue, ecu, accepted, broken, overrun>>

\* Mutant: tester_present() does not take the operation lock.
WithoutLock(c) == TRUE

KeepAliveHasLock(c) == LockFree(c)

\* tester_present(suppress_response=True) on the keep-alive thread.
KeepAlive(c) ==
    /\ KeepAliveHasLock(c)
    /\ \A k \in 1..Len(toEcu) : toEcu[k].type # "SF" \/ toEcu[k].of # 0
                                                \* bound: one on the bus
    /\ Send(ToEcu(c, "SF", 0))
    /\ UNCHANGED <<tool, queue, rxEcu, jobs, txEcu, history>>

-----------------------------------------------------------------------------
(* handle_rx_frame(): reassembly of the answer.                            *)

\* The session after a frame, and whether that completed it.
Reassembles(s, f) ==
    CASE f.type = "SF" -> [s |-> None, done |-> TRUE]
      [] f.type = "FF" -> [s |-> [of |-> f.of, kind |-> f.kind, got |-> 0, age |-> 0],
                           done |-> FALSE]
      [] f.type = "CF" /\ s # None /\ s.age =< NCr /\ f.sn = (s.got + 1) % SNMod ->
            LET t == [s EXCEPT !.got = @ + 1, !.age = 0] IN
            IF t.got = AnswerCFs[Svc(t.of)] THEN [s |-> None, done |-> TRUE]
                                            ELSE [s |-> t, done |-> FALSE]
      [] f.type = "CF" /\ ~(s # None /\ s.age =< NCr /\ f.sn = (s.got + 1) % SNMod) ->
            [s |-> None, done |-> FALSE]
      [] f.type = "FC" -> [s |-> s, done |-> FALSE]

\* The service must be the expected one; a positive answer echoes the request.
Matches(r, a) ==
    /\ Svc(a.of) = Svc(r)
    /\ a.kind = "positive" => issued[a.of].did = issued[r].did

\* Mutant: an answer that says "pending" is taken for the final one.
PendingIsFinal(a) == FALSE

IsPending(a) == a.kind = "pending"

Extended(e) ==
    [e EXCEPT !.pend = @ + 1, !.slack = Least(P2Star, e.wall)]

Complete(c, a) ==
    LET e == ex[c]
    IN  \/ /\ ~Matches(e.req, a)
           /\ UNCHANGED <<ex, gaveUp, accepted>>
        \/ /\ Matches(e.req, a) /\ IsPending(a) /\ e.pend < MaxPending /\ e.wall > 0
           /\ ex' = [ex EXCEPT ![c] = Extended(@)]
           /\ UNCHANGED <<gaveUp, accepted>>
        \/ /\ Matches(e.req, a) /\ IsPending(a) /\ ~(e.pend < MaxPending /\ e.wall > 0)
           /\ Raises(c)
           /\ UNCHANGED accepted
        \/ /\ Matches(e.req, a) /\ ~IsPending(a)
           /\ ex' = [ex EXCEPT ![c] = Idle]
           /\ accepted' = accepted \cup {<<e.req, a.of>>}
           /\ UNCHANGED gaveUp

TakeAnswer(c) ==
    LET f == Head(queue[c])
        r == Reassembles(session[c], f)
    IN  /\ ex[c].phase = "answer" /\ ex[c].slack > 0 /\ queue[c] # <<>>
        /\ queue' = [queue EXCEPT ![c] = Tail(@)]
        /\ session' = [session EXCEPT ![c] = r.s]
        /\ IF f.type = "FF" THEN Send(ToEcu(c, "FC", 0)) ELSE UNCHANGED toEcu
        /\ IF r.done
           THEN Complete(c, IF f.type = "SF" THEN f ELSE session[c])
           ELSE UNCHANGED <<ex, gaveUp, accepted>>
        /\ UNCHANGED <<issued, rxEcu, jobs, txEcu, broken, overrun>>

\* The gateway refuses the Flow Control for the answer's First Frame.
FlowControlRefused(c) ==
    LET f == Head(queue[c])
    IN  /\ ex[c].phase = "answer" /\ ex[c].slack > 0
        /\ queue[c] # <<>> /\ f.type = "FF"
        /\ queue' = [queue EXCEPT ![c] = Tail(@)]
        /\ session' = [session EXCEPT ![c] = Reassembles(session[c], f).s]
        /\ Raises(c)
        /\ UNCHANGED <<issued, ecu, accepted, broken, overrun>>

Waiting(c) == ex[c].phase \in {"fc", "answer"}

Older(s) == IF s = None \/ s.age > NCr THEN s ELSE [s EXCEPT !.age = @ + 1]

\* A second passes: nothing that is due is overdue.
Tick ==
    /\ \A c \in Client : Waiting(c) => ex[c].slack > 0
    /\ \E c \in Client : Waiting(c)
    /\ ex' = [c \in Client |->
                IF Waiting(c)
                THEN [ex[c] EXCEPT !.slack = @ - 1, !.wall = IF @ = 0 THEN 0 ELSE @ - 1]
                ELSE ex[c]]
    /\ session' = [c \in Client |-> Older(session[c])]
    /\ UNCHANGED <<issued, queue, ecu, history>>

-----------------------------------------------------------------------------
(* External: the ECU and the bus.  route_frame() drops what a full queue   *)
(* has no room for.                                                        *)

Deliver(f) ==
    queue' = [c \in Client |-> IF Len(queue[c]) < QueueSize THEN Append(queue[c], f)
                                                            ELSE queue[c]]

\* A request that another one cuts off while its client still sends it.
CutOff(f) ==
    IF rxEcu # None /\ f.of # rxEcu.of /\ ex[issued[rxEcu.of].client].req = rxEcu.of
    THEN {<<rxEcu.of, f.by>>} ELSE {}

EcuTakes ==
    LET f == Head(toEcu)
        own == rxEcu # None /\ rxEcu.of = f.of
    IN  /\ toEcu # <<>> /\ toEcu' = Tail(toEcu)
        /\ \/ /\ f.type = "SF"
              /\ rxEcu' = None
              /\ jobs' = IF f.of = 0 THEN jobs ELSE Append(jobs, f.of)
              /\ broken' = broken \cup CutOff(f)
              /\ UNCHANGED <<txEcu, overrun>>
           \/ /\ f.type = "FF"
              /\ rxEcu' = [of |-> f.of, got |-> 0, grant |-> 0]
              /\ broken' = broken \cup CutOff(f)
              /\ UNCHANGED <<jobs, txEcu, overrun>>
           \/ /\ f.type = "CF" /\ own /\ rxEcu.got + 1 = RequestCFs[Svc(f.of)]
              /\ rxEcu' = None /\ jobs' = Append(jobs, f.of)
              /\ overrun' = IF rxEcu.grant = 0 THEN overrun \cup {f.of} ELSE overrun
              /\ UNCHANGED <<txEcu, broken>>
           \/ /\ f.type = "CF" /\ own /\ rxEcu.got + 1 # RequestCFs[Svc(f.of)]
              /\ rxEcu' = [rxEcu EXCEPT !.got = @ + 1, !.grant = IF @ = 0 THEN 0 ELSE @ - 1]
              /\ overrun' = IF rxEcu.grant = 0 THEN overrun \cup {f.of} ELSE overrun
              /\ UNCHANGED <<jobs, txEcu, broken>>
           \/ /\ f.type = "CF" /\ ~own
              /\ UNCHANGED <<rxEcu, jobs, txEcu, broken, overrun>>
           \/ /\ f.type = "FC"
              /\ txEcu' = IF txEcu = None THEN None ELSE [txEcu EXCEPT !.clear = TRUE]
              /\ UNCHANGED <<rxEcu, jobs, broken, overrun>>
        /\ UNCHANGED <<tool, queue, gaveUp, accepted>>

EcuFlowControl(status, bs) ==
    /\ rxEcu # None /\ rxEcu.grant = 0
    /\ Deliver([type |-> "FC", status |-> status, bs |-> bs])
    /\ rxEcu' = CASE status = "OVERFLOW" -> None
                  [] status = "WAIT" -> rxEcu
                  [] status = "CTS" ->
                        [rxEcu EXCEPT !.grant = IF bs = 0 THEN RequestCFs[Svc(rxEcu.of)]
                                                          ELSE bs]
    /\ UNCHANGED <<tool, toEcu, jobs, txEcu, history>>

EcuAnswers(kind) ==
    LET i == Head(jobs)
        long == kind = "positive" /\ AnswerCFs[Svc(i)] > 0
    IN  /\ jobs # <<>> /\ txEcu = None
        /\ Deliver([type |-> IF long THEN "FF" ELSE "SF", of |-> i, kind |-> kind])
        /\ jobs' = IF kind = "pending" THEN jobs ELSE Tail(jobs)
        /\ txEcu' = IF long THEN [of |-> i, sent |-> 0, clear |-> FALSE] ELSE None
        /\ UNCHANGED <<tool, toEcu, rxEcu, history>>

EcuContinues ==
    LET n == txEcu.sent + 1
    IN  /\ txEcu # None /\ txEcu.clear
        /\ Deliver([type |-> "CF", of |-> txEcu.of, sn |-> n % SNMod])
        /\ txEcu' = IF n = AnswerCFs[Svc(txEcu.of)] THEN None
                                                    ELSE [txEcu EXCEPT !.sent = n]
        /\ UNCHANGED <<tool, toEcu, rxEcu, jobs, history>>

\* The ECU gives up an answer it gets no Flow Control for.
EcuBreaksOff ==
    /\ txEcu # None
    /\ txEcu' = None
    /\ UNCHANGED <<tool, queue, toEcu, rxEcu, jobs, history>>

-----------------------------------------------------------------------------
Ecu ==
    \/ EcuTakes \/ EcuContinues \/ EcuBreaksOff
    \/ \E status \in {"CTS", "WAIT", "OVERFLOW"}, bs \in Blocks : EcuFlowControl(status, bs)
    \/ \E kind \in {"positive", "negative", "pending"} : EcuAnswers(kind)

\* The thread that holds the lock goes on, or a caller takes the lock.
Runs(c) ==
    TakeFlowControl(c) \/ SendConsecutiveFrame(c) \/ Expires(c) \/ TakeAnswer(c)

Next ==
    \/ \E c \in Client :
        \/ Runs(c) \/ Refused(c) \/ FlowControlRefused(c) \/ KeepAlive(c)
        \/ \E svc \in Service, did \in Did : Begin(c, svc, did)
    \/ Tick
    \/ Ecu

\* Time and the threads go on; nothing is asked of the ECU.
Spec == Init /\ [][Next]_vars /\ WF_vars(Tick) /\ \A c \in Client : WF_vars(Runs(c))

-----------------------------------------------------------------------------
Request == [client : Client, svc : Service, did : Did]

Exchange ==
    [phase : {"idle", "fc", "block", "answer"}, req : 0..MaxRequests, sent : Nat,
     left : Nat, wft : Nat, slack : Nat, wall : Nat, pend : Nat]

FrameToEcu ==
    [type : {"SF", "FC"}, of : 0..MaxRequests, by : Client]
    \cup [type : {"FF", "CF"}, of : 1..MaxRequests, by : Client]

Kind == {"positive", "negative", "pending"}

FrameToTool ==
    [type : {"FC"}, status : {"CTS", "WAIT", "OVERFLOW"}, bs : Blocks]
    \cup [type : {"SF", "FF"}, of : 1..MaxRequests, kind : Kind]
    \cup [type : {"CF"}, of : 1..MaxRequests, sn : 0..SNMod - 1]

Session == [of : 1..MaxRequests, kind : Kind, got : Nat, age : Nat]

TypeOK ==
    /\ issued \in Seq(Request) /\ Len(issued) =< MaxRequests
    /\ ex \in [Client -> Exchange]
    /\ queue \in [Client -> Seq(FrameToTool)]
    /\ session \in [Client -> {None} \cup Session]
    /\ toEcu \in Seq(FrameToEcu)
    /\ rxEcu \in {None} \cup [of : 1..MaxRequests, got : Nat, grant : Nat]
    /\ jobs \in Seq(1..MaxRequests)
    /\ txEcu \in {None} \cup [of : 1..MaxRequests, sent : Nat, clear : BOOLEAN]
    /\ broken \subseteq (1..Len(issued)) \X Client
    /\ \A c \in Client : ex[c].req = 0 <=> LockFree(c)

\* Request s of its client ended, but not with an answer to the client's own.
WithoutOwnAnswer(s) ==
    \/ s \in gaveUp
    \/ \E p \in accepted : p[1] = s /\ issued[p[2]].client # issued[s].client

\* An exchange takes the answer to another request only when that one was
\* another client's, or is overdue: before it a request of this client had ended
\* without an answer to one of its own, and since then none of this client's has
\* got its own answer (client.py: the echo check lets such an answer pass,
\* nothing empties the queue between two exchanges, and a client that repeats
\* its request stays one answer behind).
OnlyOverdueAnswers ==
    \A p \in accepted :
        LET r == p[1]  q == p[2]  c == issued[r].client IN
        \/ q = r \/ issued[q].client # c
        \/ /\ q < r /\ \E s \in 1..q : issued[s].client = c /\ WithoutOwnAnswer(s)
           /\ \A s \in q..r : issued[s].client = c => <<s, s>> \notin accepted

\* While a client sends a request of several frames, nothing the client itself
\* sends, the keep-alive included, makes the ECU drop it.
RequestsNotCutOff ==
    \A p \in broken : issued[p[1]].client # p[2]

\* A Consecutive Frame leaves only when the ECU has granted it, unless a Flow
\* Control of an exchange that gave up, or another client's, was still in the
\* queue (client.py: the wait takes the first Flow Control it finds).
GrantsKept ==
    \A r \in overrun :
        \/ \E q \in gaveUp : q < r
        \/ \E q \in 1..Len(issued) : issued[q].client # issued[r].client

\* Whatever the ECU sends, endless WAITs and "response pending" included, an
\* exchange comes to an end and gives the lock back.
ExchangeEnds ==
    \A c \in Client : (ex[c].phase # "idle") ~> (ex[c].phase = "idle")
=============================================================================
