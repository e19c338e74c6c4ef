--------------------------- MODULE UdsClientProofs ---------------------------
(***************************************************************************)
(* Proofs about UdsClient for any clients, services and limits.            *)
(*                                                                         *)
(* A client never cuts off a request that it is still sending: the         *)
(* keep-alive and the exchanges of a client share its lock, so while an    *)
(* exchange is under way every frame of the client behind the first one of *)
(* the request belongs to that request.                                    *)
(*                                                                         *)
(* An exchange takes the answer to another request of its client only when *)
(* that one is overdue: the ECU serves requests in order and a client      *)
(* reads its queue in order, so with the answer to a request everything    *)
(* older is past.                                                          *)
(*                                                                         *)
(* A client sends only what the ECU has granted: before anything has gone  *)
(* wrong, what the one client has still to send, what is on the bus and    *)
(* what the queue still allows are together within the grant.              *)
(***************************************************************************)
EXTENDS UdsClient, TLAPS

\* A frame of client c is not a request other than the one under way.
OwnFrame(c, f) == f.by = c /\ f.type # "FC" => f.of = ex[c].req

OrderInv ==
    \A c \in Client : ex[c].req # 0 =>
        /\ rxEcu.of = ex[c].req => \A k \in 1..Len(toEcu) : OwnFrame(c, toEcu[k])
        /\ \A j, k \in 1..Len(toEcu) :
              j < k /\ toEcu[j].of = ex[c].req => OwnFrame(c, toEcu[k])

\* Nothing is under way for a request that has not begun.
BegunInv ==
    /\ \A k \in 1..Len(toEcu) : toEcu[k].of =< Len(issued)
    /\ rxEcu.of =< Len(issued)
    /\ \A c \in Client : ex[c].req =< Len(issued)

UdsInv == TypeOK /\ BegunInv /\ OrderInv /\ RequestsNotCutOff
-----------------------------------------------------------------------------
LEMMA IdleType == Idle \in Exchange /\ Idle.req = 0 /\ Idle.phase = "idle"
BY UdsAssumption DEF Idle, Exchange

LEMMA Limits == MaxRequests \in Nat /\ NBs \in Nat /\ Timeout \in Nat /\ Wall \in Nat
                /\ P2Star \in Nat
BY UdsAssumption DEF UdsAssumption

LEMMA UdsInit == Init => UdsInv
<1> SUFFICES ASSUME Init PROVE UdsInv
  OBVIOUS
<1>1. issued \in Seq(Request) /\ Len(issued) =< MaxRequests
  BY Limits DEF Init
<1>2. ex \in [Client -> Exchange] /\ \A c \in Client : ex[c].req = 0 <=> LockFree(c)
  BY IdleType DEF Init, LockFree
<1>3. TypeOK
  BY <1>1, <1>2 DEF Init, TypeOK
<1>4. BegunInv /\ OrderInv /\ RequestsNotCutOff
  BY IdleType DEF Init, BegunInv, OrderInv, RequestsNotCutOff, None
<1> QED BY <1>3, <1>4 DEF UdsInv

\* The steps of an exchange keep its record well typed.
LEMMA ExchangeFields ==
    ASSUME NEW e \in Exchange
    PROVE  /\ AwaitAnswer(e) \in Exchange /\ AwaitAnswer(e).req = e.req
           /\ AwaitAnswer(e).phase = "answer"
           /\ AwaitFlowControl(e) \in Exchange /\ AwaitFlowControl(e).req = e.req
           /\ AwaitFlowControl(e).phase = "fc"
           /\ Extended(e) \in Exchange /\ Extended(e).req = e.req
           /\ Extended(e).phase = e.phase
<1>1. AwaitAnswer(e) \in Exchange /\ AwaitAnswer(e).req = e.req /\ AwaitAnswer(e).phase = "answer"
  BY Limits DEF Exchange, AwaitAnswer
<1>2. AwaitFlowControl(e) \in Exchange /\ AwaitFlowControl(e).req = e.req
      /\ AwaitFlowControl(e).phase = "fc"
  BY Limits DEF Exchange, AwaitFlowControl
<1>3. Least(P2Star, e.wall) \in Nat
  BY Limits DEF Exchange, Least
<1>4. Extended(e) \in Exchange /\ Extended(e).req = e.req /\ Extended(e).phase = e.phase
  <2>1. e.pend + 1 \in Nat
    BY DEF Exchange
  <2>2. [e EXCEPT !.pend = e.pend + 1] \in Exchange
    BY <2>1 DEF Exchange
  <2> QED BY <1>3, <2>1, <2>2 DEF Exchange, Extended
<1> QED BY <1>1, <1>2, <1>4

LEMMA FrameFields ==
    \A f \in FrameToEcu :
        /\ f.type \in {"SF", "FF", "CF", "FC"} /\ f.of \in Nat /\ f.by \in Client
        /\ f.type \in {"FF", "CF"} => f.of \in 1..MaxRequests
BY Limits DEF FrameToEcu

LEMMA Fields ==
    ASSUME TypeOK
    PROVE  /\ Len(issued) \in Nat /\ Len(toEcu) \in Nat
           /\ rxEcu.of \in Nat /\ (rxEcu # None => rxEcu.of # 0)
           /\ \A c \in Client : ex[c] \in Exchange /\ ex[c].req \in Nat
           /\ \A k \in 1..Len(toEcu) : toEcu[k] \in FrameToEcu /\ toEcu[k].of \in Nat
<1>1. Len(issued) \in Nat /\ Len(toEcu) \in Nat
  BY DEF TypeOK
<1>2. rxEcu.of \in Nat /\ (rxEcu # None => rxEcu.of # 0)
  <2>1. CASE rxEcu = None
    BY <2>1 DEF None
  <2>2. CASE rxEcu \in [of : 1..MaxRequests, got : Nat, grant : Nat]
    BY <2>2, Limits
  <2> QED BY <2>1, <2>2 DEF TypeOK
<1>3. \A c \in Client : ex[c] \in Exchange /\ ex[c].req \in Nat
  BY Limits DEF TypeOK, Exchange
<1>4. \A k \in 1..Len(toEcu) : toEcu[k] \in FrameToEcu
  BY DEF TypeOK
<1> QED BY <1>1, <1>2, <1>3, <1>4, FrameFields

-----------------------------------------------------------------------------
(* How a step may move the bus and the exchanges.                          *)

\* Nothing is sent, and an exchange goes on or ends.
LEMMA Quiet ==
    ASSUME UdsInv, UNCHANGED <<issued, toEcu, broken>>,
           rxEcu'.of \in {0, rxEcu.of},
           \A c \in Client : ex'[c].req \in {0, ex[c].req}
    PROVE  BegunInv' /\ OrderInv' /\ RequestsNotCutOff'
<1>1. BegunInv'
  BY Fields DEF UdsInv, BegunInv
<1>2. OrderInv'
  BY DEF UdsInv, OrderInv, OwnFrame
<1>3. RequestsNotCutOff'
  BY DEF UdsInv, RequestsNotCutOff
<1> QED BY <1>1, <1>2, <1>3

\* A frame is sent that every exchange that goes on may see, and an exchange
\* that begins is a new one.
LEMMA Sending ==
    ASSUME UdsInv, NEW f \in FrameToEcu, toEcu' = Append(toEcu, f),
           UNCHANGED <<rxEcu, broken>>, f.of =< Len(issued'),
           Len(issued) =< Len(issued'), Len(issued') \in Nat,
           \A i \in 1..Len(issued) : issued'[i] = issued[i],
           \A c \in Client :
              \/ ex'[c].req = 0
              \/ ex'[c].req = ex[c].req /\ (f.by = c /\ f.type # "FC" => f.of = ex[c].req)
              \/ /\ ex'[c].req > Len(issued) /\ ex'[c].req =< Len(issued')
                 /\ f.of = ex'[c].req
    PROVE  BegunInv' /\ OrderInv' /\ RequestsNotCutOff'
<1> DEFINE n == Len(toEcu)
<1>1. n \in Nat /\ Len(toEcu') = n + 1 /\ toEcu'[n + 1] = f
      /\ \A k \in 1..n : toEcu'[k] = toEcu[k] /\ toEcu'[k].of =< Len(issued)
  BY DEF UdsInv, TypeOK, BegunInv
<1>2. \A k \in 1..n : toEcu[k].of \in Nat
  BY Fields DEF UdsInv
<1>3. rxEcu.of \in Nat /\ Len(issued) \in Nat /\ f.of \in Nat
      /\ \A c \in Client : ex[c].req \in Nat
  BY Fields, FrameFields DEF UdsInv
<1>4. BegunInv'
  <2>1. \A c \in Client : ex'[c].req =< Len(issued')
    BY <1>3 DEF UdsInv, BegunInv
  <2>2. \A k \in 1..Len(toEcu') : toEcu'[k].of =< Len(issued')
    BY <1>1, <1>2, <1>3
  <2>3. rxEcu'.of =< Len(issued')
    BY <1>3 DEF UdsInv, BegunInv
  <2> QED BY <2>1, <2>2, <2>3 DEF BegunInv
<1>5. OrderInv'
  <2> SUFFICES ASSUME NEW c \in Client, ex'[c].req # 0
               PROVE  /\ rxEcu'.of = ex'[c].req
                            => \A k \in 1..Len(toEcu') : OwnFrame(c, toEcu[k])'
                      /\ \A j, k \in 1..Len(toEcu') :
                            j < k /\ toEcu'[j].of = ex'[c].req => OwnFrame(c, toEcu[k])'
    BY DEF OrderInv, OwnFrame
  <2>1. CASE ex'[c].req = ex[c].req
    <3>1. OwnFrame(c, f)
      BY <2>1, <1>3 DEF OwnFrame, UdsInv, BegunInv
    <3>2. ASSUME NEW k \in 1..Len(toEcu'), k \notin 1..n PROVE toEcu'[k] = f
      BY <3>2, <1>1
    <3>3. \A k \in 1..n : OwnFrame(c, toEcu[k]) => OwnFrame(c, toEcu[k])'
      BY <2>1, <1>1 DEF OwnFrame
    <3>4. \A k \in 1..Len(toEcu') : k \notin 1..n => OwnFrame(c, toEcu[k])'
      BY <3>1, <3>2, <2>1 DEF OwnFrame
    <3>5. ASSUME rxEcu'.of = ex'[c].req, NEW k \in 1..Len(toEcu')
          PROVE  OwnFrame(c, toEcu[k])'
      BY <3>3, <3>4, <3>5, <2>1 DEF UdsInv, OrderInv
    <3>6. ASSUME NEW j \in 1..Len(toEcu'), NEW k \in 1..Len(toEcu'), j < k,
                 toEcu'[j].of = ex'[c].req
          PROVE  OwnFrame(c, toEcu[k])'
      <4>1. CASE k \in 1..n
        <5>1. j \in 1..n /\ toEcu[j].of = ex[c].req
          BY <3>6, <4>1, <1>1, <2>1
        <5> QED BY <5>1, <3>3, <3>6, <4>1, <2>1 DEF UdsInv, OrderInv
      <4> QED BY <4>1, <3>4
    <3> QED BY <3>5, <3>6
  <2>2. CASE ex'[c].req > Len(issued) /\ f.of = ex'[c].req
    <3>1. rxEcu'.of # ex'[c].req /\ \A k \in 1..n : toEcu'[k].of # ex'[c].req
      BY <2>2, <1>1, <1>2, <1>3 DEF UdsInv, BegunInv
    <3> QED BY <2>2, <3>1, <1>1 DEF OwnFrame
  <2> QED BY <2>1, <2>2
<1>6. RequestsNotCutOff'
  BY DEF UdsInv, TypeOK, RequestsNotCutOff
<1> QED BY <1>4, <1>5, <1>6

\* The ECU takes the first frame: what it cuts off is another client's.
LEMMA Taking ==
    ASSUME UdsInv, EcuTakes
    PROVE  BegunInv' /\ OrderInv' /\ RequestsNotCutOff'
<1> DEFINE f == Head(toEcu)
<1>1. /\ toEcu # <<>> /\ toEcu' = Tail(toEcu) /\ f = toEcu[1] /\ f \in FrameToEcu
      /\ UNCHANGED <<issued, ex>>
      /\ Len(toEcu) \in Nat /\ Len(toEcu) >= 1 /\ Len(toEcu') = Len(toEcu) - 1
      /\ \A k \in 1..Len(toEcu') : k + 1 \in 1..Len(toEcu) /\ toEcu'[k] = toEcu[k + 1]
  BY DEF EcuTakes, UdsInv, TypeOK, tool
<1>2. rxEcu'.of \in {0, rxEcu.of, f.of}
  <2>1. CASE rxEcu' = None
    BY <2>1 DEF None
  <2>2. CASE rxEcu' = rxEcu
    BY <2>2
  <2>3. CASE rxEcu' = [of |-> f.of, got |-> 0, grant |-> 0]
    BY <2>3
  <2>4. CASE /\ rxEcu # None
             /\ rxEcu' = [rxEcu EXCEPT !.got = @ + 1, !.grant = IF @ = 0 THEN 0 ELSE @ - 1]
    <3>1. rxEcu \in [of : 1..MaxRequests, got : Nat, grant : Nat]
      BY <2>4 DEF UdsInv, TypeOK
    <3> QED BY <2>4, <3>1
  <2> QED BY <2>1, <2>2, <2>3, <2>4 DEF EcuTakes
<1>3. broken' = broken \/ (f.type \in {"SF", "FF"} /\ broken' = broken \cup CutOff(f))
  BY DEF EcuTakes
<1>4. BegunInv'
  BY <1>1, <1>2 DEF UdsInv, BegunInv
<1>5. OrderInv'
  <2> SUFFICES ASSUME NEW c \in Client, ex[c].req # 0
               PROVE  /\ rxEcu'.of = ex[c].req
                            => \A k \in 1..Len(toEcu') : OwnFrame(c, toEcu'[k])
                      /\ \A j, k \in 1..Len(toEcu') :
                            j < k /\ toEcu'[j].of = ex[c].req => OwnFrame(c, toEcu'[k])
    BY <1>1 DEF OrderInv, OwnFrame
  <2>1. ASSUME rxEcu'.of = ex[c].req, NEW k \in 1..Len(toEcu')
        PROVE  OwnFrame(c, toEcu'[k])
    <3>1. CASE rxEcu.of = ex[c].req
      BY <3>1, <1>1 DEF UdsInv, OrderInv
    <3>2. CASE f.of = ex[c].req
      <4>1. 1 \in 1..Len(toEcu) /\ k + 1 \in 1..Len(toEcu) /\ 1 < k + 1
        BY <1>1
      <4> QED BY <3>2, <4>1, <1>1 DEF UdsInv, OrderInv
    <3> QED BY <2>1, <3>1, <3>2, <1>2
  <2>2. ASSUME NEW j \in 1..Len(toEcu'), NEW k \in 1..Len(toEcu'),
               j < k, toEcu'[j].of = ex[c].req
        PROVE  OwnFrame(c, toEcu'[k])
    <3>1. j + 1 < k + 1 /\ toEcu[j + 1].of = ex[c].req
      BY <2>2, <1>1
    <3> QED BY <3>1, <1>1 DEF UdsInv, OrderInv
  <2> QED BY <2>1, <2>2
<1>6. RequestsNotCutOff'
  <2> SUFFICES ASSUME NEW p \in broken' PROVE issued[p[1]].client # p[2]
    BY <1>1 DEF RequestsNotCutOff
  <2>1. CASE p \in broken
    BY <2>1 DEF UdsInv, RequestsNotCutOff
  <2>2. CASE p \notin broken
    <3>1. /\ f.type \in {"SF", "FF"} /\ p = <<rxEcu.of, f.by>>
          /\ rxEcu # None /\ f.of # rxEcu.of
          /\ ex[issued[rxEcu.of].client].req = rxEcu.of
      BY <2>2, <1>3 DEF CutOff
    <3>2. f.by \in Client /\ rxEcu.of # 0
      BY <3>1, <1>1 DEF UdsInv, TypeOK, FrameToEcu
    <3>3. ASSUME issued[rxEcu.of].client = f.by PROVE FALSE
      <4>1. ex[f.by].req = rxEcu.of /\ 1 \in 1..Len(toEcu)
        BY <3>1, <3>3, <1>1
      <4>2. OwnFrame(f.by, toEcu[1])
        BY <3>2, <4>1 DEF UdsInv, OrderInv
      <4> QED BY <4>1, <4>2, <3>1, <1>1 DEF OwnFrame
    <3> QED BY <3>1, <3>3
  <2> QED BY <2>1, <2>2
<1> QED BY <1>4, <1>5, <1>6

-----------------------------------------------------------------------------
(* Types.                                                                  *)

LEMMA Updated ==
    ASSUME NEW S, NEW T, NEW f \in [S -> T], NEW x \in S, NEW v \in T
    PROVE  /\ [f EXCEPT ![x] = v] \in [S -> T]
           /\ [f EXCEPT ![x] = v][x] = v
           /\ \A y \in S : y # x => [f EXCEPT ![x] = v][y] = f[y]
OBVIOUS

\* What one client's exchange may become, as the other parts see it.
GoesOn(c) ==
    /\ ex' \in [Client -> Exchange]
    /\ \A d \in Client : ex'[d].req = 0 <=> ex'[d].phase = "idle"
    /\ \A d \in Client : ex'[d].req = ex[d].req \/ (d = c /\ ex'[d].req = 0)

LEMMA Becomes ==
    ASSUME TypeOK, NEW c \in Client, NEW e \in Exchange,
           ex' = [ex EXCEPT ![c] = e],
           e.req = 0 <=> e.phase = "idle", e.req \in {0, ex[c].req}
    PROVE  GoesOn(c)
<1>1. ex \in [Client -> Exchange]
  BY DEF TypeOK
<1> QED BY <1>1, Updated DEF TypeOK, GoesOn, LockFree

LEMMA Raised ==
    ASSUME TypeOK, NEW c \in Client, Raises(c)
    PROVE  GoesOn(c)
BY Becomes, IdleType DEF Raises

\* Taking the head of the queue, and delivering to every queue.
LEMMA Dequeued ==
    ASSUME TypeOK, NEW c \in Client, queue[c] # <<>>
    PROVE  /\ Head(queue[c]) \in FrameToTool
           /\ [queue EXCEPT ![c] = Tail(@)] \in [Client -> Seq(FrameToTool)]
<1>1. queue[c] \in Seq(FrameToTool) /\ queue \in [Client -> Seq(FrameToTool)]
  BY DEF TypeOK
<1>2. Head(queue[c]) \in FrameToTool /\ Tail(queue[c]) \in Seq(FrameToTool)
  BY <1>1
<1> QED BY <1>1, <1>2

LEMMA Delivered ==
    ASSUME TypeOK, NEW f \in FrameToTool, Deliver(f)
    PROVE  queue' \in [Client -> Seq(FrameToTool)]
<1> SUFFICES ASSUME NEW c \in Client
             PROVE  (IF Len(queue[c]) < QueueSize THEN Append(queue[c], f)
                                                  ELSE queue[c]) \in Seq(FrameToTool)
  BY DEF Deliver
<1>1. queue[c] \in Seq(FrameToTool)
  BY DEF TypeOK
<1> QED BY <1>1

LEMMA SentType ==
    ASSUME TypeOK, NEW f \in FrameToEcu, Send(f)
    PROVE  toEcu' \in Seq(FrameToEcu) /\ toEcu' = Append(toEcu, f)
BY DEF TypeOK, Send

\* The conclusion of a step in which nothing is sent.
LEMMA QuietStep ==
    ASSUME UdsInv, NEW c \in Client, GoesOn(c), UNCHANGED <<issued, toEcu, rxEcu, jobs, txEcu, broken>>,
           queue' \in [Client -> Seq(FrameToTool)],
           session' \in [Client -> {None} \cup Session]
    PROVE  UdsInv'
<1>1. TypeOK'
  BY DEF UdsInv, TypeOK, GoesOn, LockFree
<1>2. BegunInv' /\ OrderInv' /\ RequestsNotCutOff'
  BY Quiet DEF GoesOn
<1> QED BY <1>1, <1>2 DEF UdsInv

LEMMA FlowControlStep ==
    ASSUME UdsInv, NEW c \in Client, TakeFlowControl(c)
    PROVE  UdsInv'
<1> DEFINE f == Head(queue[c])
<1>1. TypeOK /\ ex[c] \in Exchange /\ ex[c].phase = "fc" /\ ex[c].req # 0
  BY Fields DEF UdsInv, TypeOK, LockFree, TakeFlowControl
<1>2. f \in FrameToTool /\ queue' \in [Client -> Seq(FrameToTool)]
  BY <1>1, Dequeued DEF TakeFlowControl
<1>3. GoesOn(c)
  <2>1. CASE ex' = ex
    BY <2>1, <1>1 DEF TypeOK, GoesOn, LockFree
  <2>2. CASE f.type = "FC" /\ f.status = "CTS"
             /\ ex' = [ex EXCEPT ![c].phase = "block", ![c].left = f.bs, ![c].wft = 0]
    <3>1. f.bs \in Nat
      BY <1>2, <2>2, UdsAssumption DEF FrameToTool, UdsAssumption
    <3> DEFINE e == [ex[c] EXCEPT !.phase = "block", !.left = f.bs, !.wft = 0]
    <3>2. e \in Exchange /\ e.req = ex[c].req /\ e.phase = "block"
      BY <3>1, <1>1 DEF Exchange
    <3>3. ex' = [ex EXCEPT ![c] = e]
      BY <2>2, <1>1 DEF TypeOK
    <3> QED BY <1>1, <3>2, <3>3, Becomes
  <2>3. CASE ex' = [ex EXCEPT ![c] =
                      AwaitFlowControl([ex[c] EXCEPT !.wft = CountedWait(ex[c])])]
    <3> DEFINE e == [ex[c] EXCEPT !.wft = CountedWait(ex[c])]
    <3>1. e \in Exchange /\ e.req = ex[c].req
      BY <1>1 DEF Exchange, CountedWait
    <3> HIDE DEF e
    <3>2. AwaitFlowControl(e) \in Exchange /\ AwaitFlowControl(e).req = ex[c].req
          /\ AwaitFlowControl(e).phase = "fc"
      BY <3>1, ExchangeFields
    <3> QED BY <1>1, <2>3, <3>2, Becomes DEF e
  <2>4. CASE Raises(c)
    BY <2>4, <1>1, Raised
  <2> QED BY <2>1, <2>2, <2>3, <2>4 DEF TakeFlowControl
<1>4. UNCHANGED <<issued, toEcu, rxEcu, jobs, txEcu, broken, session>>
  BY DEF TakeFlowControl, ecu
<1> QED BY <1>1, <1>2, <1>3, <1>4, QuietStep DEF TypeOK

LEMMA RaisingStep ==
    ASSUME UdsInv, NEW c \in Client, Refused(c) \/ Expires(c)
    PROVE  UdsInv'
<1>1. TypeOK /\ GoesOn(c)
  BY Raised DEF UdsInv, Refused, Expires
<1>2. UNCHANGED <<issued, toEcu, rxEcu, jobs, txEcu, broken, session, queue>>
  BY DEF Refused, Expires, ecu
<1> QED BY <1>1, <1>2, QuietStep DEF TypeOK

LEMMA TickStep == ASSUME UdsInv, Tick PROVE UdsInv'
<1>1. UNCHANGED <<issued, toEcu, rxEcu, jobs, txEcu, broken, queue>>
  BY DEF Tick, ecu, history
<1>2. ASSUME NEW c \in Client
      PROVE  ex'[c] \in Exchange /\ ex'[c].req = ex[c].req /\ ex'[c].phase = ex[c].phase
  <2>1. ex[c] \in Exchange /\ (Waiting(c) => ex[c].slack - 1 \in Nat)
    <3>1. ex[c] \in Exchange /\ ex[c].slack \in Nat
      BY Fields DEF UdsInv, Exchange
    <3>2. Waiting(c) => ex[c].slack > 0
      BY DEF Tick
    <3> QED BY <3>1, <3>2
  <2>2. (IF ex[c].wall = 0 THEN 0 ELSE ex[c].wall - 1) \in Nat
    BY <2>1 DEF Exchange
  <2>3. CASE Waiting(c)
    <3> DEFINE w == IF ex[c].wall = 0 THEN 0 ELSE ex[c].wall - 1
    <3>1. ex'[c] = [ex[c] EXCEPT !.slack = ex[c].slack - 1, !.wall = w]
      BY <2>3 DEF Tick
    <3>2. w \in Nat /\ ex[c].slack - 1 \in Nat
      BY <2>1, <2>2, <2>3
    <3> HIDE DEF w
    <3> QED BY <2>1, <3>1, <3>2 DEF Exchange
  <2>4. CASE ~Waiting(c)
    BY <2>1, <2>4 DEF Tick
  <2> QED BY <2>3, <2>4
<1>3. ex' \in [Client -> Exchange] /\ \A c \in Client : ex'[c].req = 0 <=> ex'[c].phase = "idle"
  BY <1>2 DEF Tick, UdsInv, TypeOK, LockFree
<1>4. session' \in [Client -> {None} \cup Session]
  <2> SUFFICES ASSUME NEW c \in Client PROVE Older(session[c]) \in {None} \cup Session
    BY DEF Tick
  <2>1. session[c] \in {None} \cup Session
    BY DEF UdsInv, TypeOK
  <2> QED BY <2>1 DEF Older, Session
<1>5. TypeOK'
  BY <1>1, <1>3, <1>4 DEF UdsInv, TypeOK, LockFree
<1>6. BegunInv' /\ OrderInv' /\ RequestsNotCutOff'
  BY <1>1, <1>2, Quiet
<1> QED BY <1>5, <1>6 DEF UdsInv

-----------------------------------------------------------------------------
(* The steps that send.                                                    *)

LEMMA SendStep ==
    ASSUME UdsInv, NEW c \in Client, GoesOn(c), NEW f \in FrameToEcu, Send(f),
           f.by = c, f.of =< Len(issued),
           f.type # "FC" => ex'[c].req = 0 \/ f.of = ex[c].req,
           UNCHANGED <<issued, rxEcu, jobs, txEcu, broken>>,
           queue' \in [Client -> Seq(FrameToTool)],
           session' \in [Client -> {None} \cup Session]
    PROVE  UdsInv'
<1>1. TypeOK'
  BY SentType DEF UdsInv, TypeOK, GoesOn, LockFree
<1>2. toEcu' = Append(toEcu, f) /\ Len(issued) \in Nat
  BY SentType, Fields DEF UdsInv
<1>3. ASSUME NEW d \in Client
      PROVE  \/ ex'[d].req = 0
             \/ ex'[d].req = ex[d].req /\ (f.by = d /\ f.type # "FC" => f.of = ex[d].req)
  BY DEF GoesOn
<1>4. BegunInv' /\ OrderInv' /\ RequestsNotCutOff'
  BY <1>2, <1>3, Sending
<1> QED BY <1>1, <1>4 DEF UdsInv

LEMMA BeginStep ==
    ASSUME UdsInv, NEW c \in Client, NEW svc \in Service, NEW did \in Did, Begin(c, svc, did)
    PROVE  UdsInv'
<1> DEFINE i == Len(issued) + 1
           r == [client |-> c, svc |-> svc, did |-> did]
           f == ToEcu(c, IF RequestCFs[svc] = 0 THEN "SF" ELSE "FF", i)
           e == [Idle EXCEPT !.req = i]
           x == IF RequestCFs[svc] = 0 THEN AwaitAnswer(e) ELSE AwaitFlowControl(e)
<1>1. /\ issued' = Append(issued, r) /\ r \in Request /\ issued \in Seq(Request)
      /\ Send(f) /\ ex' = [ex EXCEPT ![c] = x] /\ Len(issued) < MaxRequests
      /\ UNCHANGED <<session, queue, rxEcu, jobs, txEcu, broken>> /\ TypeOK
  BY DEF Begin, UdsInv, TypeOK, Request, history
<1>2. i \in 1..MaxRequests /\ i \in Nat /\ Len(issued) \in Nat
  BY <1>1, Limits
<1>3. f \in FrameToEcu /\ f.of = i /\ f.by = c
  BY <1>2 DEF ToEcu, FrameToEcu
<1>4. e \in Exchange /\ e.req = i
  BY <1>2, IdleType DEF Exchange
<1>5. x \in Exchange /\ x.req = i /\ x.phase # "idle"
  <2> HIDE DEF e
  <2> QED BY <1>4, ExchangeFields
<1> HIDE DEF f, x, r
<1>6. /\ issued' \in Seq(Request) /\ Len(issued') = i
      /\ \A k \in 1..Len(issued) : issued'[k] = issued[k]
  BY <1>1
<1>7. ex' \in [Client -> Exchange] /\ ex'[c] = x /\ \A d \in Client : d # c => ex'[d] = ex[d]
  BY <1>1, <1>5, Updated DEF TypeOK
<1>8. toEcu' \in Seq(FrameToEcu) /\ toEcu' = Append(toEcu, f)
  BY <1>1, <1>3, SentType
<1>9. TypeOK'
  <2>1. broken' \subseteq (1..Len(issued')) \X Client
    BY <1>1, <1>2, <1>6 DEF TypeOK
  <2>2. \A d \in Client : ex'[d].req = 0 <=> ex'[d].phase = "idle"
    BY <1>1, <1>2, <1>5, <1>7 DEF TypeOK, LockFree
  <2> QED BY <1>1, <1>2, <1>6, <1>7, <1>8, <2>1, <2>2 DEF TypeOK, LockFree
<1>10. ASSUME NEW d \in Client
       PROVE  \/ ex'[d].req = 0
              \/ ex'[d].req = ex[d].req /\ (f.by = d /\ f.type # "FC" => f.of = ex[d].req)
              \/ /\ ex'[d].req > Len(issued) /\ ex'[d].req =< Len(issued')
                 /\ f.of = ex'[d].req
  BY <1>2, <1>3, <1>5, <1>6, <1>7
<1>11. BegunInv' /\ OrderInv' /\ RequestsNotCutOff'
  <2>1. f.of =< Len(issued') /\ Len(issued) =< Len(issued') /\ Len(issued') \in Nat
    BY <1>2, <1>3, <1>6
  <2> QED BY <1>1, <1>3, <1>6, <1>8, <1>10, <2>1, Sending
<1> QED BY <1>9, <1>11 DEF UdsInv

LEMMA ConsecutiveStep ==
    ASSUME UdsInv, NEW c \in Client, SendConsecutiveFrame(c)
    PROVE  UdsInv'
<1> DEFINE f == ToEcu(c, "CF", ex[c].req)
           e == [ex[c] EXCEPT !.sent = @ + 1, !.left = IF @ = 0 THEN 0 ELSE @ - 1]
           x == IF e.sent = RequestCFs[Svc(e.req)] THEN AwaitAnswer(e)
                ELSE IF BlockEnds(ex[c]) THEN AwaitFlowControl(e) ELSE e
<1>1. /\ TypeOK /\ ex[c] \in Exchange /\ ex[c].phase = "block" /\ ex[c].req # 0
      /\ ex[c].req \in 1..MaxRequests /\ ex[c].req =< Len(issued)
  <2>1. TypeOK /\ ex[c] \in Exchange /\ ex[c].phase = "block" /\ ex[c].req # 0
    BY Fields DEF UdsInv, TypeOK, LockFree, SendConsecutiveFrame
  <2> QED BY <2>1, Limits DEF Exchange, UdsInv, BegunInv
<1>2. f \in FrameToEcu /\ f.by = c /\ f.of = ex[c].req
  BY <1>1 DEF ToEcu, FrameToEcu
<1>3. e \in Exchange /\ e.req = ex[c].req /\ e.phase = "block"
  <2>0. ex[c].left \in Nat /\ ex[c].sent \in Nat
    BY <1>1 DEF Exchange
  <2>1. (IF ex[c].left = 0 THEN 0 ELSE ex[c].left - 1) \in Nat /\ ex[c].sent + 1 \in Nat
    BY <2>0
  <2> QED BY <1>1, <2>1 DEF Exchange
<1>4. Send(f) /\ ex' = [ex EXCEPT ![c] = x]
      /\ UNCHANGED <<issued, session, queue, rxEcu, jobs, txEcu, broken>>
  BY <1>3 DEF SendConsecutiveFrame, history
<1>5. x \in Exchange /\ x.req = ex[c].req /\ x.phase # "idle"
  <2> HIDE DEF e
  <2> QED BY <1>3, ExchangeFields
<1> HIDE DEF x, f
<1>6. GoesOn(c)
  BY <1>1, <1>4, <1>5, Becomes
<1> QED BY <1>1, <1>2, <1>4, <1>6, SendStep DEF TypeOK

LEMMA KeepAliveStep ==
    ASSUME UdsInv, NEW c \in Client, KeepAlive(c)
    PROVE  UdsInv'
<1> DEFINE f == ToEcu(c, "SF", 0)
<1>1. TypeOK /\ Send(f) /\ ex[c].req = 0 /\ ex' = ex
      /\ UNCHANGED <<issued, session, queue, rxEcu, jobs, txEcu, broken>>
  BY DEF KeepAlive, KeepAliveHasLock, UdsInv, TypeOK, tool, history
<1>2. f \in FrameToEcu /\ f.by = c /\ f.of = 0 /\ 0 =< Len(issued)
  BY <1>1, Limits, Fields DEF ToEcu, FrameToEcu
<1>3. GoesOn(c) /\ ex'[c].req = 0
  BY <1>1 DEF GoesOn, TypeOK, LockFree
<1> HIDE DEF f
<1> QED BY <1>1, <1>2, <1>3, SendStep DEF TypeOK

-----------------------------------------------------------------------------
(* The answer.                                                             *)

\* What reassembly leaves of the session.
LEMMA ReassemblyType ==
    ASSUME NEW s \in {None} \cup Session, NEW f \in FrameToTool
    PROVE  Reassembles(s, f).s \in {None} \cup Session
<1>1. CASE f.type = "SF"
  BY <1>1 DEF Reassembles
<1>2. CASE f.type = "FC"
  BY <1>2 DEF Reassembles
<1>3. CASE f.type = "FF"
  <2>1. f.of \in 1..MaxRequests /\ f.kind \in Kind
    BY <1>3 DEF FrameToTool
  <2> QED BY <1>3, <2>1 DEF Reassembles, Session
<1>4. CASE f.type = "CF" /\ ~(s # None /\ s.age =< NCr /\ f.sn = (s.got + 1) % SNMod)
  BY <1>4 DEF Reassembles
<1>5. CASE f.type = "CF" /\ s # None /\ s.age =< NCr /\ f.sn = (s.got + 1) % SNMod
  <2> DEFINE t == [s EXCEPT !.got = @ + 1, !.age = 0]
  <2>3. s \in Session
    BY <1>5
  <2>4. s \in [of : 1..MaxRequests, kind : Kind, got : Nat, age : Nat]
    BY <2>3 DEF Session
  <2>5. s.got + 1 \in Nat
    BY <2>4
  <2>6. t \in [of : 1..MaxRequests, kind : Kind, got : Nat, age : Nat]
    BY <2>4, <2>5
  <2>1. t \in Session
    BY <2>6 DEF Session
  <2>2. Reassembles(s, f).s \in {None, t}
    BY <1>5 DEF Reassembles
  <2> QED BY <2>1, <2>2
<1> QED BY <1>1, <1>2, <1>3, <1>4, <1>5 DEF FrameToTool

\* Taking a frame types the queue and the session.
LEMMA FrameTaken ==
    ASSUME UdsInv, NEW c \in Client, queue[c] # <<>>,
           queue' = [queue EXCEPT ![c] = Tail(queue[c])],
           session' = [session EXCEPT ![c] = Reassembles(session[c], Head(queue[c])).s]
    PROVE  /\ Head(queue[c]) \in FrameToTool
           /\ queue' \in [Client -> Seq(FrameToTool)]
           /\ session' \in [Client -> {None} \cup Session]
<1> DEFINE f == Head(queue[c])
<1>1. f \in FrameToTool /\ queue' \in [Client -> Seq(FrameToTool)]
  BY Dequeued DEF UdsInv
<1>2. session[c] \in {None} \cup Session /\ session \in [Client -> {None} \cup Session]
  BY DEF UdsInv, TypeOK
<1>3. Reassembles(session[c], f).s \in {None} \cup Session
  BY <1>1, <1>2, ReassemblyType
<1> QED BY <1>1, <1>2, <1>3, Updated

LEMMA AnswerRefusedStep ==
    ASSUME UdsInv, NEW c \in Client, FlowControlRefused(c)
    PROVE  UdsInv'
<1>1. GoesOn(c)
  BY Raised DEF UdsInv, FlowControlRefused
<1>2. UNCHANGED <<issued, toEcu, rxEcu, jobs, txEcu, broken>>
  BY DEF FlowControlRefused, ecu
<1>3. queue' \in [Client -> Seq(FrameToTool)] /\ session' \in [Client -> {None} \cup Session]
  BY FrameTaken DEF FlowControlRefused
<1> QED BY <1>1, <1>2, <1>3, QuietStep

LEMMA AnswerStep ==
    ASSUME UdsInv, NEW c \in Client, TakeAnswer(c)
    PROVE  UdsInv'
<1> DEFINE f == Head(queue[c])
<1>1. /\ TypeOK /\ ex[c] \in Exchange /\ ex[c].phase = "answer" /\ ex[c].req # 0
      /\ queue[c] # <<>> /\ UNCHANGED <<issued, rxEcu, jobs, txEcu, broken>>
  BY Fields DEF UdsInv, TypeOK, LockFree, TakeAnswer
<1>2. f \in FrameToTool /\ queue' \in [Client -> Seq(FrameToTool)]
  BY FrameTaken DEF TakeAnswer
<1>3. session' \in [Client -> {None} \cup Session]
  BY FrameTaken DEF TakeAnswer
<1>4. GoesOn(c)
  <2>1. CASE ex' = ex
    BY <2>1, <1>1 DEF TypeOK, GoesOn, LockFree
  <2>2. CASE Raises(c)
    BY <2>2, <1>1, Raised
  <2>3. CASE ex' = [ex EXCEPT ![c] = Idle]
    BY <2>3, <1>1, IdleType, Becomes
  <2>4. CASE ex' = [ex EXCEPT ![c] = Extended(ex[c])]
    BY <2>4, <1>1, ExchangeFields, Becomes
  <2>5. ex' = ex \/ Raises(c) \/ ex' = [ex EXCEPT ![c] = Idle]
        \/ ex' = [ex EXCEPT ![c] = Extended(ex[c])]
    <3>1. CASE ~Reassembles(session[c], f).done
      BY <3>1 DEF TakeAnswer
    <3>2. ASSUME NEW a, Complete(c, a)
          PROVE  ex' = ex \/ Raises(c) \/ ex' = [ex EXCEPT ![c] = Idle]
                 \/ ex' = [ex EXCEPT ![c] = Extended(ex[c])]
      BY <3>2 DEF Complete
    <3>3. CASE Reassembles(session[c], f).done
      BY <3>2, <3>3 DEF TakeAnswer
    <3> QED BY <3>1, <3>3
  <2> QED BY <2>1, <2>2, <2>3, <2>4, <2>5
<1>5. CASE f.type = "FF"
  <2> DEFINE g == ToEcu(c, "FC", 0)
  <2>1. g \in FrameToEcu /\ g.by = c /\ g.of = 0 /\ g.type = "FC" /\ 0 =< Len(issued)
    BY <1>1, Limits, Fields DEF ToEcu, FrameToEcu
  <2>2. Send(g)
    BY <1>5 DEF TakeAnswer
  <2> HIDE DEF g
  <2> QED BY <1>1, <1>2, <1>3, <1>4, <2>1, <2>2, SendStep
<1>6. CASE f.type # "FF"
  <2>1. UNCHANGED toEcu
    BY <1>6 DEF TakeAnswer
  <2> QED BY <1>1, <1>2, <1>3, <1>4, <2>1, QuietStep
<1> QED BY <1>5, <1>6

-----------------------------------------------------------------------------
(* The ECU.                                                                *)

\* What the ECU does leaves the tool as it is.
LEMMA EcuTypes ==
    ASSUME UdsInv, UNCHANGED <<issued, ex, session>>,
           queue' \in [Client -> Seq(FrameToTool)],
           toEcu' \in Seq(FrameToEcu),
           rxEcu' \in {None} \cup [of : 1..MaxRequests, got : Nat, grant : Nat],
           jobs' \in Seq(1..MaxRequests),
           txEcu' \in {None} \cup [of : 1..MaxRequests, sent : Nat, clear : BOOLEAN],
           broken' \subseteq (1..Len(issued)) \X Client
    PROVE  TypeOK'
BY DEF UdsInv, TypeOK, LockFree

LEMMA TakesStep == ASSUME UdsInv, EcuTakes PROVE UdsInv'
<1> DEFINE f == Head(toEcu)
<1>1. /\ toEcu # <<>> /\ toEcu' = Tail(toEcu) /\ f = toEcu[1] /\ 1 \in 1..Len(toEcu)
      /\ UNCHANGED <<issued, ex, session, queue>> /\ TypeOK
  BY DEF EcuTakes, UdsInv, TypeOK, tool
<1>2. toEcu' \in Seq(FrameToEcu) /\ f \in FrameToEcu
  BY <1>1, Fields DEF TypeOK
<1>3. f.of \in 0..MaxRequests /\ (f.type \in {"FF", "CF"} => f.of \in 1..MaxRequests)
      /\ f.by \in Client
  BY <1>2, Limits DEF FrameToEcu
<1>4. jobs' \in Seq(1..MaxRequests)
  <2>1. jobs \in Seq(1..MaxRequests)
    BY <1>1 DEF TypeOK
  <2>2. jobs' = jobs \/ (f.of \in 1..MaxRequests /\ jobs' = Append(jobs, f.of))
    BY <1>3, Limits DEF EcuTakes
  <2> HIDE DEF f
  <2>3. CASE jobs' = jobs
    BY <2>1, <2>3
  <2>4. CASE f.of \in 1..MaxRequests /\ jobs' = Append(jobs, f.of)
    BY <2>1, <2>4
  <2> QED BY <2>2, <2>3, <2>4
<1>5. txEcu' \in {None} \cup [of : 1..MaxRequests, sent : Nat, clear : BOOLEAN]
  <2>1. txEcu \in {None} \cup [of : 1..MaxRequests, sent : Nat, clear : BOOLEAN]
    BY <1>1 DEF TypeOK
  <2>2. txEcu' \in {None, txEcu} \/ (txEcu # None /\ txEcu' = [txEcu EXCEPT !.clear = TRUE])
    BY DEF EcuTakes
  <2> QED BY <2>1, <2>2
<1>6. rxEcu' \in {None} \cup [of : 1..MaxRequests, got : Nat, grant : Nat]
  <2>1. rxEcu \in {None} \cup [of : 1..MaxRequests, got : Nat, grant : Nat]
    BY <1>1 DEF TypeOK
  <2>2. CASE rxEcu' \in {None, rxEcu}
    BY <2>1, <2>2
  <2>3. CASE f.type = "FF" /\ rxEcu' = [of |-> f.of, got |-> 0, grant |-> 0]
    BY <2>3, <1>3
  <2>4. CASE /\ rxEcu # None
             /\ rxEcu' = [rxEcu EXCEPT !.got = @ + 1, !.grant = IF @ = 0 THEN 0 ELSE @ - 1]
    <3>1. rxEcu \in [of : 1..MaxRequests, got : Nat, grant : Nat]
      BY <2>1, <2>4
    <3> DEFINE w == IF rxEcu.grant = 0 THEN 0 ELSE rxEcu.grant - 1
               n == rxEcu.got + 1
    <3>2. w \in Nat /\ n \in Nat
      BY <3>1
    <3>3. rxEcu' = [rxEcu EXCEPT !.got = n, !.grant = w]
      BY <2>4
    <3> HIDE DEF w, n
    <3>4. rxEcu' \in [of : 1..MaxRequests, got : Nat, grant : Nat]
      BY <3>1, <3>2, <3>3
    <3> QED BY <3>4
  <2> QED BY <2>2, <2>3, <2>4 DEF EcuTakes
<1>7. broken' \subseteq (1..Len(issued)) \X Client
  <2>1. broken \subseteq (1..Len(issued)) \X Client
    BY <1>1 DEF TypeOK
  <2>2. broken' = broken \/ broken' = broken \cup CutOff(f)
    BY DEF EcuTakes
  <2>3. rxEcu # None => rxEcu.of \in 1..Len(issued)
    BY <1>1, Fields DEF UdsInv, BegunInv
  <2>4. CutOff(f) \subseteq (1..Len(issued)) \X Client
    BY <2>3, <1>3 DEF CutOff
  <2> QED BY <2>1, <2>2, <2>4
<1>8. TypeOK'
  BY <1>1, <1>2, <1>4, <1>5, <1>6, <1>7, EcuTypes DEF TypeOK
<1> QED BY <1>8, Taking DEF UdsInv

\* The conclusion of a step in which the ECU sends or gives up.
LEMMA EcuQuiet ==
    ASSUME UdsInv, UNCHANGED <<issued, ex, session, toEcu, broken>>,
           queue' \in [Client -> Seq(FrameToTool)],
           rxEcu' \in {None} \cup [of : 1..MaxRequests, got : Nat, grant : Nat],
           rxEcu'.of \in {0, rxEcu.of},
           jobs' \in Seq(1..MaxRequests),
           txEcu' \in {None} \cup [of : 1..MaxRequests, sent : Nat, clear : BOOLEAN]
    PROVE  UdsInv'
<1>1. TypeOK'
  BY EcuTypes DEF UdsInv, TypeOK
<1>2. BegunInv' /\ OrderInv' /\ RequestsNotCutOff'
  BY Quiet
<1> QED BY <1>1, <1>2 DEF UdsInv

LEMMA EcuFlowControlStep ==
    ASSUME UdsInv, NEW status \in {"CTS", "WAIT", "OVERFLOW"}, NEW bs \in Blocks,
           EcuFlowControl(status, bs)
    PROVE  UdsInv'
<1>1. /\ TypeOK /\ rxEcu \in [of : 1..MaxRequests, got : Nat, grant : Nat]
      /\ UNCHANGED <<issued, ex, session, toEcu, broken, jobs, txEcu>>
  BY DEF EcuFlowControl, UdsInv, TypeOK, tool, history
<1> DEFINE f == [type |-> "FC", status |-> status, bs |-> bs]
<1>2. f \in FrameToTool /\ Deliver(f)
  BY DEF FrameToTool, EcuFlowControl
<1>3. queue' \in [Client -> Seq(FrameToTool)]
  <2> HIDE DEF f
  <2> QED BY <1>1, <1>2, Delivered
<1>4. rxEcu' = None \/ rxEcu' = rxEcu \/ \E n : rxEcu' = [rxEcu EXCEPT !.grant = n] /\ n \in Nat
  <2>1. CASE status = "OVERFLOW"
    BY <2>1 DEF EcuFlowControl
  <2>2. CASE status = "WAIT"
    BY <2>2 DEF EcuFlowControl
  <2>3. CASE status = "CTS"
    <3>1. issued[rxEcu.of] \in Request
      BY <1>1, Fields DEF UdsInv, BegunInv, TypeOK
    <3>2. RequestCFs[Svc(rxEcu.of)] \in Nat /\ bs \in Nat
      BY <3>1, UdsAssumption DEF UdsAssumption, Svc, Request
    <3> QED BY <2>3, <3>2 DEF EcuFlowControl
  <2> QED BY <2>1, <2>2, <2>3
<1>5. /\ rxEcu' \in {None} \cup [of : 1..MaxRequests, got : Nat, grant : Nat]
      /\ rxEcu'.of \in {0, rxEcu.of}
  BY <1>1, <1>4 DEF None
<1> QED BY <1>1, <1>3, <1>5, EcuQuiet DEF TypeOK

\* The first element of a sequence over S.
LEMMA HeadIn ==
    ASSUME NEW S, NEW s \in Seq(S), s # <<>>
    PROVE  s[1] \in S
OBVIOUS

LEMMA EcuAnswersStep ==
    ASSUME UdsInv, NEW kind \in Kind, EcuAnswers(kind)
    PROVE  UdsInv'
<1> DEFINE i == Head(jobs)
           long == kind = "positive" /\ AnswerCFs[Svc(i)] > 0
           f == [type |-> IF long THEN "FF" ELSE "SF", of |-> i, kind |-> kind]
<1>1. /\ TypeOK /\ jobs # <<>> /\ jobs \in Seq(1..MaxRequests)
      /\ UNCHANGED <<issued, ex, session, toEcu, broken, rxEcu>>
      /\ Deliver(f) /\ jobs' \in {jobs, Tail(jobs)}
      /\ txEcu' \in {None, [of |-> i, sent |-> 0, clear |-> FALSE]}
  BY DEF EcuAnswers, UdsInv, TypeOK, tool, history
<1>2. i \in 1..MaxRequests /\ jobs' \in Seq(1..MaxRequests)
  <2> HIDE DEF f, long
  <2>0. jobs # <<>> /\ jobs \in Seq(1..MaxRequests)
    BY <1>1
  <2>1. i = jobs[1] /\ 1 \in 1..Len(jobs) /\ Tail(jobs) \in Seq(1..MaxRequests)
    BY <2>0
  <2>2. i \in 1..MaxRequests
    <3>2. jobs[1] \in 1..MaxRequests
      BY <2>0, HeadIn
    <3> HIDE DEF i
    <3> QED BY <2>1, <3>2
  <2> QED BY <1>1, <2>1, <2>2
<1> HIDE DEF i
<1>3. f \in FrameToTool
  BY <1>2 DEF FrameToTool
<1>4. txEcu' \in {None} \cup [of : 1..MaxRequests, sent : Nat, clear : BOOLEAN]
  <2>1. [of |-> i, sent |-> 0, clear |-> FALSE]
          \in [of : 1..MaxRequests, sent : Nat, clear : BOOLEAN]
    BY <1>2
  <2> HIDE DEF f
  <2> QED BY <1>1, <2>1
<1> HIDE DEF f
<1>5. queue' \in [Client -> Seq(FrameToTool)]
  BY <1>1, <1>3, Delivered
<1> QED BY <1>1, <1>2, <1>4, <1>5, EcuQuiet DEF TypeOK

LEMMA EcuContinuesStep == ASSUME UdsInv, EcuContinues PROVE UdsInv'
<1> DEFINE n == txEcu.sent + 1
           f == [type |-> "CF", of |-> txEcu.of, sn |-> n % SNMod]
<1>1. /\ TypeOK /\ txEcu \in [of : 1..MaxRequests, sent : Nat, clear : BOOLEAN]
      /\ UNCHANGED <<issued, ex, session, toEcu, broken, rxEcu, jobs>>
      /\ Deliver(f) /\ txEcu' \in {None, [txEcu EXCEPT !.sent = n]}
  BY DEF EcuContinues, UdsInv, TypeOK, tool, history
<1>2. n \in Nat /\ txEcu' \in {None} \cup [of : 1..MaxRequests, sent : Nat, clear : BOOLEAN]
  BY <1>1
<1>3. n % SNMod \in 0..SNMod - 1
  BY <1>2, UdsAssumption DEF UdsAssumption
<1>4. f \in FrameToTool
  BY <1>1, <1>3 DEF FrameToTool
<1> HIDE DEF f
<1>5. queue' \in [Client -> Seq(FrameToTool)]
  BY <1>1, <1>4, Delivered
<1> QED BY <1>1, <1>2, <1>5, EcuQuiet DEF TypeOK

LEMMA UdsStep == UdsInv /\ [Next]_vars => UdsInv'
<1> SUFFICES ASSUME UdsInv, [Next]_vars PROVE UdsInv'
  OBVIOUS
<1>1. CASE UNCHANGED vars
  <2>1. TypeOK'
    BY <1>1 DEF UdsInv, TypeOK, LockFree, vars, tool, ecu, history
  <2>2. BegunInv' /\ OrderInv' /\ RequestsNotCutOff'
    BY <1>1, Quiet DEF vars, tool, ecu, history
  <2> QED BY <2>1, <2>2 DEF UdsInv
<1>2. ASSUME NEW c \in Client,
             \/ Runs(c) \/ Refused(c) \/ FlowControlRefused(c) \/ KeepAlive(c)
             \/ \E svc \in Service, did \in Did : Begin(c, svc, did)
      PROVE  UdsInv'
  BY <1>2, FlowControlStep, ConsecutiveStep, RaisingStep, AnswerStep,
     AnswerRefusedStep, KeepAliveStep,
     BeginStep DEF Runs
<1>3. CASE Ecu
  <2>1. CASE EcuTakes
    BY <2>1, TakesStep
  <2>2. CASE EcuContinues
    BY <2>2, EcuContinuesStep
  <2>3. CASE EcuBreaksOff
    <3>1. /\ UNCHANGED <<issued, ex, session, toEcu, broken, rxEcu, jobs, queue>>
          /\ txEcu' = None /\ TypeOK
      BY <2>3 DEF EcuBreaksOff, tool, history, UdsInv
    <3> QED BY <3>1, EcuQuiet DEF TypeOK
  <2>4. CASE \E status \in {"CTS", "WAIT", "OVERFLOW"}, bs \in Blocks :
                EcuFlowControl(status, bs)
    BY <2>4, EcuFlowControlStep
  <2>5. CASE \E kind \in {"positive", "negative", "pending"} : EcuAnswers(kind)
    BY <2>5, EcuAnswersStep DEF Kind
  <2> QED BY <1>3, <2>1, <2>2, <2>3, <2>4, <2>5 DEF Ecu
<1> QED BY <1>1, <1>2, <1>3, TickStep DEF Next

-----------------------------------------------------------------------------
(* Which requests the ECU has still to serve, and which answers a client   *)
(* has still to read.                                                      *)

\* The first frame of a request, on the bus.
Starts(f) == f.type \in {"SF", "FF"} /\ f.of # 0

\* The first frame of an answer, in a queue.
Answers(f) == f.type \in {"SF", "FF"}

\* The ECU serves requests in the order in which they began.
ServedInOrder ==
    /\ \A j, k \in 1..Len(jobs) : j < k => jobs[j] < jobs[k]
    /\ \A k \in 1..Len(jobs) :
          /\ jobs[k] =< Len(issued)
          /\ rxEcu.of # 0 => jobs[k] < rxEcu.of
    /\ \A k \in 1..Len(jobs), m \in 1..Len(toEcu) :
          Starts(toEcu[m]) => jobs[k] < toEcu[m].of
    /\ \A m \in 1..Len(toEcu) : Starts(toEcu[m]) => rxEcu.of < toEcu[m].of
    /\ \A l, m \in 1..Len(toEcu) :
          l < m /\ Starts(toEcu[l]) /\ Starts(toEcu[m]) => toEcu[l].of < toEcu[m].of

\* The ECU has nothing left to answer up to request q.
EcuPast(q) ==
    /\ \A k \in 1..Len(jobs) : q < jobs[k]
    /\ rxEcu.of # 0 => q < rxEcu.of
    /\ \A m \in 1..Len(toEcu) : Starts(toEcu[m]) => q < toEcu[m].of

\* Nor has client c anything left to read up to request q.
Past(c, q) ==
    /\ q =< Len(issued) /\ EcuPast(q)
    /\ \A k \in 1..Len(queue[c]) : Answers(queue[c][k]) => q < queue[c][k].of

\* The requests that are over once answer f is sent: "pending" leaves its own.
Over(f) == IF f.kind = "pending" THEN f.of - 1 ELSE f.of

\* Answers come in the order of the requests, and the session is past what it
\* reassembles.
AnswersInOrder ==
    \A c \in Client :
        \A k \in 1..Len(queue[c]) : Answers(queue[c][k]) =>
            /\ queue[c][k].type = "FF" => queue[c][k].kind = "positive"
            /\ queue[c][k].of =< Len(issued)
            /\ \A q \in Nat : q = Over(queue[c][k]) => EcuPast(q)
            /\ \A m \in 1..Len(queue[c]) :
                  k < m /\ Answers(queue[c][m]) => Over(queue[c][k]) < queue[c][m].of

SessionIsPast ==
    \A c \in Client, q \in Nat : session[c] # None /\ q = session[c].of => Past(c, q)

\* A client is past every answer it has accepted.
AcceptedIsPast ==
    \A p \in accepted :
        /\ p[1] \in 1..Len(issued) /\ p[2] \in 1..Len(issued)
        /\ \A c \in Client : c = issued[p[1]].client =>
              Past(c, p[2]) /\ (session[c] # None => p[2] < session[c].of)

\* The exchange under way is its client's latest request and has no answer yet;
\* every earlier one gave up or has one.
Latest(c) ==
    /\ ex[c].req # 0 =>
          /\ issued[ex[c].req].client = c
          /\ \A p \in accepted : p[1] # ex[c].req
    /\ \A s \in 1..Len(issued) : issued[s].client = c /\ s # ex[c].req =>
          /\ s \in gaveUp \/ \E p \in accepted : p[1] = s
          /\ ex[c].req # 0 => s < ex[c].req

LatestInv == \A c \in Client : Latest(c)

AnswersInv ==
    ServedInOrder /\ AnswersInOrder /\ SessionIsPast /\ AcceptedIsPast /\ LatestInv

LEMMA AnswerFields ==
    \A f \in FrameToTool :
        /\ f.type \in {"SF", "FF", "CF", "FC"}
        /\ Answers(f) => f.of \in 1..MaxRequests /\ f.kind \in Kind
                         /\ Over(f) \in Nat /\ Over(f) =< f.of
                         /\ f.of - 1 =< Over(f)
BY Limits DEF FrameToTool, Answers, Over, Kind

LEMMA ElementsIn ==
    ASSUME NEW S, NEW s \in Seq(S)
    PROVE  Len(s) \in Nat /\ \A k \in 1..Len(s) : s[k] \in S
OBVIOUS

LEMMA MoreFields ==
    ASSUME UdsInv
    PROVE  /\ jobs \in Seq(1..MaxRequests) /\ Len(jobs) \in Nat
           /\ \A k \in 1..Len(jobs) : jobs[k] \in Nat
           /\ \A c \in Client : queue[c] \in Seq(FrameToTool) /\ Len(queue[c]) \in Nat
           /\ \A c \in Client : \A k \in 1..Len(queue[c]) : queue[c][k] \in FrameToTool
           /\ \A c \in Client : session[c] \in {None} \cup Session
           /\ \A c \in Client : session[c] # None =>
                 session[c] \in Session /\ session[c].of \in Nat
           /\ \A s \in 1..Len(issued) : issued[s] \in Request /\ issued[s].client \in Client
<1>1. jobs \in Seq(1..MaxRequests) /\ Len(jobs) \in Nat
  BY DEF UdsInv, TypeOK
<1>2. \A k \in 1..Len(jobs) : jobs[k] \in Nat
  <2> DEFINE S == 1..MaxRequests
  <2>1. jobs \in Seq(S) /\ S \subseteq Nat
    BY <1>1, Limits
  <2> HIDE DEF S
  <2>2. \A k \in 1..Len(jobs) : jobs[k] \in S
    BY <2>1, ElementsIn
  <2> QED BY <2>1, <2>2
<1>3. \A c \in Client : queue[c] \in Seq(FrameToTool) /\ Len(queue[c]) \in Nat
  BY DEF UdsInv, TypeOK
<1>4. \A c \in Client : \A k \in 1..Len(queue[c]) : queue[c][k] \in FrameToTool
  BY <1>3
<1>5. \A c \in Client : session[c] \in {None} \cup Session
  BY DEF UdsInv, TypeOK
<1>6. \A c \in Client : session[c] # None => session[c] \in Session /\ session[c].of \in Nat
  BY <1>5, Limits DEF Session
<1>7. \A s \in 1..Len(issued) : issued[s] \in Request /\ issued[s].client \in Client
  <2>1. issued \in Seq(Request)
    BY DEF UdsInv, TypeOK
  <2>2. \A s \in 1..Len(issued) : issued[s] \in Request
    BY <2>1, ElementsIn
  <2> QED BY <2>2 DEF Request
<1> QED BY <1>1, <1>2, <1>3, <1>4, <1>5, <1>6, <1>7

-----------------------------------------------------------------------------
(* What a step does on the ECU's side.                                     *)

\* Nothing moves, but the request being received may be dropped.
EcuRests ==
    /\ UNCHANGED <<issued, jobs, toEcu>>
    /\ rxEcu'.of \in {0, rxEcu.of}

\* A request is over.
EcuServes ==
    /\ UNCHANGED <<issued, toEcu, rxEcu>>
    /\ jobs # <<>> /\ jobs' = Tail(jobs)

\* A frame is sent; the first of a request is that of a new one.
Sends(f) ==
    /\ UNCHANGED <<jobs, rxEcu>>
    /\ f \in FrameToEcu /\ toEcu' = Append(toEcu, f)
    /\ \/ issued' = issued /\ ~Starts(f)
       \/ Len(issued') = Len(issued) + 1 /\ f.of = Len(issued')

\* A frame reaches the ECU.
Arrives(f) ==
    /\ UNCHANGED issued
    /\ toEcu # <<>> /\ f = toEcu[1] /\ toEcu' = Tail(toEcu)
    /\ \/ jobs' = jobs /\ rxEcu'.of \in {0, rxEcu.of}
       \/ jobs' = jobs /\ Starts(f) /\ rxEcu'.of = f.of
       \/ /\ f.of # 0 /\ (Starts(f) \/ rxEcu.of = f.of)
          /\ jobs' = Append(jobs, f.of) /\ rxEcu'.of = 0

LEMMA EcuArrives ==
    ASSUME UdsInv, EcuTakes
    PROVE  \E f \in FrameToEcu : Arrives(f)
<1> DEFINE f == Head(toEcu)
<1>1. /\ toEcu # <<>> /\ toEcu' = Tail(toEcu) /\ f = toEcu[1] /\ f \in FrameToEcu
      /\ UNCHANGED issued
  BY DEF EcuTakes, UdsInv, TypeOK, tool
<1>2. f.type \in {"FF", "CF"} => f.of # 0
  BY <1>1 DEF FrameToEcu
<1>3. /\ None.of = 0 /\ (rxEcu # None => rxEcu \in [of : 1..MaxRequests, got : Nat, grant : Nat])
  BY DEF UdsInv, TypeOK, None
<1>4. \/ jobs' = jobs /\ rxEcu'.of \in {0, rxEcu.of}
      \/ jobs' = jobs /\ Starts(f) /\ rxEcu'.of = f.of
      \/ /\ f.of # 0 /\ (Starts(f) \/ rxEcu.of = f.of)
         /\ jobs' = Append(jobs, f.of) /\ rxEcu'.of = 0
  <2> HIDE DEF f
  <2>1. CASE f.type = "SF" /\ rxEcu' = None /\ jobs' = IF f.of = 0 THEN jobs ELSE Append(jobs, f.of)
    BY <2>1, <1>3 DEF Starts
  <2>2. CASE f.type = "FF" /\ jobs' = jobs /\ rxEcu' = [of |-> f.of, got |-> 0, grant |-> 0]
    BY <2>2, <1>2 DEF Starts
  <2>3. CASE f.type = "CF" /\ rxEcu.of = f.of /\ rxEcu' = None /\ jobs' = Append(jobs, f.of)
    BY <2>3, <1>2, <1>3
  <2>4. CASE rxEcu # None /\ jobs' = jobs
             /\ rxEcu' = [rxEcu EXCEPT !.got = @ + 1, !.grant = IF @ = 0 THEN 0 ELSE @ - 1]
    BY <2>4, <1>3
  <2>5. CASE jobs' = jobs /\ rxEcu' = rxEcu
    BY <2>5
  <2> QED BY <2>1, <2>2, <2>3, <2>4, <2>5 DEF EcuTakes, f
<1> HIDE DEF f
<1> QED BY <1>1, <1>4 DEF Arrives

LEMMA EcuSide ==
    ASSUME UdsInv, [Next]_vars
    PROVE  EcuRests \/ EcuServes \/ \E f \in FrameToEcu : Sends(f) \/ Arrives(f)
<1>1. CASE UNCHANGED vars
  BY <1>1 DEF EcuRests, vars, tool, ecu
<1>2. CASE Tick
  BY <1>2 DEF EcuRests, Tick, ecu
<1>3. ASSUME NEW c \in Client, SendConsecutiveFrame(c)
      PROVE  \E f \in FrameToEcu : Sends(f)
  <2>1. ex[c].req \in 1..MaxRequests
    <3>1. ex[c] \in Exchange /\ ex[c].req # 0
      BY <1>3 DEF UdsInv, TypeOK, LockFree, SendConsecutiveFrame
    <3> QED BY <3>1, Limits DEF Exchange
  <2> DEFINE f == ToEcu(c, "CF", ex[c].req)
  <2>2. f \in FrameToEcu /\ ~Starts(f)
    BY <2>1 DEF FrameToEcu, ToEcu, Starts
  <2>3. [ex[c] EXCEPT !.sent = @ + 1, !.left = IF @ = 0 THEN 0 ELSE @ - 1].req = ex[c].req
    BY <1>3 DEF UdsInv, TypeOK, Exchange
  <2>4. toEcu' = Append(toEcu, f) /\ UNCHANGED <<issued, jobs, rxEcu>>
    BY <1>3, <2>3 DEF SendConsecutiveFrame, Send
  <2> HIDE DEF f
  <2> QED BY <2>2, <2>4 DEF Sends
<1>4. ASSUME NEW c \in Client, TakeAnswer(c)
      PROVE  EcuRests \/ \E f \in FrameToEcu : Sends(f)
  <2> DEFINE f == ToEcu(c, "FC", 0)
  <2>1. f \in FrameToEcu /\ ~Starts(f)
    BY Limits DEF FrameToEcu, ToEcu, Starts
  <2>2. UNCHANGED <<issued, jobs, rxEcu>> /\ (toEcu' = toEcu \/ toEcu' = Append(toEcu, f))
    BY <1>4 DEF TakeAnswer, Send
  <2> HIDE DEF f
  <2> QED BY <2>1, <2>2 DEF Sends, EcuRests
<1>5. ASSUME NEW c \in Client, KeepAlive(c)
      PROVE  \E f \in FrameToEcu : Sends(f)
  <2> DEFINE f == ToEcu(c, "SF", 0)
  <2>1. f \in FrameToEcu /\ ~Starts(f)
    BY Limits DEF FrameToEcu, ToEcu, Starts
  <2>2. UNCHANGED <<issued, jobs, rxEcu>> /\ toEcu' = Append(toEcu, f)
    BY <1>5 DEF KeepAlive, Send, tool
  <2> HIDE DEF f
  <2> QED BY <2>1, <2>2 DEF Sends
<1>6. ASSUME NEW c \in Client, NEW svc \in Service, NEW did \in Did, Begin(c, svc, did)
      PROVE  \E f \in FrameToEcu : Sends(f)
  <2> DEFINE i == Len(issued) + 1
             f == ToEcu(c, IF RequestCFs[svc] = 0 THEN "SF" ELSE "FF", i)
  <2>1. i \in 1..MaxRequests
    BY <1>6, Limits, Fields DEF Begin, UdsInv
  <2>2. f \in FrameToEcu /\ f.of = i
    BY <2>1 DEF FrameToEcu, ToEcu
  <2>3. UNCHANGED <<jobs, rxEcu>> /\ toEcu' = Append(toEcu, f)
        /\ issued' = Append(issued, [client |-> c, svc |-> svc, did |-> did])
    BY <1>6 DEF Begin, Send
  <2>4. Len(issued') = i
    BY <2>3 DEF UdsInv, TypeOK
  <2> HIDE DEF f
  <2> QED BY <2>2, <2>3, <2>4 DEF Sends
<1>7. ASSUME NEW c \in Client,
             TakeFlowControl(c) \/ Expires(c) \/ Refused(c) \/ FlowControlRefused(c)
      PROVE  EcuRests
  BY <1>7 DEF EcuRests, TakeFlowControl, Expires, Refused, FlowControlRefused, ecu
<1>8. CASE Ecu
  <2>1. CASE EcuTakes
    BY <2>1, EcuArrives
  <2>2. CASE EcuContinues
    BY <2>2 DEF EcuRests, EcuContinues, tool
  <2>3. CASE EcuBreaksOff
    BY <2>3 DEF EcuRests, EcuBreaksOff, tool
  <2>4. ASSUME NEW status \in {"CTS", "WAIT", "OVERFLOW"}, NEW bs \in Blocks,
               EcuFlowControl(status, bs)
        PROVE  EcuRests
    <3>1. rxEcu \in [of : 1..MaxRequests, got : Nat, grant : Nat] /\ None.of = 0
      BY <2>4 DEF EcuFlowControl, UdsInv, TypeOK, None
    <3>2. rxEcu' = None \/ rxEcu' = rxEcu \/ \E n : rxEcu' = [rxEcu EXCEPT !.grant = n]
      BY <2>4 DEF EcuFlowControl
    <3> QED BY <2>4, <3>1, <3>2 DEF EcuRests, EcuFlowControl, tool
  <2>5. ASSUME NEW kind \in {"positive", "negative", "pending"}, EcuAnswers(kind)
        PROVE  EcuRests \/ EcuServes
    BY <2>5 DEF EcuRests, EcuServes, EcuAnswers, tool
  <2> QED BY <1>8, <2>1, <2>2, <2>3, <2>4, <2>5 DEF Ecu
<1> QED BY <1>1, <1>2, <1>3, <1>4, <1>5, <1>6, <1>7, <1>8 DEF Next, Runs

LEMMA ServedStep ==
    ASSUME UdsInv, ServedInOrder, [Next]_vars
    PROVE  ServedInOrder'
<1>1. /\ Len(jobs) \in Nat /\ \A k \in 1..Len(jobs) : jobs[k] \in Nat
      /\ Len(toEcu) \in Nat /\ Len(issued) \in Nat /\ rxEcu.of \in Nat
      /\ \A m \in 1..Len(toEcu) : toEcu[m].of \in Nat /\ toEcu[m].of =< Len(issued)
      /\ rxEcu.of =< Len(issued)
  BY MoreFields, Fields DEF UdsInv, BegunInv
<1>2. CASE EcuRests
  BY <1>1, <1>2 DEF EcuRests, ServedInOrder
<1>3. CASE EcuServes
  <2>1. /\ Len(jobs') \in Nat /\ Len(jobs) = Len(jobs') + 1
        /\ \A k \in 1..Len(jobs') : k + 1 \in 1..Len(jobs) /\ jobs'[k] = jobs[k + 1]
    BY <1>3, MoreFields DEF EcuServes
  <2>2. UNCHANGED <<issued, toEcu, rxEcu>>
    BY <1>3 DEF EcuServes
  <2>3. \A j, k \in 1..Len(jobs') : j < k => jobs'[j] < jobs'[k]
    <3> SUFFICES ASSUME NEW j \in 1..Len(jobs'), NEW k \in 1..Len(jobs'), j < k
                 PROVE  jobs'[j] < jobs'[k]
      OBVIOUS
    <3>1. j + 1 < k + 1 /\ j + 1 \in 1..Len(jobs) /\ k + 1 \in 1..Len(jobs)
      BY <2>1
    <3> QED BY <3>1, <2>1 DEF ServedInOrder
  <2>4. \A k \in 1..Len(jobs') :
          /\ jobs'[k] =< Len(issued')
          /\ rxEcu'.of # 0 => jobs'[k] < rxEcu'.of
    BY <2>1, <2>2 DEF ServedInOrder
  <2>5. \A k \in 1..Len(jobs'), m \in 1..Len(toEcu') :
          Starts(toEcu'[m]) => jobs'[k] < toEcu'[m].of
    BY <2>1, <2>2 DEF ServedInOrder
  <2> QED BY <2>2, <2>3, <2>4, <2>5 DEF ServedInOrder
<1>4. ASSUME NEW f \in FrameToEcu, Sends(f) PROVE ServedInOrder'
  <2> DEFINE n == Len(toEcu)
  <2>1. /\ Len(toEcu') = n + 1 /\ toEcu'[n + 1] = f
        /\ \A m \in 1..n : toEcu'[m] = toEcu[m]
        /\ \A m \in 1..(n + 1) : m \in 1..n \/ m = n + 1
    BY <1>4, <1>1 DEF Sends, UdsInv, TypeOK
  <2>2. UNCHANGED <<jobs, rxEcu>> /\ Len(issued') \in Nat /\ Len(issued) =< Len(issued')
        /\ (Starts(f) => f.of = Len(issued) + 1)
    BY <1>4, <1>1 DEF Sends
  <2>3. \A k \in 1..Len(jobs) : jobs[k] =< Len(issued')
    BY <1>1, <2>2 DEF ServedInOrder
  <2>4. \A k \in 1..Len(jobs), m \in 1..Len(toEcu') :
          Starts(toEcu'[m]) => jobs[k] < toEcu'[m].of
    <3> SUFFICES ASSUME NEW k \in 1..Len(jobs), NEW m \in 1..(n + 1), Starts(toEcu'[m])
                 PROVE  jobs[k] < toEcu'[m].of
      BY <2>1
    <3>1. CASE m \in 1..n
      BY <3>1, <2>1 DEF ServedInOrder
    <3>2. CASE m = n + 1
      BY <3>2, <1>1, <2>1, <2>2 DEF ServedInOrder
    <3> QED BY <3>1, <3>2, <2>1
  <2>5. \A m \in 1..Len(toEcu') : Starts(toEcu'[m]) => rxEcu.of < toEcu'[m].of
    <3> SUFFICES ASSUME NEW m \in 1..(n + 1), Starts(toEcu'[m])
                 PROVE  rxEcu.of < toEcu'[m].of
      BY <2>1
    <3>1. CASE m \in 1..n
      BY <3>1, <2>1 DEF ServedInOrder
    <3>2. CASE m = n + 1
      BY <3>2, <1>1, <2>1, <2>2
    <3> QED BY <3>1, <3>2, <2>1
  <2>6. \A l, m \in 1..Len(toEcu') :
          l < m /\ Starts(toEcu'[l]) /\ Starts(toEcu'[m]) => toEcu'[l].of < toEcu'[m].of
    <3> SUFFICES ASSUME NEW l \in 1..(n + 1), NEW m \in 1..(n + 1), l < m,
                        Starts(toEcu'[l]), Starts(toEcu'[m])
                 PROVE  toEcu'[l].of < toEcu'[m].of
      BY <2>1
    <3>1. l \in 1..n
      BY <1>1
    <3>2. CASE m \in 1..n
      BY <3>1, <3>2, <2>1 DEF ServedInOrder
    <3>3. CASE m = n + 1
      BY <3>1, <3>3, <1>1, <2>1, <2>2
    <3> QED BY <3>2, <3>3, <2>1
  <2> QED BY <2>2, <2>3, <2>4, <2>5, <2>6 DEF ServedInOrder
<1>5. ASSUME NEW f \in FrameToEcu, Arrives(f) PROVE ServedInOrder'
  <2> DEFINE n == Len(toEcu')
  <2>1. /\ n \in Nat /\ Len(toEcu) = n + 1 /\ f = toEcu[1] /\ 1 \in 1..Len(toEcu)
        /\ \A m \in 1..n : m + 1 \in 1..Len(toEcu) /\ toEcu'[m] = toEcu[m + 1]
        /\ issued' = issued
    BY <1>5 DEF Arrives, UdsInv, TypeOK
  <2>2. \A m \in 1..n : Starts(toEcu'[m]) =>
           /\ rxEcu.of < toEcu'[m].of
           /\ Starts(f) => f.of < toEcu'[m].of
           /\ \A k \in 1..Len(jobs) : jobs[k] < toEcu'[m].of
    <3> SUFFICES ASSUME NEW m \in 1..n, Starts(toEcu'[m])
                 PROVE  /\ rxEcu.of < toEcu'[m].of
                        /\ Starts(f) => f.of < toEcu'[m].of
                        /\ \A k \in 1..Len(jobs) : jobs[k] < toEcu'[m].of
      OBVIOUS
    <3>1. 1 < m + 1 /\ m + 1 \in 1..Len(toEcu) /\ toEcu'[m] = toEcu[m + 1]
      BY <2>1
    <3> QED BY <3>1, <2>1 DEF ServedInOrder
  <2>3. \A l, m \in 1..n :
          l < m /\ Starts(toEcu'[l]) /\ Starts(toEcu'[m]) => toEcu'[l].of < toEcu'[m].of
    <3> SUFFICES ASSUME NEW l \in 1..n, NEW m \in 1..n, l < m,
                        Starts(toEcu'[l]), Starts(toEcu'[m])
                 PROVE  toEcu'[l].of < toEcu'[m].of
      OBVIOUS
    <3>1. l + 1 < m + 1
      BY <2>1
    <3> QED BY <3>1, <2>1 DEF ServedInOrder
  <2>4. /\ f.of \in Nat /\ f.of =< Len(issued)
        /\ Starts(f) => rxEcu.of < f.of /\ f.of # 0
                        /\ \A k \in 1..Len(jobs) : jobs[k] < f.of
    BY <1>1, <2>1 DEF ServedInOrder, Starts
  <2>5. CASE jobs' = jobs /\ rxEcu'.of \in {0, rxEcu.of}
    <3>1. \A m \in 1..n : Starts(toEcu'[m]) => rxEcu'.of < toEcu'[m].of
      <4>1. \A m \in 1..n : Starts(toEcu'[m]) => 0 < toEcu'[m].of
        BY <2>1, <1>1 DEF Starts
      <4> QED BY <2>2, <2>5, <4>1
    <3>2. \A k \in 1..Len(jobs') :
             /\ jobs'[k] =< Len(issued')
             /\ rxEcu'.of # 0 => jobs'[k] < rxEcu'.of
      BY <2>1, <2>5 DEF ServedInOrder
    <3> QED BY <2>2, <2>3, <2>5, <3>1, <3>2 DEF ServedInOrder
  <2>6. CASE jobs' = jobs /\ Starts(f) /\ rxEcu'.of = f.of
    <3>1. \A k \in 1..Len(jobs') :
             /\ jobs'[k] =< Len(issued')
             /\ rxEcu'.of # 0 => jobs'[k] < rxEcu'.of
      BY <2>1, <2>4, <2>6 DEF ServedInOrder
    <3> QED BY <2>2, <2>3, <2>6, <3>1 DEF ServedInOrder
  <2>7. CASE /\ f.of # 0 /\ (Starts(f) \/ rxEcu.of = f.of)
             /\ jobs' = Append(jobs, f.of) /\ rxEcu'.of = 0
    <3> DEFINE d == Len(jobs)
    <3>1. /\ Len(jobs') = d + 1 /\ jobs'[d + 1] = f.of
          /\ \A k \in 1..d : jobs'[k] = jobs[k]
          /\ \A k \in 1..(d + 1) : k \in 1..d \/ k = d + 1
      BY <2>7, MoreFields
    <3>2. \A k \in 1..d : jobs[k] < f.of
      BY <2>4, <2>7 DEF ServedInOrder
    <3>3. \A m \in 1..n : Starts(toEcu'[m]) => f.of < toEcu'[m].of
      BY <2>2, <2>7
    <3>4. \A j, k \in 1..Len(jobs') : j < k => jobs'[j] < jobs'[k]
      <4> SUFFICES ASSUME NEW j \in 1..(d + 1), NEW k \in 1..(d + 1), j < k
                   PROVE  jobs'[j] < jobs'[k]
        BY <3>1
      <4>1. j \in 1..d
        BY <1>1
      <4>2. CASE k \in 1..d
        BY <3>1, <4>1, <4>2 DEF ServedInOrder
      <4>3. CASE k = d + 1
        BY <3>1, <3>2, <4>1, <4>3
      <4> QED BY <3>1, <4>2, <4>3
    <3>5. \A k \in 1..Len(jobs') :
             /\ jobs'[k] =< Len(issued')
             /\ rxEcu'.of # 0 => jobs'[k] < rxEcu'.of
      BY <2>1, <2>4, <2>7, <3>1 DEF ServedInOrder
    <3>6. \A k \in 1..Len(jobs'), m \in 1..n :
             Starts(toEcu'[m]) => jobs'[k] < toEcu'[m].of
      BY <2>2, <3>1, <3>3
    <3>7. \A m \in 1..n : Starts(toEcu'[m]) => rxEcu'.of < toEcu'[m].of
      BY <2>1, <2>7, <1>1 DEF Starts
    <3> QED BY <2>3, <3>4, <3>5, <3>6, <3>7 DEF ServedInOrder
  <2> QED BY <1>5, <2>5, <2>6, <2>7 DEF Arrives
<1> QED BY <1>2, <1>3, <1>4, <1>5, EcuSide

LEMMA EcuPastStep ==
    ASSUME UdsInv, [Next]_vars, NEW q \in Nat, q =< Len(issued), EcuPast(q)
    PROVE  EcuPast(q)' /\ q =< Len(issued')
<1>1. /\ Len(jobs) \in Nat /\ \A k \in 1..Len(jobs) : jobs[k] \in Nat
      /\ Len(toEcu) \in Nat /\ Len(issued) \in Nat /\ rxEcu.of \in Nat
      /\ \A m \in 1..Len(toEcu) : toEcu[m].of \in Nat
  BY MoreFields, Fields DEF UdsInv
<1>2. CASE EcuRests
  BY <1>1, <1>2 DEF EcuRests, EcuPast
<1>3. CASE EcuServes
  <2>1. /\ Len(jobs') \in Nat /\ Len(jobs) = Len(jobs') + 1
        /\ \A k \in 1..Len(jobs') : k + 1 \in 1..Len(jobs) /\ jobs'[k] = jobs[k + 1]
    BY <1>3, MoreFields DEF EcuServes
  <2> QED BY <1>3, <2>1 DEF EcuServes, EcuPast
<1>4. ASSUME NEW f \in FrameToEcu, Sends(f) PROVE EcuPast(q)' /\ q =< Len(issued')
  <2> DEFINE n == Len(toEcu)
  <2>1. /\ Len(toEcu') = n + 1 /\ toEcu'[n + 1] = f
        /\ \A m \in 1..n : toEcu'[m] = toEcu[m]
        /\ \A m \in 1..(n + 1) : m \in 1..n \/ m = n + 1
    BY <1>4, <1>1 DEF Sends, UdsInv, TypeOK
  <2>2. UNCHANGED <<jobs, rxEcu>> /\ q =< Len(issued') /\ (Starts(f) => q < f.of)
    BY <1>4, <1>1 DEF Sends
  <2>3. \A m \in 1..(n + 1) : Starts(toEcu'[m]) => q < toEcu'[m].of
    BY <2>1, <2>2 DEF EcuPast
  <2> QED BY <2>1, <2>2, <2>3 DEF EcuPast
<1>5. ASSUME NEW f \in FrameToEcu, Arrives(f) PROVE EcuPast(q)' /\ q =< Len(issued')
  <2> DEFINE n == Len(toEcu')
  <2>1. /\ n \in Nat /\ Len(toEcu) = n + 1 /\ f = toEcu[1] /\ 1 \in 1..Len(toEcu)
        /\ \A m \in 1..n : m + 1 \in 1..Len(toEcu) /\ toEcu'[m] = toEcu[m + 1]
        /\ issued' = issued
    BY <1>5 DEF Arrives, UdsInv, TypeOK
  <2>2. \A m \in 1..n : Starts(toEcu'[m]) => q < toEcu'[m].of
    BY <2>1 DEF EcuPast
  <2>3. Starts(f) => q < f.of
    BY <2>1 DEF EcuPast
  <2>4. rxEcu'.of # 0 => q < rxEcu'.of
    BY <1>5, <2>3 DEF Arrives, EcuPast
  <2>5. \A k \in 1..Len(jobs') : q < jobs'[k]
    <3>1. CASE jobs' = jobs
      BY <3>1 DEF EcuPast
    <3>2. CASE f.of # 0 /\ (Starts(f) \/ rxEcu.of = f.of) /\ jobs' = Append(jobs, f.of)
      <4>1. q < f.of
        BY <3>2, <2>3 DEF EcuPast
      <4>2. /\ Len(jobs') = Len(jobs) + 1 /\ jobs'[Len(jobs) + 1] = f.of
            /\ \A k \in 1..Len(jobs) : jobs'[k] = jobs[k]
            /\ \A k \in 1..(Len(jobs) + 1) : k \in 1..Len(jobs) \/ k = Len(jobs) + 1
        BY <3>2, MoreFields
      <4> QED BY <4>1, <4>2 DEF EcuPast
    <3> QED BY <1>5, <3>1, <3>2 DEF Arrives
  <2> QED BY <2>1, <2>2, <2>4, <2>5 DEF EcuPast
<1> QED BY <1>2, <1>3, <1>4, <1>5, EcuSide DEF EcuRests, EcuServes

-----------------------------------------------------------------------------
(* What a step does to a client's queue.                                   *)

\* The ECU answers its first request.
IsAnswer(f) ==
    /\ jobs # <<>> /\ f.of = jobs[1]
    /\ f.type = "FF" => f.kind = "positive"
    /\ UNCHANGED <<issued, toEcu, rxEcu>>
    /\ f.kind # "pending" => jobs' = Tail(jobs)
    /\ f.kind = "pending" => jobs' = jobs

QueueIs(c) ==
    \/ queue'[c] = queue[c]
    \/ queue[c] # <<>> /\ queue'[c] = Tail(queue[c])
    \/ \E f \in FrameToTool :
          /\ queue'[c] = Append(queue[c], f)
          /\ Answers(f) => IsAnswer(f)

LEMMA DeliveredTo ==
    ASSUME NEW f \in FrameToTool, Deliver(f), Answers(f) => IsAnswer(f), NEW c \in Client
    PROVE  QueueIs(c)
BY DEF Deliver, QueueIs

LEMMA TakenFrom ==
    ASSUME UdsInv, NEW d \in Client, queue[d] # <<>>,
           queue' = [queue EXCEPT ![d] = Tail(@)], NEW c \in Client
    PROVE  QueueIs(c)
BY DEF QueueIs, UdsInv, TypeOK

LEMMA QueueSide ==
    ASSUME UdsInv, [Next]_vars, NEW c \in Client
    PROVE  QueueIs(c)
<1>1. CASE UNCHANGED queue
  BY <1>1 DEF QueueIs
<1>2. ASSUME NEW d \in Client,
             \/ Runs(d) \/ Refused(d) \/ FlowControlRefused(d) \/ KeepAlive(d)
             \/ \E svc \in Service, did \in Did : Begin(d, svc, did)
      PROVE  QueueIs(c)
  <2>1. CASE TakeFlowControl(d) \/ TakeAnswer(d) \/ FlowControlRefused(d)
    <3>1. queue[d] # <<>> /\ queue' = [queue EXCEPT ![d] = Tail(@)]
      BY <2>1 DEF TakeFlowControl, TakeAnswer, FlowControlRefused
    <3> QED BY <3>1, TakenFrom
  <2>2. CASE SendConsecutiveFrame(d) \/ Expires(d) \/ Refused(d) \/ KeepAlive(d)
             \/ \E svc \in Service, did \in Did : Begin(d, svc, did)
    BY <1>1, <2>2 DEF SendConsecutiveFrame, Expires, Refused, KeepAlive, Begin
  <2> QED BY <1>2, <2>1, <2>2 DEF Runs
<1>3. CASE Ecu
  <2>1. CASE EcuTakes \/ EcuBreaksOff
    BY <1>1, <2>1 DEF EcuTakes, EcuBreaksOff
  <2>2. CASE EcuContinues
    <3> DEFINE n == txEcu.sent + 1
               f == [type |-> "CF", of |-> txEcu.of, sn |-> n % SNMod]
    <3>1. Deliver(f) /\ txEcu \in [of : 1..MaxRequests, sent : Nat, clear : BOOLEAN]
      BY <2>2 DEF EcuContinues, UdsInv, TypeOK
    <3>2. n % SNMod \in 0..SNMod - 1
      BY <3>1, UdsAssumption DEF UdsAssumption
    <3>3. f \in FrameToTool /\ ~Answers(f)
      BY <3>1, <3>2 DEF FrameToTool, Answers
    <3> HIDE DEF f
    <3> QED BY <3>1, <3>3, DeliveredTo
  <2>3. ASSUME NEW status \in {"CTS", "WAIT", "OVERFLOW"}, NEW bs \in Blocks,
               EcuFlowControl(status, bs)
        PROVE  QueueIs(c)
    <3> DEFINE f == [type |-> "FC", status |-> status, bs |-> bs]
    <3>1. f \in FrameToTool /\ Deliver(f) /\ ~Answers(f)
      BY <2>3 DEF FrameToTool, EcuFlowControl, Answers
    <3> HIDE DEF f
    <3> QED BY <3>1, DeliveredTo
  <2>4. ASSUME NEW kind \in Kind, EcuAnswers(kind)
        PROVE  QueueIs(c)
    <3> DEFINE i == Head(jobs)
               long == kind = "positive" /\ AnswerCFs[Svc(i)] > 0
               f == [type |-> IF long THEN "FF" ELSE "SF", of |-> i, kind |-> kind]
    <3>1. jobs # <<>> /\ jobs \in Seq(1..MaxRequests)
      BY <2>4, MoreFields DEF EcuAnswers
    <3>2. i = jobs[1] /\ i \in 1..MaxRequests
      <4>1. jobs[1] \in 1..MaxRequests
        BY <3>1, HeadIn
      <4> QED BY <3>1, <4>1
    <3> HIDE DEF i
    <3>3. f \in FrameToTool
      BY <3>2 DEF FrameToTool
    <3>4. Deliver(f) /\ IsAnswer(f)
      BY <2>4, <3>1, <3>2 DEF EcuAnswers, IsAnswer, tool, i
    <3> HIDE DEF f
    <3> QED BY <3>3, <3>4, DeliveredTo
  <2> QED BY <1>3, <2>1, <2>2, <2>3, <2>4 DEF Ecu, Kind
<1> QED BY <1>1, <1>2, <1>3 DEF Next, Tick, vars

\* What the ECU's first request says of what is over.
LEMMA AnswerIsNext ==
    ASSUME UdsInv, ServedInOrder, NEW f \in FrameToTool, Answers(f), IsAnswer(f)
    PROVE  /\ f.of =< Len(issued)
           /\ \A q \in Nat : EcuPast(q) => q < f.of
           /\ \A q \in Nat : q = Over(f) => EcuPast(q)'
<1>1. /\ jobs # <<>> /\ Len(jobs) \in Nat /\ 1 \in 1..Len(jobs) /\ f.of = jobs[1]
      /\ f.of \in Nat /\ f.of # 0 /\ rxEcu.of \in Nat
      /\ \A k \in 1..Len(jobs) : jobs[k] \in Nat
      /\ \A m \in 1..Len(toEcu) : toEcu[m].of \in Nat
  BY MoreFields, AnswerFields, Fields DEF IsAnswer, UdsInv
<1>2. f.of =< Len(issued)
  BY <1>1 DEF ServedInOrder
<1>3. \A q \in Nat : EcuPast(q) => q < f.of
  BY <1>1 DEF EcuPast
<1>4. /\ rxEcu'.of # 0 => f.of < rxEcu'.of
      /\ \A m \in 1..Len(toEcu') : Starts(toEcu'[m]) => f.of < toEcu'[m].of
  BY <1>1 DEF ServedInOrder, IsAnswer
<1>5. CASE f.kind = "pending"
  <2>1. \A k \in 1..Len(jobs') : f.of - 1 < jobs'[k]
    <3>1. \A k \in 1..Len(jobs) : k = 1 \/ jobs[1] < jobs[k]
      BY <1>1 DEF ServedInOrder
    <3> QED BY <1>1, <1>5, <3>1 DEF IsAnswer
  <2> QED BY <1>1, <1>2, <1>3, <1>4, <1>5, <2>1 DEF EcuPast, Over, IsAnswer
<1>6. CASE f.kind # "pending"
  <2>1. /\ Len(jobs') \in Nat
        /\ \A k \in 1..Len(jobs') : k + 1 \in 1..Len(jobs) /\ jobs'[k] = jobs[k + 1]
    <3>1. jobs # <<>> /\ jobs' = Tail(jobs) /\ jobs \in Seq(1..MaxRequests)
      BY <1>6, MoreFields DEF IsAnswer
    <3> DEFINE S == 1..MaxRequests
    <3>2. jobs \in Seq(S)
      BY <3>1
    <3> HIDE DEF S
    <3> QED BY <3>1, <3>2
  <2>2. ASSUME NEW k \in 1..Len(jobs') PROVE f.of < jobs'[k]
    <3>1. k + 1 \in 1..Len(jobs) /\ 1 < k + 1 /\ jobs'[k] = jobs[k + 1]
      BY <2>1
    <3>2. jobs[1] < jobs[k + 1]
      BY <1>1, <3>1 DEF ServedInOrder
    <3> QED BY <1>1, <3>1, <3>2
  <2> QED BY <1>2, <1>3, <1>4, <1>6, <2>2 DEF EcuPast, Over
<1> QED BY <1>5, <1>6

LEMMA PastStep ==
    ASSUME UdsInv, ServedInOrder, [Next]_vars,
           NEW c \in Client, NEW q \in Nat, Past(c, q)
    PROVE  Past(c, q)'
<1>1. EcuPast(q)' /\ q =< Len(issued')
  BY EcuPastStep DEF Past
<1>2. queue[c] \in Seq(FrameToTool)
  BY MoreFields
<1>3. CASE queue'[c] = queue[c]
  BY <1>1, <1>3 DEF Past
<1>4. CASE queue[c] # <<>> /\ queue'[c] = Tail(queue[c])
  <2>1. \A k \in 1..Len(queue'[c]) :
           k + 1 \in 1..Len(queue[c]) /\ queue'[c][k] = queue[c][k + 1]
    BY <1>2, <1>4
  <2> QED BY <1>1, <2>1 DEF Past
<1>5. ASSUME NEW f \in FrameToTool, queue'[c] = Append(queue[c], f),
             Answers(f) => IsAnswer(f)
      PROVE  Past(c, q)'
  <2>1. Answers(f) => q < f.of
    BY <1>5, AnswerIsNext DEF Past
  <2>2. \A k \in 1..Len(queue'[c]) :
           \/ k \in 1..Len(queue[c]) /\ queue'[c][k] = queue[c][k]
           \/ queue'[c][k] = f
    BY <1>2, <1>5
  <2> QED BY <1>1, <2>1, <2>2 DEF Past
<1> QED BY <1>3, <1>4, <1>5, QueueSide DEF QueueIs

LEMMA AnswersInOrderStep ==
    ASSUME UdsInv, ServedInOrder, AnswersInOrder, [Next]_vars
    PROVE  AnswersInOrder'
<1> SUFFICES ASSUME NEW c \in Client, NEW k \in 1..Len(queue'[c]), Answers(queue'[c][k])
             PROVE  /\ queue'[c][k].type = "FF" => queue'[c][k].kind = "positive"
                    /\ queue'[c][k].of =< Len(issued')
                    /\ \A q \in Nat : q = Over(queue'[c][k]) => EcuPast(q)'
                    /\ \A m \in 1..Len(queue'[c]) : k < m /\ Answers(queue'[c][m])
                          => Over(queue'[c][k]) < queue'[c][m].of
  BY DEF AnswersInOrder, Answers, Over
<1>1. queue[c] \in Seq(FrameToTool) /\ Len(issued) \in Nat /\ Len(issued') \in Nat
      /\ Len(queue[c]) \in Nat /\ Len(issued) =< Len(issued')
  <2>1. queue[c] \in Seq(FrameToTool) /\ Len(issued) \in Nat /\ Len(queue[c]) \in Nat
    BY MoreFields, Fields DEF UdsInv
  <2> QED BY <2>1, EcuSide DEF EcuRests, EcuServes, Sends, Arrives
\* Of a frame that was there before.
<1>2. ASSUME NEW j \in 1..Len(queue[c]), Answers(queue[c][j])
      PROVE  /\ queue[c][j].type = "FF" => queue[c][j].kind = "positive"
             /\ queue[c][j].of =< Len(issued')
             /\ \A q \in Nat : q = Over(queue[c][j]) => EcuPast(q) /\ EcuPast(q)'
             /\ \A m \in 1..Len(queue[c]) : j < m /\ Answers(queue[c][m])
                   => Over(queue[c][j]) < queue[c][m].of
  <2> DEFINE f == queue[c][j]
  <2>1. f \in FrameToTool /\ f.of \in Nat /\ Over(f) \in Nat /\ Over(f) =< f.of
    BY <1>2, MoreFields, AnswerFields
  <2>2. /\ f.type = "FF" => f.kind = "positive"
        /\ f.of =< Len(issued)
        /\ \A q \in Nat : q = Over(f) => EcuPast(q)
        /\ \A m \in 1..Len(queue[c]) : j < m /\ Answers(queue[c][m])
              => Over(f) < queue[c][m].of
    BY <1>2 DEF AnswersInOrder
  <2> HIDE DEF f
  <2>3. ASSUME NEW q \in Nat, q = Over(f) PROVE EcuPast(q)'
    <3>1. q =< Len(issued) /\ EcuPast(q)
      BY <2>1, <2>2, <2>3, <1>1
    <3> QED BY <3>1, EcuPastStep
  <2>4. f.of =< Len(issued')
    BY <2>1, <2>2, <1>1
  <2> QED BY <2>2, <2>3, <2>4 DEF f
<1>3. CASE queue'[c] = queue[c]
  BY <1>2, <1>3
<1>4. CASE queue[c] # <<>> /\ queue'[c] = Tail(queue[c])
  <2>1. /\ \A m \in 1..Len(queue'[c]) :
              m + 1 \in 1..Len(queue[c]) /\ queue'[c][m] = queue[c][m + 1]
    BY <1>1, <1>4
  <2>2. \A m \in 1..Len(queue'[c]) : k < m => k + 1 < m + 1
    OBVIOUS
  <2>3. k + 1 \in 1..Len(queue[c]) /\ queue'[c][k] = queue[c][k + 1]
    BY <2>1
  <2> QED BY <1>2, <2>1, <2>2, <2>3
<1>5. ASSUME NEW f \in FrameToTool, queue'[c] = Append(queue[c], f),
             Answers(f) => IsAnswer(f)
      PROVE  /\ queue'[c][k].type = "FF" => queue'[c][k].kind = "positive"
             /\ queue'[c][k].of =< Len(issued')
             /\ \A q \in Nat : q = Over(queue'[c][k]) => EcuPast(q)'
             /\ \A m \in 1..Len(queue'[c]) : k < m /\ Answers(queue'[c][m])
                   => Over(queue'[c][k]) < queue'[c][m].of
  <2> DEFINE n == Len(queue[c])
  <2>1. /\ Len(queue'[c]) = n + 1 /\ queue'[c][n + 1] = f /\ n \in Nat
        /\ \A m \in 1..n : queue'[c][m] = queue[c][m]
        /\ \A m \in 1..(n + 1) : m \in 1..n \/ m = n + 1
    BY <1>1, <1>5
  <2>2. CASE k \in 1..n
    <3>1. queue'[c][k] = queue[c][k] /\ Answers(queue[c][k])
      BY <2>1, <2>2
    <3>2. Over(queue[c][k]) \in Nat
      BY <2>2, <3>1, MoreFields, AnswerFields
    <3>3. EcuPast(Over(queue[c][k]))
      BY <1>2, <2>2, <3>1, <3>2
    <3>4. Answers(f) => Over(queue[c][k]) < f.of
      BY <1>5, <3>2, <3>3, AnswerIsNext
    <3>5. \A m \in 1..Len(queue'[c]) : k < m /\ Answers(queue'[c][m])
                => Over(queue'[c][k]) < queue'[c][m].of
      BY <1>2, <2>1, <2>2, <3>1, <3>4
    <3> QED BY <1>2, <2>2, <3>1, <3>5
  <2>3. CASE k = n + 1
    <3>1. queue'[c][k] = f /\ Answers(f)
      BY <2>1, <2>3
    <3>2. /\ f.of =< Len(issued) /\ f.of \in Nat
          /\ f.type = "FF" => f.kind = "positive"
          /\ \A q \in Nat : q = Over(f) => EcuPast(q)'
      BY <1>5, <3>1, AnswerIsNext, AnswerFields DEF IsAnswer
    <3>3. f.of =< Len(issued')
      BY <1>1, <3>2
    <3>4. \A m \in 1..Len(queue'[c]) : ~(k < m)
      BY <2>1, <2>3
    <3> QED BY <3>1, <3>2, <3>3, <3>4
  <2> QED BY <2>1, <2>2, <2>3
<1> QED BY <1>3, <1>4, <1>5, QueueSide DEF QueueIs

-----------------------------------------------------------------------------
(* What a step does on a client's side.                                    *)

\* The session of client d goes on as it was, or is dropped.
SessionStays(d) ==
    session'[d] = None \/ (session[d] # None /\ session'[d].of = session[d].of)

\* Client d reads the First Frame of an answer.
SessionOpens(d) ==
    /\ queue[d] # <<>> /\ queue'[d] = Tail(queue[d])
    /\ Head(queue[d]).type = "FF" /\ session'[d].of = Head(queue[d]).of
    /\ accepted' = accepted

\* An exchange of client c takes the answer to request a.
Accepts(c, a) ==
    /\ ex[c].req # 0 /\ ex'[c].req = 0
    /\ \A d \in Client : d # c => ex'[d].req = ex[d].req /\ session'[d] = session[d]
    /\ accepted' = accepted \cup {<<ex[c].req, a>>}
    /\ session'[c] = None
    /\ \/ /\ queue[c] # <<>> /\ Head(queue[c]).type = "SF"
          /\ Head(queue[c]).kind # "pending" /\ a = Head(queue[c]).of
          /\ queue'[c] = Tail(queue[c])
       \/ session[c] # None /\ a = session[c].of
    /\ UNCHANGED <<issued, gaveUp>>

\* Exchanges go on; some give up.
GiveUp ==
    /\ UNCHANGED <<issued, accepted>> /\ gaveUp \subseteq gaveUp'
    /\ \A d \in Client :
          \/ ex'[d].req = ex[d].req
          \/ ex'[d].req = 0 /\ ex[d].req \in gaveUp'

\* An exchange begins.
Begins(c) ==
    /\ UNCHANGED <<session, gaveUp, accepted>>
    /\ \E r \in Request : r.client = c /\ issued' = Append(issued, r)
    /\ ex[c].req = 0 /\ ex'[c].req = Len(issued) + 1
    /\ \A d \in Client : d # c => ex'[d].req = ex[d].req

LEMMA RaisesGiveUp ==
    ASSUME UdsInv, NEW c \in Client, Raises(c), UNCHANGED <<issued, accepted>>
    PROVE  GiveUp
BY IdleType DEF Raises, GiveUp, UdsInv, TypeOK

LEMMA Reassembled ==
    ASSUME NEW s \in {None} \cup Session, NEW f \in FrameToTool
    PROVE  LET r == Reassembles(s, f) IN
           /\ \/ r.s = None
              \/ s # None /\ r.s.of = s.of
              \/ f.type = "FF" /\ r.s.of = f.of
           /\ r.done => /\ r.s = None
                        /\ f.type = "SF" \/ (f.type # "SF" /\ s # None)
<1> DEFINE r == Reassembles(s, f)
<1>1. CASE f.type = "SF"
  BY <1>1 DEF Reassembles
<1>2. CASE f.type = "FC"
  BY <1>2 DEF Reassembles
<1>3. CASE f.type = "FF"
  BY <1>3 DEF Reassembles
<1>4. CASE f.type = "CF" /\ ~(s # None /\ s.age =< NCr /\ f.sn = (s.got + 1) % SNMod)
  BY <1>4 DEF Reassembles
<1>5. CASE f.type = "CF" /\ s # None /\ s.age =< NCr /\ f.sn = (s.got + 1) % SNMod
  <2> DEFINE t == [s EXCEPT !.got = @ + 1, !.age = 0]
  <2>1. s \in [of : 1..MaxRequests, kind : Kind, got : Nat, age : Nat]
    BY <1>5 DEF Session
  <2>2. t.of = s.of
    BY <2>1
  <2> HIDE DEF t
  <2>3. r = IF t.got = AnswerCFs[Svc(t.of)] THEN [s |-> None, done |-> TRUE]
                                            ELSE [s |-> t, done |-> FALSE]
    BY <1>5 DEF Reassembles, t
  <2> QED BY <1>5, <2>2, <2>3
<1> QED BY <1>1, <1>2, <1>3, <1>4, <1>5, AnswerFields

LEMMA AnswerTaken ==
    ASSUME UdsInv, NEW c \in Client, TakeAnswer(c)
    PROVE  \/ GiveUp /\ \A d \in Client : SessionStays(d) \/ SessionOpens(d)
           \/ \E a \in Nat : Accepts(c, a)
<1> DEFINE f == Head(queue[c])
           s == session[c]
           r == Reassembles(s, f)
           a == IF f.type = "SF" THEN f ELSE s
<1>1. /\ s \in {None} \cup Session /\ f \in FrameToTool /\ ex[c].req # 0
      /\ queue \in [Client -> Seq(FrameToTool)] /\ session \in [Client -> {None} \cup Session]
  BY Dequeued, MoreFields DEF UdsInv, TypeOK, LockFree, TakeAnswer
<1>2. /\ queue[c] # <<>> /\ queue'[c] = Tail(queue[c]) /\ session'[c] = r.s
      /\ \A d \in Client : d # c => session'[d] = session[d]
      /\ UNCHANGED issued
  BY <1>1 DEF TakeAnswer
<1>3. /\ r.s = None \/ (s # None /\ r.s.of = s.of) \/ (f.type = "FF" /\ r.s.of = f.of)
      /\ r.done => r.s = None /\ (f.type = "SF" \/ (f.type # "SF" /\ s # None))
  BY <1>1, Reassembled
<1>4. IF r.done THEN Complete(c, a) ELSE UNCHANGED <<ex, gaveUp, accepted>>
  BY DEF TakeAnswer
<1>5. a.of \in Nat \/ ~r.done
  <2>1. CASE f.type = "SF"
    BY <1>1, <2>1, AnswerFields, Limits DEF Answers
  <2>2. CASE f.type # "SF" /\ s # None
    BY <2>2, MoreFields
  <2> QED BY <1>3, <2>1, <2>2
<1> HIDE DEF r, a
<1>6. \A d \in Client : d # c => SessionStays(d)
  BY <1>2 DEF SessionStays
<1>7. CASE accepted' = accepted /\ (UNCHANGED <<ex, gaveUp>> \/ Raises(c)
                                    \/ (gaveUp' = gaveUp /\ ex' = [ex EXCEPT ![c] = Extended(@)]))
  <2>1. SessionStays(c) \/ SessionOpens(c)
    BY <1>2, <1>3, <1>7 DEF SessionStays, SessionOpens
  <2>2. GiveUp
    <3>1. CASE UNCHANGED <<ex, gaveUp>>
      BY <1>2, <1>7, <3>1 DEF GiveUp
    <3>2. CASE Raises(c)
      BY <1>2, <1>7, <3>2, RaisesGiveUp
    <3>3. CASE gaveUp' = gaveUp /\ ex' = [ex EXCEPT ![c] = Extended(@)]
      <4>1. Extended(ex[c]).req = ex[c].req /\ ex \in [Client -> Exchange]
        BY ExchangeFields, Fields DEF UdsInv, TypeOK
      <4> QED BY <1>2, <1>7, <3>3, <4>1 DEF GiveUp
    <3> QED BY <1>7, <3>1, <3>2, <3>3
  <2> QED BY <1>6, <2>1, <2>2
<1>8. CASE r.done /\ ~IsPending(a) /\ ex' = [ex EXCEPT ![c] = Idle]
           /\ accepted' = accepted \cup {<<ex[c].req, a.of>>} /\ gaveUp' = gaveUp
  <2>1. /\ ex'[c].req = 0 /\ \A d \in Client : d # c => ex'[d].req = ex[d].req
    BY <1>8, IdleType DEF UdsInv, TypeOK
  <2>2. \/ f.type = "SF" /\ f.kind # "pending" /\ a.of = f.of
        \/ s # None /\ a.of = s.of
    BY <1>3, <1>8 DEF IsPending, a
  <2>3. Accepts(c, a.of)
    BY <1>1, <1>2, <1>3, <1>8, <2>1, <2>2 DEF Accepts
  <2> QED BY <1>5, <1>8, <2>3
<1> QED BY <1>4, <1>7, <1>8 DEF Complete

LEMMA ClientSide ==
    ASSUME UdsInv, [Next]_vars
    PROVE  \/ GiveUp /\ \A d \in Client : SessionStays(d) \/ SessionOpens(d)
           \/ \E c \in Client : Begins(c)
           \/ \E c \in Client, a \in Nat : Accepts(c, a)
<1>0. session \in [Client -> {None} \cup Session] /\ ex \in [Client -> Exchange]
  BY DEF UdsInv, TypeOK
<1>1. CASE UNCHANGED <<session, ex, issued, gaveUp, accepted>>
  BY <1>0, <1>1 DEF GiveUp, SessionStays
<1>2. ASSUME NEW c \in Client, TakeFlowControl(c) \/ Expires(c) \/ Refused(c)
      PROVE  GiveUp /\ \A d \in Client : SessionStays(d)
  <2>1. UNCHANGED <<session, issued, accepted>>
    BY <1>2 DEF TakeFlowControl, Expires, Refused
  <2>2. Raises(c) \/ (gaveUp' = gaveUp /\ \A d \in Client : ex'[d].req = ex[d].req)
    <3>1. CASE Expires(c) \/ Refused(c)
      BY <3>1 DEF Expires, Refused
    <3>2. CASE TakeFlowControl(c)
      <4> DEFINE f == Head(queue[c])
      <4>1. CASE Raises(c)
        BY <4>1
      <4>2. CASE UNCHANGED <<ex, gaveUp>>
        BY <4>2
      <4>3. CASE ex' = [ex EXCEPT ![c].phase = "block", ![c].left = f.bs, ![c].wft = 0]
                 /\ UNCHANGED gaveUp
        BY <1>0, <4>3 DEF Exchange
      <4>4. CASE ex' = [ex EXCEPT ![c] = AwaitFlowControl([@ EXCEPT !.wft = CountedWait(ex[c])])]
                 /\ UNCHANGED gaveUp
        <5>1. ex[c] \in Exchange
          BY <1>0
        <5>2. AwaitFlowControl([ex[c] EXCEPT !.wft = CountedWait(ex[c])]).req = ex[c].req
          BY <5>1 DEF AwaitFlowControl, Exchange
        <5> QED BY <1>0, <4>4, <5>2
      <4> QED BY <3>2, <4>1, <4>2, <4>3, <4>4 DEF TakeFlowControl
    <3> QED BY <1>2, <3>1, <3>2
  <2> QED BY <1>0, <2>1, <2>2, RaisesGiveUp DEF GiveUp, SessionStays
<1>3. ASSUME NEW c \in Client, SendConsecutiveFrame(c)
      PROVE  GiveUp /\ \A d \in Client : SessionStays(d)
  <2> DEFINE e == [ex[c] EXCEPT !.sent = @ + 1, !.left = IF @ = 0 THEN 0 ELSE @ - 1]
  <2>1. UNCHANGED <<session, issued, gaveUp, accepted>>
        /\ ex' = [ex EXCEPT ![c] =
                    IF e.sent = RequestCFs[Svc(e.req)] THEN AwaitAnswer(e)
                    ELSE IF BlockEnds(ex[c]) THEN AwaitFlowControl(e) ELSE e]
    BY <1>3 DEF SendConsecutiveFrame, history
  <2>2. e.req = ex[c].req /\ AwaitAnswer(e).req = ex[c].req /\ AwaitFlowControl(e).req = ex[c].req
    <3>1. ex[c] \in Exchange
      BY <1>0
    <3> QED BY <3>1 DEF Exchange, AwaitAnswer, AwaitFlowControl
  <2> HIDE DEF e
  <2> QED BY <1>0, <2>1, <2>2 DEF GiveUp, SessionStays
<1>4. ASSUME NEW c \in Client, FlowControlRefused(c)
      PROVE  GiveUp /\ \A d \in Client : SessionStays(d) \/ SessionOpens(d)
  <2> DEFINE f == Head(queue[c])
             r == Reassembles(session[c], f)
  <2>1. /\ f \in FrameToTool /\ queue \in [Client -> Seq(FrameToTool)]
        /\ f.type = "FF" /\ queue[c] # <<>> /\ queue'[c] = Tail(queue[c])
        /\ session'[c] = r.s /\ \A d \in Client : d # c => session'[d] = session[d]
        /\ UNCHANGED <<issued, accepted>>
    BY <1>4, <1>0, Dequeued DEF FlowControlRefused, UdsInv, TypeOK
  <2>2. r.s = None \/ (session[c] # None /\ r.s.of = session[c].of) \/ r.s.of = f.of
    BY <2>1, Reassembled, MoreFields
  <2> HIDE DEF r
  <2>3. \A d \in Client : SessionStays(d) \/ SessionOpens(d)
    BY <2>1, <2>2 DEF SessionStays, SessionOpens
  <2> QED BY <1>4, <2>1, <2>3, RaisesGiveUp DEF FlowControlRefused
<1>5. CASE \E c \in Client : KeepAlive(c)
  BY <1>1, <1>5 DEF KeepAlive, tool, history
<1>6. ASSUME NEW c \in Client, NEW svc \in Service, NEW did \in Did, Begin(c, svc, did)
      PROVE  Begins(c)
  <2> DEFINE i == Len(issued) + 1
             e == [Idle EXCEPT !.req = i]
             r == [client |-> c, svc |-> svc, did |-> did]
  <2>1. /\ issued' = Append(issued, r) /\ r \in Request /\ r.client = c
        /\ UNCHANGED <<session, gaveUp, accepted>>
        /\ ex' = [ex EXCEPT ![c] = IF RequestCFs[svc] = 0 THEN AwaitAnswer(e)
                                                         ELSE AwaitFlowControl(e)]
    BY <1>6 DEF Begin, Request, history
  <2>2. AwaitAnswer(e).req = i /\ AwaitFlowControl(e).req = i
    BY DEF AwaitAnswer, AwaitFlowControl, Idle
  <2>3. ex[c].req = 0
    BY <1>6 DEF Begin, UdsInv, TypeOK
  <2> HIDE DEF e, r, i
  <2>4. ex'[c].req = i /\ \A d \in Client : d # c => ex'[d].req = ex[d].req
    BY <1>0, <2>1, <2>2
  <2> QED BY <2>1, <2>3, <2>4 DEF Begins, i
<1>7. CASE Tick
  <2>1. \A d \in Client : ex'[d].req = ex[d].req
    BY <1>0, <1>7 DEF Tick, Exchange
  <2>2. ASSUME NEW d \in Client PROVE SessionStays(d)
    <3>1. session'[d] = Older(session[d])
      BY <1>7 DEF Tick
    <3>2. session[d] = None \/ session[d] \in [of : 1..MaxRequests, kind : Kind, got : Nat, age : Nat]
      BY <1>0 DEF Session
    <3>3. session[d] # None => Older(session[d]).of = session[d].of
      BY <3>2 DEF Older
    <3>4. Older(None) = None
      BY DEF Older
    <3> QED BY <3>1, <3>3, <3>4 DEF SessionStays
  <2> QED BY <1>7, <2>1, <2>2 DEF Tick, GiveUp, history
<1>8. CASE Ecu
  <2>1. UNCHANGED <<session, ex, issued, gaveUp, accepted>>
    BY <1>8 DEF Ecu, EcuTakes, EcuContinues, EcuBreaksOff, EcuFlowControl, EcuAnswers,
                tool, history
  <2> QED BY <1>1, <2>1
<1>9. CASE UNCHANGED vars
  BY <1>1, <1>9 DEF vars, tool, history
<1> QED BY <1>2, <1>3, <1>4, <1>5, <1>6, <1>7, <1>8, <1>9, AnswerTaken DEF Next, Runs

-----------------------------------------------------------------------------
(* What a client has answered and read.                                    *)

\* The first answer in a queue, once it is read.
LEMMA HeadIsPast ==
    ASSUME UdsInv, ServedInOrder, AnswersInOrder, [Next]_vars, NEW c \in Client,
           queue[c] # <<>>, queue'[c] = Tail(queue[c]), Answers(Head(queue[c])),
           Head(queue[c]).kind # "pending"
    PROVE  /\ Head(queue[c]).of \in 1..Len(issued)
           /\ \A q \in Nat : q = Head(queue[c]).of => Past(c, q)'
           /\ \A q \in Nat : Past(c, q) => q < Head(queue[c]).of
<1> DEFINE f == queue[c][1]
<1>1. /\ queue[c] \in Seq(FrameToTool) /\ f = Head(queue[c]) /\ 1 \in 1..Len(queue[c])
      /\ f \in FrameToTool
      /\ \A k \in 1..Len(queue'[c]) :
            k + 1 \in 1..Len(queue[c]) /\ queue'[c][k] = queue[c][k + 1] /\ 1 < k + 1
  BY MoreFields
<1>2. Len(issued) \in Nat /\ f.of \in Nat /\ f.of # 0
  BY <1>1, AnswerFields, Fields DEF UdsInv
<1>3. /\ f.of =< Len(issued) /\ EcuPast(f.of)
      /\ \A m \in 1..Len(queue[c]) :
            1 < m /\ Answers(queue[c][m]) => f.of < queue[c][m].of
  BY <1>1, <1>2 DEF AnswersInOrder, Over
<1>4. \A q \in Nat : Past(c, q) => q < f.of
  BY <1>1 DEF Past
<1> HIDE DEF f
<1>5. ASSUME NEW q \in Nat, q = f.of PROVE Past(c, q)'
  <2>1. EcuPast(q)' /\ q =< Len(issued')
    <3>1. q =< Len(issued) /\ EcuPast(q)
      BY <1>3, <1>5
    <3> QED BY <3>1, EcuPastStep
  <2>2. \A k \in 1..Len(queue'[c]) : Answers(queue'[c][k]) => q < queue'[c][k].of
    BY <1>1, <1>3, <1>5
  <2> QED BY <2>1, <2>2 DEF Past
<1> QED BY <1>1, <1>2, <1>3, <1>4, <1>5

\* A session opens on an answer that is not "pending".
LEMMA OpensOnFinal ==
    ASSUME UdsInv, AnswersInOrder, NEW c \in Client, SessionOpens(c)
    PROVE  Answers(Head(queue[c])) /\ Head(queue[c]).kind # "pending"
<1>1. /\ queue[c] \in Seq(FrameToTool) /\ queue[c][1] = Head(queue[c])
      /\ 1 \in 1..Len(queue[c]) /\ Head(queue[c]).type = "FF"
  BY MoreFields DEF SessionOpens
<1> QED BY <1>1 DEF AnswersInOrder, Answers

LEMMA SessionIsPastStep ==
    ASSUME UdsInv, AnswersInv, [Next]_vars
    PROVE  SessionIsPast'
<1> SUFFICES ASSUME NEW d \in Client, NEW q \in Nat, session'[d] # None, q = session'[d].of
             PROVE  Past(d, q)'
  BY DEF SessionIsPast
<1>1. CASE SessionStays(d)
  <2>1. session[d] # None /\ q = session[d].of
    BY <1>1 DEF SessionStays
  <2>2. Past(d, q)
    BY <2>1 DEF AnswersInv, SessionIsPast
  <2> QED BY <2>2, PastStep DEF AnswersInv
<1>2. CASE SessionOpens(d)
  BY <1>2, OpensOnFinal, HeadIsPast DEF AnswersInv, SessionOpens
<1>3. CASE UNCHANGED session
  <2>1. Past(d, q)
    BY <1>3 DEF AnswersInv, SessionIsPast
  <2> QED BY <2>1, PastStep DEF AnswersInv
<1>4. ASSUME NEW c \in Client, NEW a \in Nat, Accepts(c, a) PROVE Past(d, q)'
  <2>1. session'[d] = session[d]
    BY <1>4 DEF Accepts
  <2>2. Past(d, q)
    BY <2>1 DEF AnswersInv, SessionIsPast
  <2> QED BY <2>2, PastStep DEF AnswersInv
<1> QED BY <1>1, <1>2, <1>3, <1>4, ClientSide DEF Begins

\* The answer an exchange accepts is that of a request its client was not past.
LEMMA AcceptedAnswer ==
    ASSUME UdsInv, AnswersInv, [Next]_vars, NEW c \in Client, NEW a \in Nat, Accepts(c, a)
    PROVE  /\ a \in 1..Len(issued) /\ Past(c, a)'
           /\ \A p \in accepted : issued[p[1]].client = c => p[2] < a
           /\ ex[c].req \in 1..Len(issued) /\ issued[ex[c].req].client = c
<1>1. ex[c].req \in 1..Len(issued) /\ issued[ex[c].req].client = c
  BY Fields DEF UdsInv, BegunInv, AnswersInv, LatestInv, Latest, Accepts
<1>2. \A p \in accepted : issued[p[1]].client = c =>
         p[2] \in Nat /\ Past(c, p[2]) /\ (session[c] # None => p[2] < session[c].of)
  BY DEF AnswersInv, AcceptedIsPast
<1>3. CASE /\ queue[c] # <<>> /\ Head(queue[c]).type = "SF"
           /\ Head(queue[c]).kind # "pending" /\ a = Head(queue[c]).of
           /\ queue'[c] = Tail(queue[c])
  <2>1. Answers(Head(queue[c]))
    BY <1>3 DEF Answers
  <2> QED BY <1>1, <1>2, <1>3, <2>1, HeadIsPast DEF AnswersInv
<1>4. CASE session[c] # None /\ a = session[c].of
  <2>1. Past(c, a)
    BY <1>4 DEF AnswersInv, SessionIsPast
  <2>2. a \in 1..Len(issued)
    <3>1. session[c] \in Session /\ Len(issued) \in Nat
      BY <1>4, MoreFields, Fields DEF UdsInv
    <3>2. a \in 1..MaxRequests
      BY <1>4, <3>1 DEF Session
    <3> QED BY <2>1, <3>1, <3>2, Limits DEF Past
  <2> QED BY <1>1, <1>2, <1>4, <2>1, <2>2, PastStep DEF AnswersInv
<1> QED BY <1>3, <1>4 DEF Accepts

\* Requests do not change once they have begun.
LEMMA IssuedStays ==
    ASSUME UdsInv, [Next]_vars
    PROVE  /\ Len(issued) \in Nat /\ Len(issued') \in Nat /\ Len(issued) =< Len(issued')
           /\ \A s \in 1..Len(issued) : s \in 1..Len(issued') /\ issued'[s] = issued[s]
<1>1. issued \in Seq(Request) /\ Len(issued) \in Nat
  BY Fields DEF UdsInv, TypeOK
<1>2. issued' = issued \/ \E r \in Request : issued' = Append(issued, r)
  BY ClientSide DEF GiveUp, Begins, Accepts
<1> QED BY <1>1, <1>2

LEMMA AcceptedIsPastStep ==
    ASSUME UdsInv, AnswersInv, [Next]_vars
    PROVE  AcceptedIsPast'
<1> SUFFICES ASSUME NEW p \in accepted'
             PROVE  /\ p[1] \in 1..Len(issued') /\ p[2] \in 1..Len(issued')
                    /\ \A c \in Client : c = issued'[p[1]].client =>
                          Past(c, p[2])' /\ (session'[c] # None => p[2] < session'[c].of)
  BY DEF AcceptedIsPast
<1>1. CASE p \in accepted
  <2>1. /\ p[1] \in 1..Len(issued) /\ p[2] \in 1..Len(issued) /\ p[2] \in Nat
        /\ p[1] \in 1..Len(issued') /\ p[2] \in 1..Len(issued')
        /\ issued'[p[1]] = issued[p[1]]
    BY <1>1, IssuedStays DEF AnswersInv, AcceptedIsPast
  <2> SUFFICES ASSUME NEW c \in Client, c = issued[p[1]].client
               PROVE  Past(c, p[2])' /\ (session'[c] # None => p[2] < session'[c].of)
    BY <2>1
  <2>2. Past(c, p[2]) /\ (session[c] # None => p[2] < session[c].of)
    BY <1>1 DEF AnswersInv, AcceptedIsPast
  <2>3. Past(c, p[2])'
    BY <2>1, <2>2, PastStep DEF AnswersInv
  <2>4. session'[c] # None => p[2] < session'[c].of
    <3>1. CASE SessionStays(c)
      BY <2>2, <3>1 DEF SessionStays
    <3>2. CASE SessionOpens(c)
      BY <2>1, <2>2, <3>2, OpensOnFinal, HeadIsPast DEF AnswersInv, SessionOpens
    <3>3. CASE UNCHANGED session
      BY <2>2, <3>3
    <3>4. ASSUME NEW d \in Client, NEW a \in Nat, Accepts(d, a)
          PROVE  session'[c] = None \/ session'[c] = session[c]
      BY <3>4 DEF Accepts
    <3> QED BY <2>2, <3>1, <3>2, <3>3, <3>4, ClientSide DEF Begins
  <2> QED BY <2>3, <2>4
<1>2. CASE p \notin accepted
  <2>1. PICK c \in Client, a \in Nat : Accepts(c, a)
    BY <1>2, ClientSide DEF GiveUp, Begins
  <2>2. p = <<ex[c].req, a>> /\ session'[c] = None
    BY <1>2, <2>1 DEF Accepts
  <2>3. /\ a \in 1..Len(issued) /\ Past(c, a)'
        /\ ex[c].req \in 1..Len(issued) /\ issued[ex[c].req].client = c
    BY <2>1, AcceptedAnswer
  <2>4. issued' = issued
    BY <2>1 DEF Accepts
  <2> QED BY <2>2, <2>3, <2>4
<1> QED BY <1>1, <1>2

LEMMA LatestStep ==
    ASSUME UdsInv, AnswersInv, [Next]_vars
    PROVE  LatestInv'
<1> SUFFICES ASSUME NEW c \in Client
             PROVE  /\ ex'[c].req # 0 =>
                          /\ issued'[ex'[c].req].client = c
                          /\ \A p \in accepted' : p[1] # ex'[c].req
                    /\ \A s \in 1..Len(issued') : issued'[s].client = c /\ s # ex'[c].req =>
                          /\ s \in gaveUp' \/ \E p \in accepted' : p[1] = s
                          /\ ex'[c].req # 0 => s < ex'[c].req
  BY DEF LatestInv, Latest
<1>1. /\ issued \in Seq(Request) /\ Len(issued) \in Nat
      /\ ex[c].req \in Nat /\ ex[c].req =< Len(issued)
  BY Fields DEF UdsInv, TypeOK, BegunInv
<1>2. Latest(c)
  BY DEF AnswersInv, LatestInv
<1>3. CASE GiveUp
  <2>1. UNCHANGED <<issued, accepted>> /\ gaveUp \subseteq gaveUp'
    BY <1>3 DEF GiveUp
  <2>2. CASE ex'[c].req = ex[c].req
    BY <1>2, <2>1, <2>2 DEF Latest
  <2>3. CASE ex'[c].req = 0 /\ ex[c].req \in gaveUp'
    BY <1>2, <2>1, <2>3 DEF Latest
  <2> QED BY <1>3, <2>2, <2>3 DEF GiveUp
<1>4. ASSUME NEW d \in Client, Begins(d)
      PROVE  /\ ex'[c].req # 0 =>
                   /\ issued'[ex'[c].req].client = c
                   /\ \A p \in accepted' : p[1] # ex'[c].req
             /\ \A s \in 1..Len(issued') : issued'[s].client = c /\ s # ex'[c].req =>
                   /\ s \in gaveUp' \/ \E p \in accepted' : p[1] = s
                   /\ ex'[c].req # 0 => s < ex'[c].req
  <2> DEFINE n == Len(issued)
  <2>1. PICK r \in Request : r.client = d /\ issued' = Append(issued, r)
    BY <1>4 DEF Begins
  <2>2. /\ Len(issued') = n + 1 /\ issued'[n + 1].client = d
        /\ \A s \in 1..n : issued'[s] = issued[s]
        /\ \A s \in 1..(n + 1) : s \in 1..n \/ s = n + 1
    BY <1>1, <2>1
  <2>3. UNCHANGED <<gaveUp, accepted>> /\ ex[d].req = 0 /\ ex'[d].req = n + 1
        /\ (d # c => ex'[c].req = ex[c].req)
    BY <1>4 DEF Begins
  <2>4. \A p \in accepted : p[1] \in 1..n
    BY DEF AnswersInv, AcceptedIsPast
  <2>5. CASE c = d
    BY <1>1, <1>2, <2>2, <2>3, <2>4, <2>5 DEF Latest
  <2>6. CASE c # d
    <3>1. ex[c].req # 0 => ex[c].req \in 1..n
      BY <1>1
    <3> QED BY <1>2, <2>2, <2>3, <2>6, <3>1 DEF Latest
  <2> QED BY <2>5, <2>6
<1>5. ASSUME NEW d \in Client, NEW a \in Nat, Accepts(d, a)
      PROVE  /\ ex'[c].req # 0 =>
                   /\ issued'[ex'[c].req].client = c
                   /\ \A p \in accepted' : p[1] # ex'[c].req
             /\ \A s \in 1..Len(issued') : issued'[s].client = c /\ s # ex'[c].req =>
                   /\ s \in gaveUp' \/ \E p \in accepted' : p[1] = s
                   /\ ex'[c].req # 0 => s < ex'[c].req
  <2>1. /\ UNCHANGED <<issued, gaveUp>> /\ accepted' = accepted \cup {<<ex[d].req, a>>}
        /\ ex[d].req # 0 /\ ex'[d].req = 0 /\ (d # c => ex'[c].req = ex[c].req)
    BY <1>5 DEF Accepts
  <2>2. issued[ex[d].req].client = d
    BY <1>5, AcceptedAnswer
  <2>3. <<ex[d].req, a>> \in accepted' /\ <<ex[d].req, a>>[1] = ex[d].req
    BY <2>1
  <2>4. CASE c = d
    BY <1>2, <2>1, <2>3, <2>4 DEF Latest
  <2>5. CASE c # d
    BY <1>2, <2>1, <2>2, <2>5 DEF Latest
  <2> QED BY <2>4, <2>5
<1> QED BY <1>3, <1>4, <1>5, ClientSide

LEMMA AnswersInit == Init => AnswersInv /\ OnlyOverdueAnswers
BY IdleType DEF Init, AnswersInv, ServedInOrder, AnswersInOrder, SessionIsPast,
   AcceptedIsPast, LatestInv, Latest, OnlyOverdueAnswers, None

LEMMA AnswersStep ==
    ASSUME UdsInv, AnswersInv, [Next]_vars
    PROVE  AnswersInv'
BY ServedStep, AnswersInOrderStep, SessionIsPastStep, AcceptedIsPastStep, LatestStep
   DEF AnswersInv

\* The pair that a step adds is as the property says, and the earlier ones stay so.
LEMMA OverdueStep ==
    ASSUME UdsInv, AnswersInv, OnlyOverdueAnswers, [Next]_vars
    PROVE  OnlyOverdueAnswers'
<1>0. /\ gaveUp \subseteq gaveUp' /\ accepted \subseteq accepted'
  BY ClientSide DEF GiveUp, Begins, Accepts
<1>1. ASSUME NEW s \in 1..Len(issued), WithoutOwnAnswer(s)
      PROVE  WithoutOwnAnswer(s)'
  <2>1. issued'[s] = issued[s] /\ \A p \in accepted : issued'[p[2]] = issued[p[2]]
    BY IssuedStays DEF AnswersInv, AcceptedIsPast
  <2> QED BY <1>0, <1>1, <2>1 DEF WithoutOwnAnswer
<1> SUFFICES ASSUME NEW p \in accepted', p[2] # p[1],
                    issued'[p[2]].client = issued'[p[1]].client
             PROVE  /\ p[2] < p[1]
                    /\ \E s \in 1..p[2] : /\ issued'[s].client = issued'[p[1]].client
                                          /\ WithoutOwnAnswer(s)'
                    /\ \A s \in p[2]..p[1] : issued'[s].client = issued'[p[1]].client
                          => <<s, s>> \notin accepted'
  BY DEF OnlyOverdueAnswers, WithoutOwnAnswer
<1>2. CASE p \in accepted
  <2>1. /\ p[1] \in 1..Len(issued) /\ p[2] \in 1..Len(issued)
        /\ issued'[p[1]] = issued[p[1]] /\ issued'[p[2]] = issued[p[2]]
        /\ \A s \in 1..p[1] : s \in 1..Len(issued) /\ issued'[s] = issued[s]
    BY <1>2, IssuedStays DEF AnswersInv, AcceptedIsPast
  <2>2. /\ p[2] < p[1]
        /\ \E s \in 1..p[2] : issued[s].client = issued[p[1]].client /\ WithoutOwnAnswer(s)
        /\ \A s \in p[2]..p[1] : issued[s].client = issued[p[1]].client
              => <<s, s>> \notin accepted
    BY <1>2, <2>1 DEF OnlyOverdueAnswers
  <2>3. \E s \in 1..p[2] : /\ issued'[s].client = issued'[p[1]].client
                           /\ WithoutOwnAnswer(s)'
    <3>1. PICK s \in 1..p[2] : issued[s].client = issued[p[1]].client /\ WithoutOwnAnswer(s)
      BY <2>2
    <3>2. s \in 1..Len(issued) /\ issued'[s] = issued[s]
      BY <2>1, <2>2
    <3> QED BY <1>1, <2>1, <3>1, <3>2
  <2>4. ASSUME NEW s \in p[2]..p[1], issued'[s].client = issued'[p[1]].client
        PROVE  <<s, s>> \notin accepted'
    <3>1. s \in 1..p[1] /\ issued'[s] = issued[s]
      BY <2>1
    <3>2. <<s, s>> \notin accepted
      BY <2>1, <2>2, <2>4, <3>1
    <3>3. ASSUME NEW d \in Client, NEW a \in Nat, Accepts(d, a), <<s, s>> = <<ex[d].req, a>>
          PROVE  FALSE
      <4>1. s = ex[d].req /\ ex[d].req # 0
        BY <3>3 DEF Accepts
      <4>2. issued[s].client = d /\ Latest(d)
        BY <3>3, <4>1, AcceptedAnswer DEF AnswersInv, LatestInv
      <4>3. issued[p[1]].client = d /\ p[1] # ex[d].req
        BY <1>2, <2>1, <2>4, <3>1, <4>1, <4>2 DEF Latest
      <4>4. p[1] < s
        BY <2>1, <4>1, <4>2, <4>3 DEF Latest
      <4> QED BY <2>1, <4>4
    <3> QED BY <3>2, <3>3, ClientSide DEF GiveUp, Begins, Accepts
  <2> QED BY <2>2, <2>3, <2>4
<1>3. CASE p \notin accepted
  <2>1. PICK c \in Client, a \in Nat : Accepts(c, a)
    BY <1>3, ClientSide DEF GiveUp, Begins
  <2>2. p = <<ex[c].req, a>> /\ accepted' = accepted \cup {p} /\ UNCHANGED issued
    BY <1>3, <2>1 DEF Accepts
  <2> DEFINE r == ex[c].req
  <2>3. /\ a \in 1..Len(issued) /\ r \in 1..Len(issued) /\ issued[r].client = c
        /\ \A t \in accepted : issued[t[1]].client = c => t[2] < a
        /\ r # 0
    BY <2>1, AcceptedAnswer DEF Accepts
  <2>4. p[1] = r /\ p[2] = a /\ issued[a].client = c /\ a # r /\ Latest(c)
    BY <2>2, <2>3 DEF AnswersInv, LatestInv
  <2> HIDE DEF r
  <2>5. a < r /\ (a \in gaveUp \/ \E t \in accepted : t[1] = a)
    BY <2>3, <2>4 DEF Latest, r
  <2>6. \E s \in 1..a : issued[s].client = c /\ WithoutOwnAnswer(s)
    <3>1. CASE a \in gaveUp
      BY <2>3, <2>4, <3>1 DEF WithoutOwnAnswer
    <3>2. ASSUME NEW t \in accepted, t[1] = a
          PROVE  \E s \in 1..a : issued[s].client = c /\ WithoutOwnAnswer(s)
      <4>1. t[2] < a /\ t[2] \in 1..Len(issued)
        BY <2>3, <2>4, <3>2 DEF AnswersInv, AcceptedIsPast
      <4>2. CASE issued[t[2]].client # c
        BY <2>3, <2>4, <3>2, <4>2 DEF WithoutOwnAnswer
      <4>3. CASE issued[t[2]].client = c
        <5>1. \E s \in 1..t[2] : issued[s].client = c /\ WithoutOwnAnswer(s)
          BY <2>4, <3>2, <4>1, <4>3 DEF OnlyOverdueAnswers
        <5> QED BY <5>1, <4>1, <2>3
      <4> QED BY <4>2, <4>3
    <3> QED BY <2>5, <3>1, <3>2
  <2>7. ASSUME NEW s \in a..r, issued[s].client = c PROVE <<s, s>> \notin accepted'
    <3>1. <<s, s>> \notin accepted
      BY <2>3, <2>7
    <3>2. <<s, s>> # p
      BY <2>2, <2>4
    <3> QED BY <3>1, <3>2, <2>2
  <2>8. \E s \in 1..a : issued'[s].client = c /\ WithoutOwnAnswer(s)'
    BY <1>1, <2>2, <2>3, <2>6
  <2> QED BY <2>2, <2>3, <2>4, <2>5, <2>7, <2>8
<1> QED BY <1>2, <1>3

-----------------------------------------------------------------------------
(* What the ECU has granted, as long as one client alone uses it.          *)

\* The first frame of a request is the only one that makes the ECU drop another.
Bare(k) == \A j \in 1..k : toEcu[j].type \notin {"SF", "FF"}

Cts(f) == f.type = "FC" /\ f.status = "CTS"

NoCts(c) == \A k \in 1..Len(queue[c]) : ~Cts(queue[c][k])

Alone(c) == \A s \in 1..Len(issued) : issued[s].client = c

\* No exchange before request r has given up.
Fresh(r) == \A q \in gaveUp : r =< q

Long(r) == RequestCFs[Svc(r)]

\* What is left of a request, and of what a Flow Control allows of it.
LengthInv ==
    /\ \A m \in 1..Len(toEcu) : toEcu[m].type = "FF" => Long(toEcu[m].of) > 0
    /\ rxEcu.of # 0 => rxEcu.got < Long(rxEcu.of)
    /\ \A c \in Client :
          /\ ex[c].phase \in {"fc", "block"} => ex[c].sent < Long(ex[c].req)
          /\ ex[c].phase = "answer" => ex[c].sent = Long(ex[c].req)

Need(e, n) == IF n = 0 THEN Long(e.req) - e.sent ELSE n

\* A First Frame waits for its grant.
FirstFrameInv(c) ==
    \A m \in 1..Len(toEcu) : toEcu[m].type = "FF" /\ Fresh(toEcu[m].of) =>
        /\ m < Len(toEcu) => toEcu[m + 1].type \in {"SF", "FF"}
        /\ m = Len(toEcu) => toEcu[m].of = Len(issued)
        /\ ex[c].req = toEcu[m].of => ex[c].phase = "fc" /\ ex[c].sent = 0 /\ NoCts(c)

\* The Consecutive Frames on the bus are granted.
OnBusInv ==
    rxEcu.of # 0 /\ Fresh(rxEcu.of) =>
        \A k \in 1..Len(toEcu) :
            Bare(k) /\ toEcu[k].type = "CF" /\ toEcu[k].of = rxEcu.of => k =< rxEcu.grant

\* A grant is read only by the exchange that waits for it.
GrantReadInv(c) ==
    \A r \in Nat : r = (IF ex[c].req = 0 THEN Len(issued) + 1 ELSE ex[c].req) /\ Fresh(r) =>
        /\ ex[c].phase # "fc" => NoCts(c)
        /\ \A j, k \in 1..Len(queue[c]) :
              Cts(queue[c][j]) /\ Cts(queue[c][k]) => j = k

\* The frames that the exchange under way has still to send are granted.
UnderWayInv(c) ==
    ex[c].req # 0 /\ rxEcu.of = ex[c].req /\ Fresh(ex[c].req) =>
        /\ \A k \in 1..Len(toEcu) :
              Bare(k) => toEcu[k].type = "CF" /\ toEcu[k].of = ex[c].req
        /\ \A k \in 0..Len(toEcu) : Bare(k) =>
              /\ k = Len(toEcu) => rxEcu.got + k = ex[c].sent
              /\ ex[c].phase = "block" =>
                    /\ k < rxEcu.grant
                    /\ k = Len(toEcu) => k + Need(ex[c], ex[c].left) =< rxEcu.grant
              /\ ex[c].phase = "answer" =>
                    k < rxEcu.grant \/ rxEcu.got + k = Long(ex[c].req)
        /\ \A j \in 1..Len(queue[c]) : Cts(queue[c][j]) =>
              /\ toEcu # <<>> => ~Bare(1)
              /\ Need(ex[c], queue[c][j].bs) =< rxEcu.grant

GrantInv ==
    /\ LengthInv
    /\ overrun \subseteq 1..Len(issued) /\ gaveUp \subseteq 1..Len(issued)
    /\ \A c \in Client : Alone(c) =>
          FirstFrameInv(c) /\ OnBusInv /\ GrantReadInv(c) /\ UnderWayInv(c)

AllInv == UdsInv /\ AnswersInv /\ OnlyOverdueAnswers /\ GrantInv

LEMMA RxFields ==
    ASSUME UdsInv
    PROVE  /\ rxEcu = None \/ rxEcu \in [of : 1..MaxRequests, got : Nat, grant : Nat]
           /\ rxEcu.of # 0 => /\ rxEcu # None /\ rxEcu.of \in 1..Len(issued)
                              /\ rxEcu.got \in Nat /\ rxEcu.grant \in Nat
           /\ rxEcu = None => rxEcu.of = 0
           /\ \A r \in 1..Len(issued) : Long(r) \in Nat
           /\ \A c \in Client : /\ ex[c].sent \in Nat /\ ex[c].left \in Nat
                                /\ ex[c].req \in 0..Len(issued)
                                /\ ex[c].req = 0 <=> ex[c].phase = "idle"
                                /\ ex[c].phase \in {"idle", "fc", "block", "answer"}
<1>1. rxEcu = None \/ rxEcu \in [of : 1..MaxRequests, got : Nat, grant : Nat]
  BY DEF UdsInv, TypeOK
<1>2. None.of = 0
  BY DEF None
<1>3. Len(issued) \in Nat /\ rxEcu.of \in Nat /\ rxEcu.of =< Len(issued)
  BY Fields DEF UdsInv, BegunInv
<1>4. \A r \in 1..Len(issued) : Long(r) \in Nat
  BY MoreFields, UdsAssumption DEF UdsAssumption, Long, Svc, Request
<1>5. ASSUME NEW c \in Client
      PROVE  /\ ex[c].sent \in Nat /\ ex[c].left \in Nat
             /\ ex[c].req \in 0..Len(issued)
             /\ ex[c].req = 0 <=> ex[c].phase = "idle"
             /\ ex[c].phase \in {"idle", "fc", "block", "answer"}
  <2>1. ex[c] \in Exchange /\ ex[c].req =< Len(issued) /\ ex[c].req \in Nat
    BY Fields DEF UdsInv, BegunInv
  <2>2. ex[c].req = 0 <=> ex[c].phase = "idle"
    BY DEF UdsInv, TypeOK, LockFree
  <2> QED BY <1>3, <2>1, <2>2 DEF Exchange
<1> QED BY <1>1, <1>2, <1>3, <1>4, <1>5

\* The one client's exchange is the latest request, and nobody else's is under way.
LEMMA AloneIsLatest ==
    ASSUME UdsInv, AnswersInv, NEW c \in Client, Alone(c)
    PROVE  /\ ex[c].req # 0 => ex[c].req = Len(issued)
           /\ \A d \in Client : ex[d].phase # "idle" => d = c
<1>1. ASSUME ex[c].req # 0 PROVE ex[c].req = Len(issued)
  <2>1. Len(issued) \in Nat /\ ex[c].req \in 1..Len(issued) /\ Latest(c)
    BY <1>1, RxFields, Fields DEF UdsInv, AnswersInv, LatestInv
  <2> QED BY <1>1, <2>1 DEF Latest, Alone
<1>2. ASSUME NEW d \in Client, ex[d].phase # "idle" PROVE d = c
  <2>1. ex[d].req \in 1..Len(issued) /\ Latest(d)
    BY <1>2, RxFields, Fields DEF UdsInv, AnswersInv, LatestInv
  <2> QED BY <1>2, <2>1 DEF Latest, Alone
<1> QED BY <1>1, <1>2

\* When nothing went wrong before, everything before is over.
LEMMA FreshIsPast ==
    ASSUME UdsInv, AnswersInv, OnlyOverdueAnswers, NEW c \in Client, Alone(c),
           NEW r \in Nat, r = (IF ex[c].req = 0 THEN Len(issued) + 1 ELSE ex[c].req),
           Fresh(r)
    PROVE  /\ rxEcu.of # 0 => rxEcu.of = r
           /\ \A k \in 1..Len(queue[c]) : Answers(queue[c][k]) => r =< queue[c][k].of
<1>1. /\ Len(issued) \in Nat /\ rxEcu.of \in Nat /\ rxEcu.of =< Len(issued)
      /\ ex[c].req \in 0..Len(issued) /\ (ex[c].req # 0 => ex[c].req = Len(issued))
      /\ \A k \in 1..Len(queue[c]) : Answers(queue[c][k]) =>
            queue[c][k].of \in Nat /\ queue[c][k].of # 0
  <2>1. /\ Len(issued) \in Nat /\ rxEcu.of \in Nat /\ rxEcu.of =< Len(issued)
    BY Fields DEF UdsInv, BegunInv
  <2>2. ex[c].req \in 0..Len(issued) /\ (ex[c].req # 0 => ex[c].req = Len(issued))
    BY RxFields, AloneIsLatest
  <2>3. \A k \in 1..Len(queue[c]) : Answers(queue[c][k]) =>
           queue[c][k].of \in Nat /\ queue[c][k].of # 0
    BY MoreFields, AnswerFields, Limits
  <2> QED BY <2>1, <2>2, <2>3
<1>2. CASE r = 1
  BY <1>1, <1>2
<1>3. CASE r # 1
  <2> DEFINE s == r - 1
  <2>1. s \in 1..Len(issued) /\ s # ex[c].req /\ s < r /\ issued[s].client = c
    BY <1>1, <1>3 DEF Alone
  <2>2. s \notin gaveUp
    BY <2>1, <1>1 DEF Fresh
  <2>3. \E p \in accepted : p[1] = s
    BY <2>1, <2>2 DEF AnswersInv, LatestInv, Latest
  <2>4. PICK p \in accepted : p[1] = s
    BY <2>3
  <2>5. p[2] \in 1..Len(issued) /\ Past(c, p[2])
    BY <2>1, <2>4 DEF AnswersInv, AcceptedIsPast
  <2>6. p[2] = s
    <3>1. ASSUME p[2] # s PROVE FALSE
      <4>1. issued[p[2]].client = c /\ \A t \in accepted : issued[t[2]].client = c
        BY <2>5 DEF Alone, AnswersInv, AcceptedIsPast
      <4>2. p[2] < s /\ \E t \in 1..p[2] : issued[t].client = c /\ WithoutOwnAnswer(t)
        BY <2>1, <2>4, <3>1, <4>1 DEF OnlyOverdueAnswers
      <4>3. PICK t \in 1..p[2] : issued[t].client = c /\ WithoutOwnAnswer(t)
        BY <4>2
      <4>4. t \in gaveUp
        BY <4>1, <4>3 DEF WithoutOwnAnswer
      <4>5. t < r
        BY <1>1, <2>1, <2>5, <4>2
      <4> QED BY <4>4, <4>5, <2>5 DEF Fresh
    <3> QED BY <3>1
  <2>7. Past(c, s)
    BY <2>5, <2>6
  <2>8. /\ rxEcu.of # 0 => s < rxEcu.of
        /\ \A k \in 1..Len(queue[c]) : Answers(queue[c][k]) => s < queue[c][k].of
    <3> HIDE DEF s
    <3> QED BY <2>7 DEF Past, EcuPast
  <2> QED BY <1>1, <2>8
<1> QED BY <1>2, <1>3

\* A queue loses its first frame or gets one that grants nothing.
QueueKeeps(c) ==
    \/ queue'[c] = queue[c]
    \/ queue[c] # <<>> /\ queue'[c] = Tail(queue[c])
    \/ \E f \in FrameToTool : ~Cts(f) /\ queue'[c] = Append(queue[c], f)

LEMMA GrantsInQueue ==
    ASSUME UdsInv, NEW c \in Client, QueueKeeps(c)
    PROVE  /\ NoCts(c) => NoCts(c)'
           /\ (\A j, k \in 1..Len(queue[c]) :
                  Cts(queue[c][j]) /\ Cts(queue[c][k]) => j = k)
              => \A j, k \in 1..Len(queue'[c]) :
                    Cts(queue'[c][j]) /\ Cts(queue'[c][k]) => j = k
           /\ \A k \in 1..Len(queue'[c]) : Cts(queue'[c][k]) =>
                 \E j \in 1..Len(queue[c]) : queue'[c][k] = queue[c][j]
<1>1. queue[c] \in Seq(FrameToTool) /\ Len(queue[c]) \in Nat
  BY MoreFields
<1>2. CASE queue'[c] = queue[c]
  BY <1>2 DEF NoCts
<1>3. CASE queue[c] # <<>> /\ queue'[c] = Tail(queue[c])
  <2>1. /\ Len(queue'[c]) \in Nat
        /\ \A k \in 1..Len(queue'[c]) :
              k + 1 \in 1..Len(queue[c]) /\ queue'[c][k] = queue[c][k + 1]
    BY <1>1, <1>3
  <2>2. NoCts(c) => NoCts(c)'
    BY <2>1 DEF NoCts
  <2>3. ASSUME \A j, k \in 1..Len(queue[c]) :
                  Cts(queue[c][j]) /\ Cts(queue[c][k]) => j = k,
               NEW j \in 1..Len(queue'[c]), NEW k \in 1..Len(queue'[c]),
               Cts(queue'[c][j]), Cts(queue'[c][k])
        PROVE  j = k
    <3>1. j + 1 = k + 1
      BY <2>1, <2>3
    <3> QED BY <3>1
  <2> QED BY <2>1, <2>2, <2>3
<1>4. ASSUME NEW f \in FrameToTool, ~Cts(f), queue'[c] = Append(queue[c], f)
      PROVE  \A k \in 1..Len(queue'[c]) : Cts(queue'[c][k]) =>
                k \in 1..Len(queue[c]) /\ queue'[c][k] = queue[c][k]
  BY <1>1, <1>4
<1>5. CASE \E f \in FrameToTool : ~Cts(f) /\ queue'[c] = Append(queue[c], f)
  BY <1>4, <1>5 DEF NoCts
<1> QED BY <1>2, <1>3, <1>5 DEF QueueKeeps

\* An exchange is where it was, or it is over.
ExchangeKeeps(c) ==
    /\ ex'[c].req = ex[c].req /\ ex'[c].phase = ex[c].phase
    /\ ex'[c].sent = ex[c].sent /\ ex'[c].left = ex[c].left

ExchangeIsOver(c) ==
    /\ ex[c].req # 0 /\ ex'[c].req = 0 /\ ex'[c].phase = "idle"
    /\ ex[c].req \in gaveUp' \/ ex[c].phase = "answer"

\* A frame that is no part of a request: the keep-alive, or the Flow Control for
\* a First Frame that an exchange reads.
Aside(f) ==
    \/ f.type = "SF"
    \/ /\ f.type = "FC"
       /\ \E d \in Client : /\ ex[d].phase = "answer" /\ queue[d] # <<>>
                            /\ Head(queue[d]).type = "FF"

ToEcuKeeps ==
    \/ toEcu' = toEcu
    \/ \E f \in FrameToEcu : toEcu' = Append(toEcu, f) /\ Aside(f)

Passive ==
    /\ UNCHANGED <<issued, rxEcu, overrun>>
    /\ gaveUp \subseteq gaveUp' /\ gaveUp' \subseteq 1..Len(issued)
    /\ \A c \in Client : QueueKeeps(c) /\ (ExchangeKeeps(c) \/ ExchangeIsOver(c))
    /\ ToEcuKeeps

\* A step that grants nothing and sends no part of a request.
LEMMA PassiveStep ==
    ASSUME AllInv, Passive
    PROVE  GrantInv'
<1> USE DEF AllInv, GrantInv
<1> DEFINE n == Len(toEcu)
<1>1. /\ n \in Nat /\ Len(issued) \in Nat
      /\ \A m \in 1..n : toEcu[m] \in FrameToEcu
      /\ toEcu \in Seq(FrameToEcu)
  BY Fields DEF UdsInv, TypeOK
<1>2. /\ UNCHANGED <<issued, rxEcu, overrun>>
      /\ gaveUp \subseteq gaveUp' /\ gaveUp' \subseteq 1..Len(issued)
  BY DEF Passive
<1>3. \/ toEcu' = toEcu
      \/ \E f \in FrameToEcu : /\ Len(toEcu') = n + 1 /\ toEcu'[n + 1] = f /\ Aside(f)
                               /\ \A m \in 1..n : toEcu'[m] = toEcu[m]
  BY <1>1 DEF Passive, ToEcuKeeps
<1>4. \A m \in 1..Len(toEcu') :
         \/ m \in 1..n /\ toEcu'[m] = toEcu[m]
         \/ m = n + 1 /\ Aside(toEcu'[m]) /\ Len(toEcu') = n + 1
  BY <1>1, <1>3
<1>5. Len(toEcu') \in {n, n + 1} /\ \A m \in 1..n : m \in 1..Len(toEcu') /\ toEcu'[m] = toEcu[m]
  BY <1>1, <1>3
<1>6. \A r \in Nat : Fresh(r)' => Fresh(r)
  BY <1>2 DEF Fresh
<1>7. LengthInv'
  <2>1. \A m \in 1..Len(toEcu') : toEcu'[m].type = "FF" =>
           m \in 1..n /\ toEcu'[m] = toEcu[m]
    BY <1>4 DEF Aside
  <2>2. \A c \in Client : ExchangeKeeps(c) \/ ex'[c].phase = "idle"
    BY DEF Passive, ExchangeIsOver
  <2> QED BY <1>2, <2>1, <2>2 DEF LengthInv, Long, Svc, ExchangeKeeps
<1>8. ASSUME NEW c \in Client, Alone(c)
      PROVE  FirstFrameInv(c)' /\ OnBusInv' /\ GrantReadInv(c)' /\ UnderWayInv(c)'
  <2>1. /\ FirstFrameInv(c) /\ OnBusInv /\ GrantReadInv(c) /\ UnderWayInv(c)
        /\ QueueKeeps(c) /\ (ExchangeKeeps(c) \/ ExchangeIsOver(c))
    BY <1>8 DEF Passive
  <2>2. /\ ex[c].req \in 0..Len(issued) /\ (ex[c].req # 0 => ex[c].req = Len(issued))
        /\ ex[c].req = 0 <=> ex[c].phase = "idle"
        /\ \A d \in Client : ex[d].phase # "idle" => d = c
    BY <1>8, AloneIsLatest, RxFields
  <2>3. ASSUME NEW f, Aside(f), f.type # "SF"
        PROVE  /\ f.type = "FC" /\ ex[c].phase = "answer" /\ queue[c] # <<>>
               /\ Head(queue[c]).type = "FF"
    <3>1. PICK d \in Client : /\ ex[d].phase = "answer" /\ queue[d] # <<>>
                              /\ Head(queue[d]).type = "FF"
      BY <2>3 DEF Aside
    <3>2. d = c
      BY <2>2, <3>1
    <3> QED BY <2>3, <3>1, <3>2 DEF Aside
  <2>4. \A k \in 0..Len(toEcu') : Bare(k)' => \A i \in 0..n : i =< k => Bare(i)
    BY <1>5 DEF Bare
  <2>5. FirstFrameInv(c)'
    <3> SUFFICES ASSUME NEW m \in 1..Len(toEcu'), toEcu'[m].type = "FF",
                        \A q \in gaveUp' : toEcu'[m].of =< q
                 PROVE  /\ m < Len(toEcu') => toEcu'[m + 1].type \in {"SF", "FF"}
                        /\ m = Len(toEcu') => toEcu'[m].of = Len(issued')
                        /\ ex'[c].req = toEcu'[m].of =>
                              ex'[c].phase = "fc" /\ ex'[c].sent = 0 /\ NoCts(c)'
      BY DEF FirstFrameInv, Fresh
    <3>1. m \in 1..n /\ toEcu'[m] = toEcu[m] /\ toEcu[m].of \in Nat /\ toEcu[m].of # 0
      BY <1>1, <1>4, FrameFields, Limits DEF Aside
    <3>2. Fresh(toEcu[m].of)
      BY <1>2, <3>1 DEF Fresh
    <3>3. /\ m < n => toEcu[m + 1].type \in {"SF", "FF"}
          /\ m = n => toEcu[m].of = Len(issued)
          /\ ex[c].req = toEcu[m].of => ex[c].phase = "fc" /\ ex[c].sent = 0 /\ NoCts(c)
      BY <2>1, <3>1, <3>2 DEF FirstFrameInv
    <3>4. m < Len(toEcu') => toEcu'[m + 1].type \in {"SF", "FF"}
      <4>1. CASE m < n
        BY <1>1, <1>5, <3>1, <3>3, <4>1
      <4>2. CASE m = n /\ m < Len(toEcu')
        <5>1. m + 1 \in 1..Len(toEcu') /\ Aside(toEcu'[m + 1])
          BY <1>1, <1>4, <1>5, <4>2
        <5>2. toEcu'[m + 1].type = "SF"
          <6>1. ASSUME toEcu'[m + 1].type # "SF" PROVE FALSE
            <7>1. ex[c].phase = "answer"
              BY <2>3, <5>1, <6>1
            <7> QED BY <2>2, <3>3, <4>2, <7>1
          <6> QED BY <6>1
        <5> QED BY <5>2
      <4> QED BY <1>1, <3>1, <4>1, <4>2
    <3>5. m = Len(toEcu') => toEcu'[m].of = Len(issued')
      BY <1>1, <1>2, <1>5, <3>1, <3>3
    <3>6. ex'[c].req = toEcu'[m].of =>
             ex'[c].phase = "fc" /\ ex'[c].sent = 0 /\ NoCts(c)'
      BY <2>1, <3>1, <3>3, GrantsInQueue DEF ExchangeKeeps, ExchangeIsOver
    <3> QED BY <3>4, <3>5, <3>6
  <2>6. OnBusInv'
    <3> SUFFICES ASSUME rxEcu.of # 0, \A q \in gaveUp' : rxEcu.of =< q,
                        NEW k \in 1..Len(toEcu'), Bare(k)',
                        toEcu'[k].type = "CF", toEcu'[k].of = rxEcu.of
                 PROVE  k =< rxEcu.grant
      BY <1>2 DEF OnBusInv, Fresh
    <3>1. k \in 1..n /\ toEcu'[k] = toEcu[k] /\ Bare(k) /\ Fresh(rxEcu.of)
      BY <1>2, <1>4, <2>4 DEF Aside, Fresh
    <3> QED BY <2>1, <3>1 DEF OnBusInv
  <2>7. GrantReadInv(c)'
    <3> SUFFICES ASSUME NEW r \in Nat, Fresh(r)',
                        r = IF ex'[c].req = 0 THEN Len(issued') + 1 ELSE ex'[c].req
                 PROVE  /\ ex'[c].phase # "fc" => NoCts(c)'
                        /\ \A j, k \in 1..Len(queue'[c]) :
                              Cts(queue'[c][j]) /\ Cts(queue'[c][k]) => j = k
      BY DEF GrantReadInv, Fresh
    <3>1. Fresh(r)
      BY <1>6
    <3>2. CASE ExchangeKeeps(c)
      <4>1. /\ ex[c].phase # "fc" => NoCts(c)
            /\ \A j, k \in 1..Len(queue[c]) :
                  Cts(queue[c][j]) /\ Cts(queue[c][k]) => j = k
        BY <1>2, <2>1, <3>1, <3>2 DEF GrantReadInv, ExchangeKeeps
      <4> QED BY <2>1, <3>2, <4>1, GrantsInQueue DEF ExchangeKeeps
    <3>3. CASE ExchangeIsOver(c)
      <4>1. r = Len(issued) + 1 /\ ex[c].req \in Nat /\ ex[c].req # 0 /\ ex[c].req < r
        BY <1>1, <1>2, <2>2, <3>3 DEF ExchangeIsOver
      <4>2. ex[c].req \notin gaveUp'
        BY <4>1 DEF Fresh
      <4>3. Fresh(ex[c].req)
        <5> SUFFICES ASSUME NEW q \in gaveUp PROVE ex[c].req =< q
          BY DEF Fresh
        <5>1. r =< q
          BY <3>1 DEF Fresh
        <5>2. q \in gaveUp'
          BY <1>2
        <5>3. q \in Nat
          BY <1>1, <1>2, <5>2
        <5> QED BY <4>1, <5>1, <5>3
      <4>4. /\ NoCts(c)
            /\ \A j, k \in 1..Len(queue[c]) :
                  Cts(queue[c][j]) /\ Cts(queue[c][k]) => j = k
        BY <2>1, <3>3, <4>1, <4>2, <4>3 DEF GrantReadInv, ExchangeIsOver
      <4> QED BY <2>1, <4>4, GrantsInQueue
    <3> QED BY <2>1, <3>2, <3>3
  <2>8. UnderWayInv(c)'
    <3> SUFFICES ASSUME ex'[c].req # 0, rxEcu.of = ex'[c].req,
                        \A q \in gaveUp' : ex'[c].req =< q
                 PROVE  UnderWayInv(c)'
      BY <1>2 DEF UnderWayInv, Fresh
    <3>1. ExchangeKeeps(c) /\ ex[c].req # 0 /\ rxEcu.of = ex[c].req /\ ex[c].req \in Nat
          /\ Fresh(ex[c].req)
      <4>1. ExchangeKeeps(c)
        BY <2>1 DEF ExchangeIsOver
      <4>2. ex[c].req = ex'[c].req
        BY <4>1 DEF ExchangeKeeps
      <4>3. Fresh(ex[c].req)
        BY <1>2, <4>2 DEF Fresh
      <4> QED BY <1>1, <2>2, <4>1, <4>2, <4>3
    <3>2. ASSUME NEW f, Aside(f) PROVE f.type = "SF"
      <4>1. ASSUME f.type # "SF" PROVE FALSE
        <5> DEFINE g == queue[c][1]
        <5>1. /\ 1 \in 1..Len(queue[c]) /\ g.type = "FF" /\ g \in FrameToTool /\ Answers(g)
              /\ ex[c].phase = "answer"
          BY <2>3, <3>2, <4>1, MoreFields DEF Answers
        <5>2. ex[c].req =< g.of /\ g.of \in Nat
          BY <1>8, <3>1, <5>1, FreshIsPast, AnswerFields, Limits
        <5>3. Over(g) = g.of /\ EcuPast(g.of)
          BY <5>1, <5>2 DEF AnswersInv, AnswersInOrder, Over
        <5>4. g.of < rxEcu.of
          <6> HIDE DEF g
          <6> QED BY <3>1, <5>3 DEF EcuPast
        <5> QED BY <3>1, <5>2, <5>4
      <4> QED BY <4>1
    <3>3. \A m \in 1..Len(toEcu') :
             \/ m \in 1..n /\ toEcu'[m] = toEcu[m]
             \/ m = n + 1 /\ toEcu'[m].type = "SF" /\ Len(toEcu') = n + 1
      BY <1>4, <3>2
    <3>4. \A k \in 0..Len(toEcu') : Bare(k)' =>
             k \in 0..n /\ Bare(k) /\ (k = Len(toEcu') => k = n)
      <4> SUFFICES ASSUME NEW k \in 0..Len(toEcu'), Bare(k)'
                   PROVE  k \in 0..n /\ Bare(k) /\ (k = Len(toEcu') => k = n)
        OBVIOUS
      <4>1. k # n + 1
        <5>1. ASSUME k = n + 1 PROVE FALSE
          <6>1. k \in 1..Len(toEcu') /\ toEcu'[k].type = "SF"
            BY <1>1, <3>3, <5>1
          <6> QED BY <6>1 DEF Bare
        <5> QED BY <5>1
      <4>2. k \in 0..n
        BY <1>1, <1>5, <4>1
      <4> QED BY <1>1, <1>5, <2>4, <4>1, <4>2
    <3>5. \A k \in 1..Len(toEcu') : Bare(k)' =>
             toEcu'[k].type = "CF" /\ toEcu'[k].of = ex'[c].req
      <4> SUFFICES ASSUME NEW k \in 1..Len(toEcu'), Bare(k)'
                   PROVE  toEcu'[k].type = "CF" /\ toEcu'[k].of = ex'[c].req
        OBVIOUS
      <4>1. k \in 1..n /\ Bare(k)
        BY <1>1, <3>4
      <4> QED BY <1>5, <2>1, <3>1, <4>1 DEF UnderWayInv, ExchangeKeeps
    <3>6. \A k \in 0..Len(toEcu') : Bare(k)' =>
              /\ k = Len(toEcu') => rxEcu'.got + k = ex'[c].sent
              /\ ex'[c].phase = "block" =>
                    /\ k < rxEcu'.grant
                    /\ k = Len(toEcu') => k + Need(ex[c], ex[c].left) =< rxEcu'.grant
              /\ ex'[c].phase = "answer" =>
                    k < rxEcu'.grant \/ rxEcu'.got + k = Long(ex[c].req)
      BY <1>2, <2>1, <3>1, <3>4 DEF UnderWayInv, ExchangeKeeps
    <3>7. \A j \in 1..Len(queue'[c]) : Cts(queue'[c][j]) =>
              /\ toEcu' # <<>> => ~Bare(1)'
              /\ Need(ex[c], queue'[c][j].bs) =< rxEcu'.grant
      <4> SUFFICES ASSUME NEW j \in 1..Len(queue'[c]), Cts(queue'[c][j])
                   PROVE  /\ toEcu' # <<>> => ~Bare(1)'
                          /\ Need(ex[c], queue'[c][j].bs) =< rxEcu'.grant
        OBVIOUS
      <4>1. PICK i \in 1..Len(queue[c]) : queue'[c][j] = queue[c][i]
        BY <2>1, GrantsInQueue
      <4>2. /\ toEcu # <<>> => ~Bare(1)
            /\ Need(ex[c], queue[c][i].bs) =< rxEcu.grant
        BY <2>1, <3>1, <4>1 DEF UnderWayInv
      <4>3. ASSUME toEcu' # <<>>, Bare(1)' PROVE FALSE
        <5>1. 1 \in 0..Len(toEcu')
          <6>1. Len(toEcu') # 0
            BY <1>1, <1>3, <4>3 DEF Passive, ToEcuKeeps
          <6> QED BY <1>1, <1>5, <6>1
        <5>2. 1 \in 0..n /\ Bare(1)
          BY <3>4, <4>3, <5>1
        <5>3. toEcu # <<>>
          BY <1>1, <5>2
        <5> QED BY <4>2, <5>2, <5>3
      <4> QED BY <1>2, <4>1, <4>2, <4>3
    <3> QED BY <1>2, <3>1, <3>5, <3>6, <3>7 DEF UnderWayInv, Need, Long, Svc, ExchangeKeeps
  <2> QED BY <2>5, <2>6, <2>7, <2>8
<1>9. \A c \in Client : Alone(c)' => Alone(c)
  BY <1>2 DEF Alone
<1> QED BY <1>2, <1>7, <1>8, <1>9

-----------------------------------------------------------------------------
(* The steps that grant nothing and send no part of a request.             *)

LEMMA RaisesIsOver ==
    ASSUME AllInv, NEW c \in Client, ex[c].req # 0, Raises(c), issued' = issued
    PROVE  /\ gaveUp \subseteq gaveUp' /\ gaveUp' \subseteq 1..Len(issued)
           /\ \A d \in Client : ExchangeKeeps(d) \/ ExchangeIsOver(d)
<1>1. ex[c].req \in 1..Len(issued) /\ ex \in [Client -> Exchange]
  BY RxFields, Fields DEF AllInv, UdsInv, TypeOK
<1>2. /\ ex' = [ex EXCEPT ![c] = Idle] /\ gaveUp' = gaveUp \cup {ex[c].req}
  BY DEF Raises
<1>3. gaveUp \subseteq gaveUp' /\ gaveUp' \subseteq 1..Len(issued)
  BY <1>1, <1>2 DEF AllInv, GrantInv
<1>4. ExchangeIsOver(c)
  BY <1>1, <1>2, IdleType DEF ExchangeIsOver
<1>5. \A d \in Client : d # c => ExchangeKeeps(d)
  BY <1>1, <1>2 DEF ExchangeKeeps
<1> QED BY <1>3, <1>4, <1>5

LEMMA ReadKeeps ==
    ASSUME UdsInv, NEW c \in Client, queue[c] # <<>>,
           queue' = [queue EXCEPT ![c] = Tail(@)]
    PROVE  \A d \in Client : QueueKeeps(d)
BY DEF QueueKeeps, UdsInv, TypeOK

LEMMA DeliveryKeeps ==
    ASSUME NEW f \in FrameToTool, ~Cts(f), Deliver(f)
    PROVE  \A d \in Client : QueueKeeps(d)
BY DEF QueueKeeps, Deliver

LEMMA ReadIsPassive ==
    ASSUME AllInv, NEW c \in Client, TakeFlowControl(c), ~Cts(Head(queue[c]))
    PROVE  Passive
<1> DEFINE f == Head(queue[c])
<1>1. /\ UNCHANGED <<issued, toEcu, rxEcu, overrun>> /\ queue[c] # <<>>
      /\ queue' = [queue EXCEPT ![c] = Tail(@)] /\ ex[c].phase = "fc"
  BY DEF TakeFlowControl, ecu
<1>2. /\ ex[c] \in Exchange /\ ex \in [Client -> Exchange] /\ ex[c].req # 0
      /\ gaveUp \subseteq 1..Len(issued)
  BY <1>1 DEF AllInv, UdsInv, TypeOK, LockFree, GrantInv
<1>3. /\ gaveUp \subseteq gaveUp' /\ gaveUp' \subseteq 1..Len(issued)
      /\ \A d \in Client : ExchangeKeeps(d) \/ ExchangeIsOver(d)
  <2>1. CASE Raises(c)
    BY <1>1, <1>2, <2>1, RaisesIsOver
  <2>2. CASE UNCHANGED <<ex, gaveUp>>
    BY <1>2, <2>2 DEF ExchangeKeeps
  <2>3. CASE ex' = [ex EXCEPT ![c] = AwaitFlowControl([@ EXCEPT !.wft = CountedWait(ex[c])])]
             /\ UNCHANGED gaveUp
    <3> DEFINE e == AwaitFlowControl([ex[c] EXCEPT !.wft = CountedWait(ex[c])])
    <3>1. e.req = ex[c].req /\ e.phase = ex[c].phase /\ e.sent = ex[c].sent
          /\ e.left = ex[c].left
      BY <1>1, <1>2 DEF AwaitFlowControl, Exchange
    <3>2. ex'[c] = e /\ \A d \in Client : d # c => ex'[d] = ex[d]
      BY <1>2, <2>3
    <3> HIDE DEF e
    <3> QED BY <1>2, <2>3, <3>1, <3>2 DEF ExchangeKeeps
  <2> QED BY <2>1, <2>2, <2>3 DEF TakeFlowControl, Cts
<1> QED BY <1>1, <1>3, ReadKeeps DEF AllInv, Passive, ToEcuKeeps

LEMMA RaisingIsPassive ==
    ASSUME AllInv, NEW c \in Client, Expires(c) \/ Refused(c) \/ FlowControlRefused(c)
    PROVE  Passive
<1>1. /\ UNCHANGED <<issued, toEcu, rxEcu, overrun>> /\ Raises(c) /\ ex[c].phase # "idle"
  BY DEF Expires, Refused, FlowControlRefused, ecu
<1>2. ex[c].req # 0
  BY <1>1, RxFields DEF AllInv
<1>3. \A d \in Client : QueueKeeps(d)
  <2>1. CASE queue' = queue
    BY <2>1 DEF QueueKeeps
  <2>2. CASE FlowControlRefused(c)
    BY <2>2, ReadKeeps DEF AllInv, FlowControlRefused
  <2> QED BY <2>1, <2>2 DEF Expires, Refused
<1> QED BY <1>1, <1>2, <1>3, RaisesIsOver DEF Passive, ToEcuKeeps

LEMMA AnswerIsPassive ==
    ASSUME AllInv, NEW c \in Client, TakeAnswer(c)
    PROVE  Passive
<1> DEFINE f == Head(queue[c])
           r == Reassembles(session[c], f)
           a == IF f.type = "SF" THEN f ELSE session[c]
<1>1. /\ UNCHANGED <<issued, rxEcu, overrun>> /\ queue[c] # <<>>
      /\ queue' = [queue EXCEPT ![c] = Tail(@)] /\ ex[c].phase = "answer"
      /\ IF f.type = "FF" THEN Send(ToEcu(c, "FC", 0)) ELSE UNCHANGED toEcu
      /\ IF r.done THEN Complete(c, a) ELSE UNCHANGED <<ex, gaveUp, accepted>>
  BY DEF TakeAnswer
<1> HIDE DEF r, a
<1>2. /\ ex[c] \in Exchange /\ ex \in [Client -> Exchange] /\ ex[c].req # 0
      /\ gaveUp \subseteq 1..Len(issued)
  BY <1>1 DEF AllInv, UdsInv, TypeOK, LockFree, GrantInv
<1>3. /\ gaveUp \subseteq gaveUp' /\ gaveUp' \subseteq 1..Len(issued)
      /\ \A d \in Client : ExchangeKeeps(d) \/ ExchangeIsOver(d)
  <2>1. CASE Raises(c)
    BY <1>1, <1>2, <2>1, RaisesIsOver
  <2>2. CASE UNCHANGED <<ex, gaveUp>>
    BY <1>2, <2>2 DEF ExchangeKeeps
  <2>3. CASE ex' = [ex EXCEPT ![c] = Extended(@)] /\ UNCHANGED gaveUp
    <3>1. Extended(ex[c]).req = ex[c].req /\ Extended(ex[c]).phase = ex[c].phase
          /\ Extended(ex[c]).sent = ex[c].sent /\ Extended(ex[c]).left = ex[c].left
      BY <1>2 DEF Extended, Exchange
    <3> QED BY <1>2, <2>3, <3>1 DEF ExchangeKeeps
  <2>4. CASE ex' = [ex EXCEPT ![c] = Idle] /\ UNCHANGED gaveUp
    BY <1>1, <1>2, <2>4, IdleType DEF ExchangeKeeps, ExchangeIsOver
  <2> QED BY <1>1, <2>1, <2>2, <2>3, <2>4 DEF Complete
<1>4. ToEcuKeeps
  <2>1. CASE f.type = "FF"
    <3> DEFINE g == ToEcu(c, "FC", 0)
    <3>1. g \in FrameToEcu /\ g.type = "FC" /\ Send(g)
      BY <1>1, <2>1, Limits DEF FrameToEcu, ToEcu
    <3> HIDE DEF g
    <3>2. Aside(g)
      BY <1>1, <2>1, <3>1 DEF Aside
    <3> QED BY <3>1, <3>2 DEF ToEcuKeeps, Send
  <2> QED BY <1>1, <2>1 DEF ToEcuKeeps
<1> QED BY <1>1, <1>3, <1>4, ReadKeeps DEF AllInv, Passive

LEMMA KeepAliveIsPassive ==
    ASSUME AllInv, NEW c \in Client, KeepAlive(c)
    PROVE  Passive
<1> DEFINE g == ToEcu(c, "SF", 0)
<1>1. UNCHANGED <<issued, rxEcu, overrun, gaveUp, ex, queue>> /\ Send(g)
  BY DEF KeepAlive, tool, history
<1>2. g \in FrameToEcu /\ Aside(g)
  BY Limits DEF FrameToEcu, ToEcu, Aside
<1>3. gaveUp \subseteq 1..Len(issued)
  BY DEF AllInv, GrantInv
<1> HIDE DEF g
<1> QED BY <1>1, <1>2, <1>3 DEF Passive, ToEcuKeeps, Send, QueueKeeps, ExchangeKeeps

LEMMA TickIsPassive == ASSUME AllInv, Tick PROVE Passive
<1>1. /\ UNCHANGED <<issued, queue, toEcu, rxEcu, overrun, gaveUp>>
      /\ gaveUp \subseteq 1..Len(issued) /\ ex \in [Client -> Exchange]
  BY DEF Tick, ecu, history, AllInv, GrantInv, UdsInv, TypeOK
<1>2. ASSUME NEW d \in Client PROVE ExchangeKeeps(d)
  <2>1. ex[d] \in Exchange
    BY <1>1
  <2>2. ex'[d] = IF Waiting(d)
                 THEN [ex[d] EXCEPT !.slack = @ - 1, !.wall = IF @ = 0 THEN 0 ELSE @ - 1]
                 ELSE ex[d]
    BY DEF Tick
  <2> QED BY <2>1, <2>2 DEF ExchangeKeeps, Exchange
<1> QED BY <1>1, <1>2 DEF Passive, ToEcuKeeps, QueueKeeps

LEMMA EcuAnswersIsPassive ==
    ASSUME AllInv,
           \/ EcuContinues \/ EcuBreaksOff \/ UNCHANGED vars
           \/ \E kind \in Kind : EcuAnswers(kind)
    PROVE  Passive
<1>1. /\ UNCHANGED <<issued, toEcu, rxEcu, overrun, gaveUp, ex>>
      /\ gaveUp \subseteq 1..Len(issued)
  BY DEF EcuContinues, EcuBreaksOff, EcuAnswers, tool, history, vars, ecu, AllInv, GrantInv
<1>2. \A d \in Client : QueueKeeps(d)
  <2>1. CASE UNCHANGED queue
    BY <2>1 DEF QueueKeeps
  <2>2. CASE EcuContinues
    <3> DEFINE n == txEcu.sent + 1
               f == [type |-> "CF", of |-> txEcu.of, sn |-> n % SNMod]
    <3>1. Deliver(f) /\ txEcu \in [of : 1..MaxRequests, sent : Nat, clear : BOOLEAN]
      BY <2>2 DEF EcuContinues, AllInv, UdsInv, TypeOK
    <3>2. n % SNMod \in 0..SNMod - 1
      BY <3>1, UdsAssumption DEF UdsAssumption
    <3>3. f \in FrameToTool /\ ~Cts(f)
      BY <3>1, <3>2 DEF FrameToTool, Cts
    <3> HIDE DEF f
    <3> QED BY <3>1, <3>3, DeliveryKeeps
  <2>3. ASSUME NEW kind \in Kind, EcuAnswers(kind)
        PROVE  \A d \in Client : QueueKeeps(d)
    <3> DEFINE i == Head(jobs)
               long == kind = "positive" /\ AnswerCFs[Svc(i)] > 0
               f == [type |-> IF long THEN "FF" ELSE "SF", of |-> i, kind |-> kind]
    <3>1. jobs # <<>> /\ jobs \in Seq(1..MaxRequests)
      BY <2>3, MoreFields DEF EcuAnswers, AllInv
    <3>2. i = jobs[1] /\ i \in 1..MaxRequests
      <4>1. jobs[1] \in 1..MaxRequests
        BY <3>1, HeadIn
      <4> QED BY <3>1, <4>1
    <3>3. Deliver(f)
      BY <2>3 DEF EcuAnswers
    <3> HIDE DEF i, long
    <3>4. f \in FrameToTool /\ ~Cts(f)
      BY <3>2 DEF FrameToTool, Cts
    <3> HIDE DEF f
    <3> QED BY <3>3, <3>4, DeliveryKeeps
  <2> QED BY <2>1, <2>2, <2>3 DEF EcuBreaksOff, vars
<1> QED BY <1>1, <1>2 DEF Passive, ToEcuKeeps, ExchangeKeeps

-----------------------------------------------------------------------------
(* The steps that grant, use a grant or begin a request.                   *)

\* The exchange reads its grant.
LEMMA GrantReadStep ==
    ASSUME AllInv, NEW c \in Client, TakeFlowControl(c), Cts(Head(queue[c]))
    PROVE  GrantInv'
<1> USE DEF AllInv, GrantInv
<1> DEFINE f == Head(queue[c])
           e == [ex[c] EXCEPT !.phase = "block", !.left = f.bs, !.wft = 0]
<1>1. /\ UNCHANGED <<issued, toEcu, rxEcu, overrun, gaveUp>> /\ queue[c] # <<>>
      /\ queue' = [queue EXCEPT ![c] = Tail(@)] /\ ex[c].phase = "fc"
      /\ ex' = [ex EXCEPT ![c].phase = "block", ![c].left = f.bs, ![c].wft = 0]
  BY DEF TakeFlowControl, ecu, Cts
<1>2. /\ ex[c] \in Exchange /\ ex \in [Client -> Exchange]
      /\ queue[c] \in Seq(FrameToTool) /\ queue \in [Client -> Seq(FrameToTool)]
  BY MoreFields DEF UdsInv, TypeOK
<1>3. /\ ex' = [ex EXCEPT ![c] = e] /\ e.req = ex[c].req /\ e.phase = "block"
      /\ e.sent = ex[c].sent /\ e.left = f.bs
  BY <1>1, <1>2 DEF Exchange
<1>4. /\ Cts(f) /\ f = queue[c][1] /\ 1 \in 1..Len(queue[c]) /\ f \in FrameToTool
      /\ Len(queue'[c]) \in Nat
      /\ \A k \in 1..Len(queue'[c]) : /\ k + 1 \in 1..Len(queue[c]) /\ k + 1 # 1
                                      /\ queue'[c][k] = queue[c][k + 1]
  BY <1>1, <1>2
<1>5. f.bs \in Nat
  BY <1>4, UdsAssumption DEF FrameToTool, UdsAssumption, Cts
<1> HIDE DEF e, f
<1>6. /\ ex'[c] = e /\ \A d \in Client : d # c => ex'[d] = ex[d] /\ queue'[d] = queue[d]
  BY <1>1, <1>2, <1>3
<1>7. LengthInv'
  <2>1. /\ \A m \in 1..Len(toEcu') : toEcu'[m].type = "FF" => Long(toEcu'[m].of) > 0
        /\ rxEcu'.of # 0 => rxEcu'.got < Long(rxEcu'.of)
    BY <1>1 DEF LengthInv
  <2>2. ASSUME NEW d \in Client
        PROVE  /\ ex'[d].phase \in {"fc", "block"} => ex'[d].sent < Long(ex'[d].req)
               /\ ex'[d].phase = "answer" => ex'[d].sent = Long(ex'[d].req)
    <3>1. CASE d = c
      BY <1>1, <1>3, <1>6, <3>1 DEF LengthInv
    <3>2. CASE d # c
      BY <1>6, <3>2 DEF LengthInv
    <3> QED BY <3>1, <3>2
  <2>3. issued' = issued
    BY <1>1
  <2> QED BY <2>1, <2>2, <2>3 DEF LengthInv, Long, Svc
<1>8. ASSUME NEW d \in Client, Alone(d)'
      PROVE  FirstFrameInv(d)' /\ OnBusInv' /\ GrantReadInv(d)' /\ UnderWayInv(d)'
  <2>1. Alone(d)
    BY <1>1, <1>8 DEF Alone
  <2>2. d = c /\ Alone(c)
    BY <1>1, <2>1, AloneIsLatest
  <2>3. FirstFrameInv(c) /\ OnBusInv /\ GrantReadInv(c) /\ UnderWayInv(c)
    BY <2>2
  <2>4. /\ ex[c].req \in 1..Len(issued) /\ ex[c].sent \in Nat
        /\ Len(issued) \in Nat /\ Len(toEcu) \in Nat /\ Long(ex[c].req) \in Nat
        /\ ex[c].sent < Long(ex[c].req)
    <3>1. Len(issued) \in Nat /\ Len(toEcu) \in Nat
      BY Fields DEF UdsInv
    <3>2. ex[c].req \in 1..Len(issued) /\ ex[c].sent \in Nat
      BY <1>1, <3>1, RxFields
    <3>3. Long(ex[c].req) \in Nat
      BY <3>2, RxFields
    <3> QED BY <1>1, <3>1, <3>2, <3>3 DEF LengthInv
  <2>5. FirstFrameInv(c)'
    <3>1. \A m \in 1..Len(toEcu) : toEcu[m].type = "FF" /\ Fresh(toEcu[m].of)
             => ex[c].req # toEcu[m].of
      BY <1>4, <2>3 DEF FirstFrameInv, NoCts
    <3> QED BY <1>1, <1>3, <1>6, <2>3, <3>1 DEF FirstFrameInv, Fresh
  <2>6. OnBusInv'
    BY <1>1, <2>3 DEF OnBusInv, Bare, Fresh
  <2>7. Fresh(ex[c].req) => NoCts(c)'
    <3>1. ASSUME Fresh(ex[c].req), NEW k \in 1..Len(queue'[c]), Cts(queue'[c][k]) PROVE FALSE
      <4>1. /\ k + 1 \in 1..Len(queue[c]) /\ 1 \in 1..Len(queue[c])
            /\ Cts(queue[c][k + 1]) /\ Cts(queue[c][1])
        BY <1>4, <3>1
      <4>2. ex[c].req \in Nat /\ ex[c].req # 0
        BY <2>4
      <4>3. \A j, l \in 1..Len(queue[c]) : Cts(queue[c][j]) /\ Cts(queue[c][l]) => j = l
        BY <2>3, <3>1, <4>2 DEF GrantReadInv
      <4>4. k + 1 = 1
        BY <4>1, <4>3
      <4> QED BY <1>4, <4>4
    <3> QED BY <3>1 DEF NoCts
  <2>8. GrantReadInv(c)'
    <3>1. ex'[c].req = ex[c].req /\ ex[c].req # 0
      BY <1>3, <1>6, <2>4
    <3>2. (\A q \in gaveUp' : ex[c].req =< q) => NoCts(c)'
      BY <1>1, <2>7 DEF Fresh
    <3> QED BY <3>1, <3>2 DEF GrantReadInv, Fresh, NoCts
  <2>9. UnderWayInv(c)'
    <3> SUFFICES ASSUME rxEcu.of = ex[c].req, Fresh(ex[c].req)
                 PROVE  UnderWayInv(c)'
      BY <1>1, <1>3, <1>6 DEF UnderWayInv, Fresh
    <3>1. /\ toEcu # <<>> => ~Bare(1)
          /\ Need(ex[c], f.bs) =< rxEcu.grant
          /\ Len(toEcu) = 0 => rxEcu.got + 0 = ex[c].sent
      <4>1. 0 \in 0..Len(toEcu) /\ Bare(0)
        BY <2>4 DEF Bare
      <4> QED BY <1>4, <2>3, <2>4, <4>1 DEF UnderWayInv
    <3>2. \A k \in 0..Len(toEcu) : Bare(k) => k = 0
      <4>1. ASSUME NEW k \in 1..Len(toEcu), Bare(k) PROVE FALSE
        <5>1. Bare(1) /\ toEcu # <<>>
          BY <2>4, <4>1 DEF Bare
        <5> QED BY <3>1, <5>1
      <4> QED BY <2>4, <4>1
    <3>3. 0 < Need(ex[c], f.bs) /\ Need(ex[c], f.bs) \in Nat /\ rxEcu.grant \in Nat
      <4>1. rxEcu.grant \in Nat
        BY <2>4, RxFields
      <4> QED BY <1>5, <2>4, <4>1 DEF Need
    <3>4. 0 < rxEcu.grant
      BY <3>1, <3>3
    <3>5. \A k \in 1..Len(toEcu') : ~Bare(k)'
      <4>1. \A k \in 1..Len(toEcu) : ~Bare(k)
        BY <2>4, <3>2
      <4> QED BY <1>1, <4>1 DEF Bare
    <3>6. \A k \in 0..Len(toEcu') : Bare(k)' =>
              /\ k = Len(toEcu') => rxEcu'.got + k = ex'[c].sent
              /\ k < rxEcu'.grant
              /\ k = Len(toEcu') => k + Need(ex[c], f.bs) =< rxEcu'.grant
      <4> SUFFICES ASSUME NEW k \in 0..Len(toEcu), k = 0
                   PROVE  /\ k = Len(toEcu) => rxEcu.got + k = ex[c].sent
                          /\ k < rxEcu.grant
                          /\ k = Len(toEcu) => k + Need(ex[c], f.bs) =< rxEcu.grant
        BY <1>1, <1>3, <1>6, <2>4, <3>5
      <4> QED BY <3>1, <3>3, <3>4
    <3> QED BY <1>1, <1>3, <1>6, <2>7, <3>5, <3>6
            DEF UnderWayInv, NoCts, Need, Long, Svc
  <2> QED BY <2>2, <2>5, <2>6, <2>8, <2>9
<1> QED BY <1>1, <1>7, <1>8

\* A Consecutive Frame uses the grant.
LEMMA GrantUsedStep ==
    ASSUME AllInv, NEW c \in Client, SendConsecutiveFrame(c)
    PROVE  GrantInv'
<1> USE DEF AllInv, GrantInv
<1> DEFINE n == Len(toEcu)
           i == ex[c].req
           e == [ex[c] EXCEPT !.sent = @ + 1, !.left = IF @ = 0 THEN 0 ELSE @ - 1]
           x == IF e.sent = RequestCFs[Svc(e.req)] THEN AwaitAnswer(e)
                ELSE IF BlockEnds(ex[c]) THEN AwaitFlowControl(e) ELSE e
           f == ToEcu(c, "CF", e.req)
<1>1. /\ UNCHANGED <<issued, queue, rxEcu, overrun, gaveUp>> /\ ex[c].phase = "block"
      /\ toEcu' = Append(toEcu, f) /\ ex' = [ex EXCEPT ![c] = x]
  BY DEF SendConsecutiveFrame, Send, history
<1>2. ex[c] \in Exchange /\ ex \in [Client -> Exchange] /\ toEcu \in Seq(FrameToEcu)
  BY DEF UdsInv, TypeOK
<1>3. /\ i \in 1..Len(issued) /\ ex[c].sent \in Nat /\ ex[c].left \in Nat
      /\ Len(issued) \in Nat /\ n \in Nat /\ Long(i) \in Nat /\ ex[c].sent < Long(i)
  <2>1. Len(issued) \in Nat /\ n \in Nat
    BY Fields DEF UdsInv
  <2>2. i \in 1..Len(issued) /\ ex[c].sent \in Nat /\ ex[c].left \in Nat
    BY <1>1, <2>1, RxFields
  <2>3. Long(i) \in Nat
    BY <2>2, RxFields
  <2> QED BY <1>1, <2>1, <2>2, <2>3 DEF LengthInv
<1>4. /\ e.req = i /\ e.sent = ex[c].sent + 1 /\ e.phase = "block"
      /\ e.left = IF ex[c].left = 0 THEN 0 ELSE ex[c].left - 1
      /\ e \in Exchange
  <2> DEFINE w == IF ex[c].left = 0 THEN 0 ELSE ex[c].left - 1
             t == ex[c].sent + 1
  <2>1. w \in Nat /\ t \in Nat /\ e = [ex[c] EXCEPT !.sent = t, !.left = w]
    BY <1>3
  <2> HIDE DEF w, t
  <2>2. [ex[c] EXCEPT !.sent = t, !.left = w] \in Exchange
    BY <1>2, <2>1 DEF Exchange
  <2>3. /\ [ex[c] EXCEPT !.sent = t, !.left = w].req = i
        /\ [ex[c] EXCEPT !.sent = t, !.left = w].sent = t
        /\ [ex[c] EXCEPT !.sent = t, !.left = w].left = w
        /\ [ex[c] EXCEPT !.sent = t, !.left = w].phase = ex[c].phase
    BY <1>2 DEF Exchange
  <2> HIDE DEF e, i
  <2> QED BY <1>1, <2>1, <2>2, <2>3 DEF w, t
<1> HIDE DEF e
<1>5. /\ x.req = i /\ x.sent = ex[c].sent + 1 /\ x.left = e.left
      /\ \/ x.phase = "answer" /\ x.sent = Long(i)
         \/ x.phase = "fc" /\ x.sent # Long(i)
         \/ x.phase = "block" /\ x.sent # Long(i) /\ ex[c].left # 1
  <2>1. /\ AwaitAnswer(e).req = e.req /\ AwaitAnswer(e).sent = e.sent
        /\ AwaitAnswer(e).left = e.left /\ AwaitAnswer(e).phase = "answer"
        /\ AwaitFlowControl(e).req = e.req /\ AwaitFlowControl(e).sent = e.sent
        /\ AwaitFlowControl(e).left = e.left /\ AwaitFlowControl(e).phase = "fc"
    BY <1>4 DEF AwaitAnswer, AwaitFlowControl, Exchange
  <2> HIDE DEF i
  <2> QED BY <1>4, <2>1 DEF BlockEnds, Long
<1> HIDE DEF x
<1>6. /\ Len(toEcu') = n + 1 /\ toEcu'[n + 1].type = "CF" /\ toEcu'[n + 1].of = i
      /\ \A m \in 1..n : toEcu'[m] = toEcu[m]
      /\ \A m \in 1..(n + 1) : m \in 1..n \/ m = n + 1
  <2>1. f.type = "CF" /\ f.of = i
    BY <1>4 DEF ToEcu
  <2> HIDE DEF f, i
  <2> QED BY <1>1, <1>2, <1>3, <2>1
<1>7. ex'[c] = x /\ \A d \in Client : d # c => ex'[d] = ex[d]
  BY <1>1, <1>2
<1> HIDE DEF f, i
<1>8. LengthInv'
  <2>1. x.sent \in Nat /\ x.sent =< Long(i)
    BY <1>3, <1>5
  <2>2. /\ x.phase \in {"fc", "block"} => x.sent < Long(x.req)
        /\ x.phase = "answer" => x.sent = Long(x.req)
    BY <1>3, <1>5, <2>1
  <2>3. \A m \in 1..Len(toEcu') : toEcu'[m].type = "FF" => Long(toEcu'[m].of) > 0
    BY <1>6 DEF LengthInv
  <2>4. \A d \in Client :
          /\ ex'[d].phase \in {"fc", "block"} => ex'[d].sent < Long(ex'[d].req)
          /\ ex'[d].phase = "answer" => ex'[d].sent = Long(ex'[d].req)
    BY <1>7, <2>2 DEF LengthInv
  <2> QED BY <1>1, <2>3, <2>4 DEF LengthInv, Long, Svc
<1>9. ASSUME NEW d \in Client, Alone(d)'
      PROVE  FirstFrameInv(d)' /\ OnBusInv' /\ GrantReadInv(d)' /\ UnderWayInv(d)'
  <2>1. Alone(d)
    BY <1>1, <1>9 DEF Alone
  <2>2. d = c /\ Alone(c)
    BY <1>1, <2>1, AloneIsLatest
  <2>3. FirstFrameInv(c) /\ OnBusInv /\ GrantReadInv(c) /\ UnderWayInv(c)
    BY <2>2
  <2>4. i = Len(issued)
    BY <1>3, <2>2, AloneIsLatest DEF i
  <2>5. /\ \A k \in 0..n : Bare(k)' => Bare(k)
        /\ \A k \in 0..(n + 1) : k = n + 1 /\ Bare(k)' => Bare(n)
    <3>1. \A m \in 1..n : toEcu'[m] = toEcu[m]
      BY <1>6
    <3>2. ASSUME NEW k \in 0..n, Bare(k)' PROVE Bare(k)
      BY <1>3, <3>1, <3>2 DEF Bare
    <3>3. ASSUME NEW k \in 0..(n + 1), k = n + 1, Bare(k)' PROVE Bare(n)
      BY <1>3, <3>1, <3>3 DEF Bare
    <3> QED BY <3>2, <3>3
  <2>6. FirstFrameInv(c)'
    <3>1. ASSUME NEW m \in 1..n, toEcu[m].type = "FF", Fresh(toEcu[m].of)
          PROVE  m < n /\ toEcu[m + 1].type \in {"SF", "FF"} /\ i # toEcu[m].of
      <4>1. i # toEcu[m].of
        BY <1>1, <2>3, <3>1 DEF FirstFrameInv, i
      <4>2. m # n
        BY <2>3, <2>4, <3>1, <4>1 DEF FirstFrameInv
      <4> QED BY <1>3, <2>3, <3>1, <4>1, <4>2 DEF FirstFrameInv
    <3> SUFFICES ASSUME NEW m \in 1..(n + 1), toEcu'[m].type = "FF",
                        \A q \in gaveUp : toEcu'[m].of =< q
                 PROVE  m < n /\ toEcu'[m + 1].type \in {"SF", "FF"} /\ i # toEcu'[m].of
      BY <1>1, <1>3, <1>5, <1>6, <1>7 DEF FirstFrameInv, Fresh
    <3>2. m \in 1..n /\ toEcu'[m] = toEcu[m] /\ Fresh(toEcu[m].of)
      BY <1>6 DEF Fresh
    <3>3. m < n /\ m + 1 \in 1..n
      BY <1>3, <3>1, <3>2
    <3> QED BY <1>6, <3>1, <3>2, <3>3
  <2>7. OnBusInv'
    <3> SUFFICES ASSUME rxEcu.of # 0, Fresh(rxEcu.of), NEW k \in 1..(n + 1), Bare(k)',
                        toEcu'[k].type = "CF", toEcu'[k].of = rxEcu.of
                 PROVE  k =< rxEcu.grant
      BY <1>1, <1>6 DEF OnBusInv, Fresh
    <3>1. CASE k \in 1..n
      BY <1>3, <1>6, <2>3, <2>5, <3>1 DEF OnBusInv
    <3>2. CASE k = n + 1
      <4>1. rxEcu.of = ex[c].req /\ ex[c].req # 0
        BY <1>3, <1>6, <3>2 DEF i
      <4>2. Bare(n)
        <5>1. k \in 0..(n + 1)
          BY <1>3, <3>2
        <5> QED BY <2>5, <3>2, <5>1
      <4>3. n < rxEcu.grant
        BY <1>1, <1>3, <2>3, <4>1, <4>2 DEF UnderWayInv
      <4> QED BY <1>3, <3>2, <4>1, <4>3, RxFields
    <3> QED BY <1>6, <3>1, <3>2
  <2>8. GrantReadInv(c)'
    <3>1. Fresh(i) => /\ NoCts(c)
                      /\ \A j, k \in 1..Len(queue[c]) :
                            Cts(queue[c][j]) /\ Cts(queue[c][k]) => j = k
      BY <1>1, <1>3, <2>3 DEF GrantReadInv, i
    <3> QED BY <1>1, <1>3, <1>5, <1>7, <3>1 DEF GrantReadInv, Fresh, NoCts
  <2>9. UnderWayInv(c)'
    <3> SUFFICES ASSUME rxEcu.of = i, Fresh(i)
                 PROVE  UnderWayInv(c)'
      BY <1>1, <1>5, <1>7 DEF UnderWayInv, Fresh
    <3>1. rxEcu.got \in Nat /\ rxEcu.grant \in Nat
      BY <1>3, RxFields
    <3>2. /\ \A k \in 1..n : Bare(k) => toEcu[k].type = "CF" /\ toEcu[k].of = i
          /\ \A k \in 0..n : Bare(k) =>
                /\ k = n => rxEcu.got + k = ex[c].sent
                /\ k < rxEcu.grant
                /\ k = n => k + Need(ex[c], ex[c].left) =< rxEcu.grant
      BY <1>1, <1>3, <2>3 DEF UnderWayInv, i
    <3>3. NoCts(c)
      BY <1>1, <1>3, <2>3 DEF GrantReadInv, i
    <3>4. \A k \in 1..(n + 1) : Bare(k)' => toEcu'[k].type = "CF" /\ toEcu'[k].of = i
      BY <1>3, <1>6, <2>5, <3>2
    <3>5. ASSUME NEW k \in 0..(n + 1), Bare(k)'
          PROVE  /\ k = n + 1 => rxEcu.got + k = x.sent
                 /\ x.phase = "block" =>
                       /\ k < rxEcu.grant
                       /\ k = n + 1 => k + Need(x, x.left) =< rxEcu.grant
                 /\ x.phase = "answer" =>
                       k < rxEcu.grant \/ rxEcu.got + k = Long(i)
      <4>1. CASE k \in 0..n
        <5>1. k < rxEcu.grant /\ k # n + 1
          BY <1>3, <2>5, <3>2, <3>5, <4>1
        <5> QED BY <5>1
      <4>2. CASE k = n + 1
        <5>1. Bare(n)
          BY <2>5, <3>5, <4>2
        <5>2. rxEcu.got + n = ex[c].sent /\ n + Need(ex[c], ex[c].left) =< rxEcu.grant
          BY <1>3, <3>2, <5>1
        <5>3. rxEcu.got + k = x.sent
          <6>1. x.sent = ex[c].sent + 1
            BY <1>5
          <6>2. n \in Nat /\ ex[c].sent \in Nat
            BY <1>3
          <6>3. rxEcu.got + (n + 1) = ex[c].sent + 1
            <7> DEFINE got == rxEcu.got
                       sent == ex[c].sent
            <7>1. got + n = sent /\ got \in Nat /\ n \in Nat /\ sent \in Nat
              BY <3>1, <5>2, <6>2
            <7> HIDE DEF got, sent, n
            <7>2. got + (n + 1) = sent + 1
              BY <7>1
            <7> QED BY <7>2 DEF got, sent
          <6> QED BY <4>2, <6>1, <6>3
        <5>4. CASE x.phase = "block"
          <6>1. Need(ex[c], ex[c].left) = Need(x, x.left) + 1
            BY <1>3, <1>4, <1>5, <5>4 DEF Need, i
          <6>2. Need(x, x.left) \in Nat /\ Need(x, x.left) > 0
            <7>1. /\ x.req = i /\ x.sent = ex[c].sent + 1 /\ x.sent # Long(i)
                  /\ ex[c].left # 1 /\ x.left = IF ex[c].left = 0 THEN 0 ELSE ex[c].left - 1
              BY <1>4, <1>5, <5>4
            <7>2. CASE ex[c].left = 0
              BY <1>3, <7>1, <7>2 DEF Need
            <7>3. CASE ex[c].left # 0
              <8>1. ex[c].left \in Nat
                BY <1>3
              <8>2. x.left = ex[c].left - 1
                BY <7>1, <7>3
              <8>3. x.left \in Nat /\ x.left > 0
                BY <7>1, <7>3, <8>1, <8>2
              <8>4. Need(x, x.left) = x.left
                BY <8>3 DEF Need
              <8> QED BY <8>3, <8>4, Zenon
            <7> QED BY <7>2, <7>3
          <6> DEFINE had == Need(ex[c], ex[c].left)
                     need == Need(x, x.left)
          <6>3. n + had =< rxEcu.grant /\ had = need + 1 /\ need \in Nat /\ need > 0
            BY <5>2, <6>1, <6>2
          <6> HIDE DEF had, need
          <6>4. n \in Nat /\ k < rxEcu.grant /\ k + need =< rxEcu.grant
            BY <1>3, <3>1, <4>2, <6>3
          <6> QED BY <5>3, <5>4, <6>4 DEF need
        <5>5. CASE x.phase = "answer"
          BY <1>5, <5>3, <5>5
        <5> QED BY <1>5, <5>3, <5>4, <5>5
      <4> QED BY <1>3, <4>1, <4>2
    <3>6. \A k \in 1..(n + 1) : Bare(k)' => toEcu'[k].type = "CF" /\ toEcu'[k].of = x.req
      BY <1>5, <3>4
    <3>7. NoCts(c)'
      BY <1>1, <3>3 DEF NoCts
    <3>8. ASSUME NEW k \in 0..(n + 1), Bare(k)'
          PROVE  /\ k = n + 1 => rxEcu'.got + k = x.sent
                 /\ x.phase = "block" =>
                       /\ k < rxEcu'.grant
                       /\ k = n + 1 => k + Need(x, x.left) =< rxEcu'.grant
                 /\ x.phase = "answer" =>
                       k < rxEcu'.grant \/ rxEcu'.got + k = Long(x.req)
      BY <1>1, <1>5, <3>5, <3>8
    <3>9. issued' = issued /\ Len(toEcu') = n + 1 /\ ex'[c] = x
      BY <1>1, <1>6, <1>7
    <3> HIDE DEF n
    <3> QED BY <3>6, <3>7, <3>8, <3>9 DEF UnderWayInv, NoCts, Need, Long, Svc
  <2> QED BY <2>2, <2>6, <2>7, <2>8, <2>9
<1> QED BY <1>1, <1>8, <1>9

\* An exchange begins: nobody has granted it anything.
LEMMA GrantNoneStep ==
    ASSUME AllInv, NEW c \in Client, NEW svc \in Service, NEW did \in Did,
           Begin(c, svc, did)
    PROVE  GrantInv'
<1> USE DEF AllInv, GrantInv
<1> DEFINE n == Len(toEcu)
           i == Len(issued) + 1
           e == [Idle EXCEPT !.req = i]
           x == IF RequestCFs[svc] = 0 THEN AwaitAnswer(e) ELSE AwaitFlowControl(e)
           f == ToEcu(c, IF RequestCFs[svc] = 0 THEN "SF" ELSE "FF", i)
           r == [client |-> c, svc |-> svc, did |-> did]
<1>1. /\ UNCHANGED <<queue, rxEcu, overrun, gaveUp>> /\ ex[c].phase = "idle"
      /\ toEcu' = Append(toEcu, f) /\ ex' = [ex EXCEPT ![c] = x]
      /\ issued' = Append(issued, r)
  BY DEF Begin, Send, history, LockFree
<1>2. /\ ex \in [Client -> Exchange] /\ toEcu \in Seq(FrameToEcu)
      /\ issued \in Seq(Request) /\ Len(issued) \in Nat /\ n \in Nat
      /\ \A m \in 1..n : toEcu[m].of \in Nat /\ toEcu[m].of =< Len(issued)
  BY Fields DEF UdsInv, TypeOK, BegunInv
<1>3. /\ x.req = i /\ x.sent = 0
      /\ RequestCFs[svc] = 0 => x.phase = "answer"
      /\ RequestCFs[svc] # 0 => x.phase = "fc"
  BY DEF AwaitAnswer, AwaitFlowControl, Idle
<1>4. /\ f.of = i
      /\ RequestCFs[svc] = 0 => f.type = "SF"
      /\ RequestCFs[svc] # 0 => f.type = "FF"
  BY DEF ToEcu
<1>5. r.svc = svc /\ r.client = c /\ RequestCFs[svc] \in Nat
  BY UdsAssumption DEF UdsAssumption
<1> HIDE DEF x, f, r
<1>6. /\ Len(toEcu') = n + 1 /\ toEcu'[n + 1] = f
      /\ \A m \in 1..n : toEcu'[m] = toEcu[m]
      /\ \A m \in 1..(n + 1) : m \in 1..n \/ m = n + 1
  BY <1>1, <1>2
<1>7. ex'[c] = x /\ \A d \in Client : d # c => ex'[d] = ex[d]
  BY <1>1, <1>2
<1>8. /\ Len(issued') = i /\ issued'[i] = r
      /\ \A s \in 1..Len(issued) : s \in 1..i /\ issued'[s] = issued[s]
  BY <1>1, <1>2
<1>9. /\ rxEcu.of \in Nat /\ rxEcu.of =< Len(issued)
      /\ \A d \in Client : ex[d].req \in 0..Len(issued) /\ (ex[d].req = 0 <=> ex[d].phase = "idle")
  BY Fields, RxFields DEF UdsInv, BegunInv
<1>10. LengthInv'
  <2>1. \A m \in 1..Len(toEcu') : toEcu'[m].type = "FF" =>
           RequestCFs[issued'[toEcu'[m].of].svc] > 0
    <3> SUFFICES ASSUME NEW m \in 1..(n + 1), toEcu'[m].type = "FF"
                 PROVE  RequestCFs[issued'[toEcu'[m].of].svc] > 0
      BY <1>6
    <3>1. CASE m \in 1..n
      <4>1. toEcu[m].type = "FF" /\ toEcu[m] \in FrameToEcu
        BY <1>2, <1>6, <3>1
      <4>2. toEcu[m].of # 0
        BY <4>1, FrameFields
      <4>3. toEcu[m].of \in 1..Len(issued)
        BY <1>2, <3>1, <4>2
      <4>4. RequestCFs[issued[toEcu[m].of].svc] > 0
        BY <3>1, <4>1 DEF LengthInv, Long, Svc
      <4> QED BY <1>6, <1>8, <3>1, <4>3, <4>4
    <3>2. CASE m = n + 1
      BY <1>4, <1>5, <1>6, <1>8, <3>2
    <3> QED BY <1>6, <3>1, <3>2
  <2>2. rxEcu'.of # 0 => rxEcu'.got < RequestCFs[issued'[rxEcu'.of].svc]
    <3>1. rxEcu.of # 0 => rxEcu.of \in 1..Len(issued)
      BY <1>2, <1>9
    <3> QED BY <1>1, <1>8, <3>1 DEF LengthInv, Long, Svc
  <2>3. ASSUME NEW d \in Client
        PROVE  /\ ex'[d].phase \in {"fc", "block"}
                     => ex'[d].sent < RequestCFs[issued'[ex'[d].req].svc]
               /\ ex'[d].phase = "answer"
                     => ex'[d].sent = RequestCFs[issued'[ex'[d].req].svc]
    <3>1. CASE d = c
      BY <1>3, <1>5, <1>7, <1>8, <3>1
    <3>2. CASE d # c
      <4>1. ex'[d] = ex[d] /\ (ex[d].phase # "idle" => ex[d].req \in 1..Len(issued))
        BY <1>2, <1>7, <1>9, <3>2
      <4> QED BY <1>8, <4>1 DEF LengthInv, Long, Svc
    <3> QED BY <3>1, <3>2
  <2> QED BY <2>1, <2>2, <2>3 DEF LengthInv, Long, Svc
<1>11. overrun' \subseteq 1..Len(issued') /\ gaveUp' \subseteq 1..Len(issued')
  BY <1>1, <1>8
<1>12. ASSUME NEW d \in Client, Alone(d)'
       PROVE  FirstFrameInv(d)' /\ OnBusInv' /\ GrantReadInv(d)' /\ UnderWayInv(d)'
  <2>1. \A s \in 1..i : issued'[s].client = d
    BY <1>8, <1>12 DEF Alone
  <2>2. d = c
    BY <1>2, <1>5, <1>8, <2>1
  <2>3. Alone(c)
    BY <1>8, <2>1, <2>2 DEF Alone
  <2>4. FirstFrameInv(c) /\ OnBusInv /\ GrantReadInv(c) /\ UnderWayInv(c)
    BY <2>3
  <2>5. ex[c].req = 0
    BY <1>1, <1>9
  <2>6. Fresh(i) => NoCts(c)
    BY <1>1, <1>2, <2>4, <2>5 DEF GrantReadInv
  <2>7. \A k \in 0..n : Bare(k)' => Bare(k)
    BY <1>2, <1>6 DEF Bare
  <2>8. FirstFrameInv(c)'
    <3> SUFFICES ASSUME NEW m \in 1..(n + 1), toEcu'[m].type = "FF",
                        \A q \in gaveUp' : toEcu'[m].of =< q
                 PROVE  /\ m < n + 1 => toEcu'[m + 1].type \in {"SF", "FF"}
                        /\ m = n + 1 => toEcu'[m].of = i
                        /\ x.req = toEcu'[m].of =>
                              x.phase = "fc" /\ x.sent = 0 /\ NoCts(c)'
      BY <1>6, <1>7, <1>8 DEF FirstFrameInv, Fresh
    <3>1. CASE m \in 1..n
      <4>1. toEcu'[m] = toEcu[m] /\ toEcu[m].of # i /\ Fresh(toEcu[m].of)
            /\ m # n + 1
        BY <1>1, <1>2, <1>6, <3>1 DEF Fresh
      <4>2. m < n => toEcu[m + 1].type \in {"SF", "FF"} /\ m + 1 \in 1..n
        BY <1>2, <2>4, <3>1, <4>1 DEF FirstFrameInv
      <4>3. m < n \/ m + 1 = n + 1
        BY <1>2, <3>1
      <4>4. toEcu'[m + 1].type \in {"SF", "FF"}
        BY <1>4, <1>6, <4>2, <4>3
      <4> QED BY <1>3, <4>1, <4>4
    <3>2. CASE m = n + 1
      <4>1. toEcu'[m].of = i /\ x.phase = "fc" /\ x.sent = 0
        BY <1>3, <1>4, <1>6, <3>2
      <4>2. Fresh(i)
        BY <1>1, <4>1 DEF Fresh
      <4>3. NoCts(c)'
        BY <1>1, <2>6, <4>2 DEF NoCts
      <4> QED BY <1>2, <3>2, <4>1, <4>3
    <3> QED BY <1>6, <3>1, <3>2
  <2>9. OnBusInv'
    <3> SUFFICES ASSUME rxEcu.of # 0, Fresh(rxEcu.of), NEW k \in 1..(n + 1), Bare(k)',
                        toEcu'[k].type = "CF", toEcu'[k].of = rxEcu.of
                 PROVE  k =< rxEcu.grant
      BY <1>1, <1>6 DEF OnBusInv, Fresh
    <3>1. k \in 1..n
      BY <1>4, <1>6
    <3> QED BY <1>2, <1>6, <2>4, <2>7, <3>1 DEF OnBusInv
  <2>10. GrantReadInv(c)'
    <3>1. ex'[c].req = i /\ i # 0
      BY <1>2, <1>3, <1>7
    <3>2. (\A q \in gaveUp' : i =< q) => NoCts(c)
      BY <1>1, <2>6 DEF Fresh
    <3> QED BY <1>1, <3>1, <3>2 DEF GrantReadInv, Fresh, NoCts
  <2>11. UnderWayInv(c)'
    <3>1. rxEcu'.of # ex'[c].req
      BY <1>1, <1>2, <1>3, <1>7, <1>9
    <3> QED BY <3>1 DEF UnderWayInv
  <2> QED BY <2>2, <2>8, <2>9, <2>10, <2>11
<1> QED BY <1>10, <1>11, <1>12

\* The ECU grants or refuses.
LEMMA GrantGivenStep ==
    ASSUME AllInv, NEW status \in {"CTS", "WAIT", "OVERFLOW"}, NEW bs \in Blocks,
           EcuFlowControl(status, bs)
    PROVE  GrantInv'
<1> USE DEF AllInv, GrantInv
<1> DEFINE f == [type |-> "FC", status |-> status, bs |-> bs]
           r == rxEcu.of
<1>1. /\ UNCHANGED <<issued, ex, toEcu, overrun, gaveUp>> /\ Deliver(f)
      /\ rxEcu # None /\ rxEcu.grant = 0
  BY DEF EcuFlowControl, tool, history
<1>2. f \in FrameToTool /\ f.type = "FC" /\ f.status = status /\ f.bs = bs /\ bs \in Nat
  BY UdsAssumption DEF FrameToTool, UdsAssumption
<1>3. /\ rxEcu \in [of : 1..MaxRequests, got : Nat, grant : Nat]
      /\ r \in 1..Len(issued) /\ rxEcu.got < Long(r) /\ Long(r) \in Nat /\ rxEcu.got \in Nat
      /\ Len(issued) \in Nat
  <2>1. rxEcu \in [of : 1..MaxRequests, got : Nat, grant : Nat]
    BY <1>1, RxFields
  <2>2. r # 0
    BY <2>1, Limits
  <2> QED BY <2>1, <2>2, RxFields, Fields DEF LengthInv, UdsInv
<1> HIDE DEF f
<1>4. \/ rxEcu'.of = 0
      \/ status = "WAIT" /\ rxEcu' = rxEcu
      \/ /\ status = "CTS" /\ rxEcu'.of = r /\ rxEcu'.got = rxEcu.got
         /\ rxEcu'.grant = IF bs = 0 THEN Long(r) ELSE bs
  <2>1. CASE status = "OVERFLOW"
    BY <2>1 DEF EcuFlowControl, None
  <2>2. CASE status = "WAIT"
    BY <2>2 DEF EcuFlowControl
  <2>3. CASE status = "CTS"
    <3> DEFINE w == IF bs = 0 THEN Long(r) ELSE bs
    <3>1. rxEcu' = [rxEcu EXCEPT !.grant = w]
      BY <2>3 DEF EcuFlowControl, Long
    <3> HIDE DEF w
    <3>2. rxEcu'.of = r /\ rxEcu'.got = rxEcu.got /\ rxEcu'.grant = w
      BY <1>3, <3>1
    <3> QED BY <2>3, <3>2 DEF w
  <2> QED BY <2>1, <2>2, <2>3
<1>5. LengthInv'
  BY <1>1, <1>4 DEF LengthInv, Long, Svc
<1>6. ASSUME NEW c \in Client, Alone(c)
      PROVE  FirstFrameInv(c)' /\ OnBusInv' /\ GrantReadInv(c)' /\ UnderWayInv(c)'
  <2>1. FirstFrameInv(c) /\ OnBusInv /\ GrantReadInv(c) /\ UnderWayInv(c)
    BY <1>6
  <2>2. /\ queue[c] \in Seq(FrameToTool) /\ Len(queue[c]) \in Nat
        /\ queue'[c] = queue[c] \/ queue'[c] = Append(queue[c], f)
        /\ ex[c].req \in 0..Len(issued) /\ (ex[c].req = 0 <=> ex[c].phase = "idle")
        /\ ex[c].phase \in {"idle", "fc", "block", "answer"} /\ ex[c].sent \in Nat
        /\ Len(toEcu) \in Nat
    BY <1>1, MoreFields, RxFields, Fields DEF Deliver, UdsInv
  \* As long as nothing went wrong, the request the ECU grants is the one that waits.
  <2>3. ASSUME NEW s \in Nat, s = (IF ex[c].req = 0 THEN Len(issued) + 1 ELSE ex[c].req),
               Fresh(s)
        PROVE  /\ ex[c].req = r /\ Fresh(r) /\ ex[c].phase = "fc" /\ NoCts(c)
               /\ toEcu # <<>> => ~Bare(1)
    <3>1. r = s
      BY <1>3, <1>6, <2>3, FreshIsPast
    <3>2. ex[c].req = r /\ ex[c].req # 0 /\ Fresh(r)
      BY <1>3, <2>3, <3>1
    <3>3. Bare(0) /\ 0 \in 0..Len(toEcu)
      BY <2>2 DEF Bare
    <3>4. /\ Len(toEcu) = 0 => rxEcu.got + 0 = ex[c].sent
          /\ ex[c].phase = "block" => 0 < rxEcu.grant
          /\ ex[c].phase = "answer" => 0 < rxEcu.grant \/ rxEcu.got + 0 = Long(ex[c].req)
      BY <2>1, <3>2, <3>3 DEF UnderWayInv
    <3>5. ex[c].phase = "fc"
      BY <1>1, <1>3, <2>2, <3>2, <3>4
    <3>6. ASSUME toEcu # <<>>, Bare(1) PROVE FALSE
      <4>1. 1 \in 1..Len(toEcu)
        BY <2>2, <3>6, Fields DEF UdsInv, TypeOK
      <4>2. toEcu[1].type = "CF" /\ toEcu[1].of = r
        BY <2>1, <3>2, <3>6, <4>1 DEF UnderWayInv
      <4>3. 1 =< rxEcu.grant
        BY <2>1, <3>2, <3>6, <4>1, <4>2 DEF OnBusInv
      <4> QED BY <1>1, <4>3
    <3>7. ASSUME NEW j \in 1..Len(queue[c]), Cts(queue[c][j]) PROVE FALSE
      <4>1. Need(ex[c], queue[c][j].bs) =< rxEcu.grant
        BY <2>1, <3>2, <3>7 DEF UnderWayInv
      <4>2. queue[c][j] \in FrameToTool
        BY <3>7, MoreFields
      <4>3. queue[c][j].bs \in Nat
        BY <3>7, <4>2, UdsAssumption DEF FrameToTool, UdsAssumption, Cts
      <4>4. ex[c].sent < Long(ex[c].req) /\ Long(ex[c].req) \in Nat
        BY <1>3, <3>2, <3>5 DEF LengthInv
      <4>5. 0 < Need(ex[c], queue[c][j].bs)
        BY <2>2, <4>3, <4>4 DEF Need
      <4>6. Need(ex[c], queue[c][j].bs) \in Nat
        BY <2>2, <4>3, <4>4 DEF Need
      <4> QED BY <1>1, <4>1, <4>5, <4>6
    <3> QED BY <3>2, <3>5, <3>6, <3>7 DEF NoCts
  <2>4. \A k \in 1..Len(queue'[c]) :
           \/ k \in 1..Len(queue[c]) /\ queue'[c][k] = queue[c][k]
           \/ k = Len(queue[c]) + 1 /\ queue'[c][k] = f
    BY <2>2
  <2>5. FirstFrameInv(c)'
    <3>1. ASSUME NEW m \in 1..Len(toEcu), toEcu[m].type = "FF", Fresh(toEcu[m].of),
                 ex[c].req = toEcu[m].of
          PROVE  FALSE
      <4>1. toEcu[m] \in FrameToEcu
        BY <3>1, Fields DEF UdsInv
      <4>2. toEcu[m].of \in Nat /\ toEcu[m].of # 0
        BY <3>1, <4>1, FrameFields, Limits
      <4>3. r = toEcu[m].of
        BY <1>3, <2>3, <3>1, <4>2
      <4>4. r < toEcu[m].of
        BY <3>1, <4>2 DEF AnswersInv, ServedInOrder, Starts
      <4> QED BY <1>3, <4>3, <4>4
    <3> QED BY <1>1, <2>1, <3>1 DEF FirstFrameInv, Fresh
  <2>6. OnBusInv'
    <3> SUFFICES ASSUME rxEcu'.of # 0, Fresh(r), NEW k \in 1..Len(toEcu), Bare(k),
                        toEcu[k].type = "CF", toEcu[k].of = r
                 PROVE  k =< rxEcu'.grant
      BY <1>1, <1>4 DEF OnBusInv, Fresh, Bare
    <3>1. k =< rxEcu.grant
      BY <1>3, <2>1 DEF OnBusInv
    <3> QED BY <1>1, <3>1
  <2>7. GrantReadInv(c)'
    <3> SUFFICES ASSUME NEW s \in Nat, Fresh(s),
                        s = IF ex[c].req = 0 THEN Len(issued) + 1 ELSE ex[c].req
                 PROVE  /\ ex[c].phase # "fc" => NoCts(c)'
                        /\ \A j, k \in 1..Len(queue'[c]) :
                              Cts(queue'[c][j]) /\ Cts(queue'[c][k]) => j = k
      BY <1>1 DEF GrantReadInv, Fresh
    <3> QED BY <2>3, <2>4 DEF NoCts
  <2>8. UnderWayInv(c)'
    <3> SUFFICES ASSUME ex[c].req # 0, rxEcu'.of = ex[c].req, Fresh(ex[c].req)
                 PROVE  UnderWayInv(c)'
      BY <1>1 DEF UnderWayInv, Fresh
    <3>1. /\ ex[c].req = r /\ Fresh(r) /\ ex[c].phase = "fc" /\ NoCts(c)
          /\ toEcu # <<>> => ~Bare(1)
      BY <1>3, <2>2, <2>3
    <3>2. \A k \in 1..Len(toEcu) : Bare(k) => toEcu[k].type = "CF" /\ toEcu[k].of = r
      BY <2>1, <3>1 DEF UnderWayInv
    <3>3. \A k \in 0..Len(toEcu) : Bare(k) => (k = Len(toEcu) => rxEcu.got + k = ex[c].sent)
      BY <1>3, <2>1, <3>1 DEF UnderWayInv
    <3>4. rxEcu'.got = rxEcu.got
      BY <1>4, <3>1, <1>3
    <3>5. ASSUME NEW j \in 1..Len(queue'[c]), Cts(queue'[c][j])
          PROVE  Need(ex[c], queue'[c][j].bs) =< rxEcu'.grant
      <4>1. queue'[c][j] = f /\ status = "CTS"
        BY <1>2, <2>4, <3>1, <3>5 DEF NoCts, Cts
      <4>2. rxEcu'.grant = IF bs = 0 THEN Long(r) ELSE bs
        BY <1>3, <1>4, <3>1, <4>1
      <4>3. queue'[c][j].bs = bs
        BY <1>2, <4>1
      <4> QED BY <1>2, <1>3, <2>2, <3>1, <4>2, <4>3 DEF Need
    <3> QED BY <1>1, <3>1, <3>2, <3>3, <3>4, <3>5
            DEF UnderWayInv, Need, Long, Svc, Bare
  <2> QED BY <2>5, <2>6, <2>7, <2>8
<1>7. \A c \in Client : Alone(c)' => Alone(c)
  BY <1>1 DEF Alone
<1> QED BY <1>1, <1>5, <1>6, <1>7

-----------------------------------------------------------------------------
(* The ECU takes a frame from the bus.                                     *)

LEMMA TakenFrame ==
    ASSUME UdsInv, EcuTakes
    PROVE  /\ Len(toEcu) \in Nat /\ Len(toEcu') \in Nat /\ Len(toEcu) = Len(toEcu') + 1
           /\ toEcu # <<>> /\ 1 \in 1..Len(toEcu) /\ toEcu[1] \in FrameToEcu
           /\ \A m \in 1..Len(toEcu') :
                 m + 1 \in 1..Len(toEcu) /\ toEcu'[m] = toEcu[m + 1]
           /\ UNCHANGED <<issued, ex, queue, gaveUp>>
           /\ \/ rxEcu'.of = 0
              \/ /\ toEcu[1].type = "FF" /\ rxEcu'.of = toEcu[1].of
                 /\ rxEcu'.got = 0 /\ rxEcu'.grant = 0
              \/ /\ toEcu[1].type = "CF" /\ rxEcu.of = toEcu[1].of /\ rxEcu.of # 0
                 /\ rxEcu.got + 1 # Long(rxEcu.of) /\ rxEcu'.of = rxEcu.of
                 /\ rxEcu'.got = rxEcu.got + 1
                 /\ rxEcu'.grant = IF rxEcu.grant = 0 THEN 0 ELSE rxEcu.grant - 1
              \/ /\ rxEcu' = rxEcu /\ toEcu[1].type \in {"CF", "FC"}
                 /\ toEcu[1].type = "CF" => toEcu[1].of # rxEcu.of
           /\ \/ overrun' = overrun
              \/ /\ toEcu[1].type = "CF" /\ rxEcu.of = toEcu[1].of /\ rxEcu.of # 0
                 /\ rxEcu.grant = 0 /\ overrun' = overrun \cup {rxEcu.of}
<1>1. /\ toEcu # <<>> /\ toEcu' = Tail(toEcu) /\ toEcu \in Seq(FrameToEcu)
      /\ Head(toEcu) = toEcu[1] /\ UNCHANGED <<issued, ex, queue, gaveUp>>
  BY DEF EcuTakes, UdsInv, TypeOK, tool
<1>2. /\ Len(toEcu) \in Nat /\ Len(toEcu') \in Nat /\ Len(toEcu) = Len(toEcu') + 1
      /\ 1 \in 1..Len(toEcu) /\ toEcu[1] \in FrameToEcu
      /\ \A m \in 1..Len(toEcu') :
            m + 1 \in 1..Len(toEcu) /\ toEcu'[m] = toEcu[m + 1]
  BY <1>1
<1> DEFINE f == toEcu[1]
<1>3. /\ f.type \in {"SF", "FF", "CF", "FC"} /\ f.of \in Nat
      /\ f.type \in {"FF", "CF"} => f.of # 0
  BY <1>2, FrameFields, Limits
<1>4. /\ None.of = 0 /\ rxEcu.of \in Nat /\ (rxEcu # None <=> rxEcu.of # 0)
      /\ rxEcu # None => rxEcu \in [of : 1..MaxRequests, got : Nat, grant : Nat]
  BY RxFields, Fields DEF UdsInv, None
<1> DEFINE own == rxEcu # None /\ rxEcu.of = f.of
           w == IF rxEcu.grant = 0 THEN 0 ELSE rxEcu.grant - 1
           t == rxEcu.got + 1
<1>5. \/ f.type = "SF" /\ rxEcu' = None /\ overrun' = overrun
      \/ /\ f.type = "FF" /\ overrun' = overrun
         /\ rxEcu' = [of |-> f.of, got |-> 0, grant |-> 0]
      \/ /\ f.type = "CF" /\ own /\ rxEcu' = None
         /\ overrun' = IF rxEcu.grant = 0 THEN overrun \cup {f.of} ELSE overrun
      \/ /\ f.type = "CF" /\ own /\ t # Long(f.of)
         /\ rxEcu' = [rxEcu EXCEPT !.got = t, !.grant = w]
         /\ overrun' = IF rxEcu.grant = 0 THEN overrun \cup {f.of} ELSE overrun
      \/ f.type = "CF" /\ ~own /\ rxEcu' = rxEcu /\ overrun' = overrun
      \/ f.type = "FC" /\ rxEcu' = rxEcu /\ overrun' = overrun
  BY <1>1 DEF EcuTakes, Long
<1>6. ASSUME own, rxEcu' = [rxEcu EXCEPT !.got = t, !.grant = w]
      PROVE  rxEcu'.of = rxEcu.of /\ rxEcu'.got = t /\ rxEcu'.grant = w
  <2>1. rxEcu \in [of : 1..MaxRequests, got : Nat, grant : Nat]
    BY <1>4, <1>6
  <2> HIDE DEF t, w
  <2> QED BY <2>1, <1>6
<1>7. rxEcu' = [of |-> f.of, got |-> 0, grant |-> 0]
         => rxEcu'.of = f.of /\ rxEcu'.got = 0 /\ rxEcu'.grant = 0
  OBVIOUS
<1>8. \/ rxEcu'.of = 0
      \/ /\ f.type = "FF" /\ rxEcu'.of = f.of
         /\ rxEcu'.got = 0 /\ rxEcu'.grant = 0
      \/ /\ f.type = "CF" /\ rxEcu.of = f.of /\ rxEcu.of # 0
         /\ t # Long(rxEcu.of) /\ rxEcu'.of = rxEcu.of
         /\ rxEcu'.got = t /\ rxEcu'.grant = w
      \/ /\ rxEcu' = rxEcu /\ f.type \in {"CF", "FC"}
         /\ f.type = "CF" => f.of # rxEcu.of
  <2> HIDE DEF f, t, w
  <2> QED BY <1>3, <1>4, <1>5, <1>6, <1>7
<1>9. \/ overrun' = overrun
      \/ /\ f.type = "CF" /\ rxEcu.of = f.of /\ rxEcu.of # 0
         /\ rxEcu.grant = 0 /\ overrun' = overrun \cup {rxEcu.of}
  <2> HIDE DEF f, t, w
  <2> QED BY <1>4, <1>5
<1> QED BY <1>1, <1>2, <1>8, <1>9

LEMMA GrantTakenStep ==
    ASSUME AllInv, EcuTakes
    PROVE  GrantInv'
<1> USE DEF AllInv, GrantInv
<1> DEFINE n == Len(toEcu')
           g == toEcu[1]
           Drops == rxEcu'.of = 0
           Opens == /\ g.type = "FF" /\ rxEcu'.of = g.of
                    /\ rxEcu'.got = 0 /\ rxEcu'.grant = 0
           Adds == /\ g.type = "CF" /\ rxEcu.of = g.of /\ rxEcu.of # 0
                   /\ rxEcu.got + 1 # Long(rxEcu.of) /\ rxEcu'.of = rxEcu.of
                   /\ rxEcu'.got = rxEcu.got + 1
                   /\ rxEcu'.grant = IF rxEcu.grant = 0 THEN 0 ELSE rxEcu.grant - 1
           Ignores == /\ rxEcu' = rxEcu /\ g.type \in {"CF", "FC"}
                      /\ g.type = "CF" => g.of # rxEcu.of
<1>1. /\ Len(toEcu) \in Nat /\ n \in Nat /\ Len(toEcu) = n + 1
      /\ toEcu # <<>> /\ 1 \in 1..Len(toEcu)
      /\ \A m \in 1..n : m + 1 \in 1..Len(toEcu) /\ toEcu'[m] = toEcu[m + 1]
      /\ UNCHANGED <<issued, ex, queue, gaveUp>>
  BY TakenFrame
<1>2. Drops \/ Opens \/ Adds \/ Ignores
  BY TakenFrame
<1>3. overrun' = overrun \/ (rxEcu.of # 0 /\ overrun' = overrun \cup {rxEcu.of})
  BY TakenFrame
<1>4. /\ rxEcu.of \in Nat /\ Len(issued) \in Nat
      /\ rxEcu.of # 0 => /\ rxEcu.of \in 1..Len(issued)
                         /\ rxEcu.got \in Nat /\ rxEcu.grant \in Nat
                         /\ Long(rxEcu.of) \in Nat /\ rxEcu.got < Long(rxEcu.of)
  BY RxFields, Fields DEF UdsInv, LengthInv
<1> HIDE DEF Drops, Opens, Adds, Ignores
<1>5. LengthInv'
  <2>1. \A m \in 1..n : toEcu'[m].type = "FF" => Long(toEcu'[m].of) > 0
    BY <1>1 DEF LengthInv
  <2>2. rxEcu'.of # 0 => rxEcu'.got < Long(rxEcu'.of)
    <3>1. CASE Drops
      BY <3>1 DEF Drops
    <3>2. CASE Opens
      <4>1. Long(g.of) > 0
        BY <1>1, <3>2 DEF LengthInv, Opens
      <4> QED BY <3>2, <4>1, <1>1, FrameFields, TakenFrame DEF Opens
    <3>3. CASE Adds
      BY <1>4, <3>3 DEF Adds
    <3>4. CASE Ignores
      BY <1>4, <3>4 DEF Ignores
    <3> QED BY <1>2, <3>1, <3>2, <3>3, <3>4
  <2> QED BY <1>1, <2>1, <2>2 DEF LengthInv, Long, Svc
<1>6. overrun' \subseteq 1..Len(issued') /\ gaveUp' \subseteq 1..Len(issued')
  BY <1>1, <1>3, <1>4
<1>7. ASSUME NEW c \in Client, Alone(c)
      PROVE  FirstFrameInv(c)' /\ OnBusInv' /\ GrantReadInv(c)' /\ UnderWayInv(c)'
  <2>1. FirstFrameInv(c) /\ OnBusInv /\ GrantReadInv(c) /\ UnderWayInv(c)
    BY <1>7
  <2>2. \A k \in 0..n : Bare(k)' /\ g.type \notin {"SF", "FF"} =>
           k + 1 \in 1..Len(toEcu) /\ Bare(k + 1)
    <3> SUFFICES ASSUME NEW k \in 0..n, Bare(k)', g.type \notin {"SF", "FF"},
                        NEW j \in 1..(k + 1)
                 PROVE  toEcu[j].type \notin {"SF", "FF"}
      BY <1>1 DEF Bare
    <3>1. CASE j = 1
      BY <3>1
    <3>2. CASE j # 1
      <4>1. j - 1 \in 1..k /\ j - 1 \in 1..n /\ (j - 1) + 1 = j
        BY <1>1, <3>2
      <4> QED BY <1>1, <4>1 DEF Bare
    <3> QED BY <3>1, <3>2
  <2>3. ASSUME Opens, Fresh(g.of), NEW k \in 1..n, Bare(k)' PROVE FALSE
    <3>1. 1 < Len(toEcu) /\ 1 \in 1..n
      BY <1>1, <2>3
    <3>2. toEcu[1 + 1].type \in {"SF", "FF"}
      BY <1>1, <2>1, <2>3, <3>1 DEF FirstFrameInv, Opens
    <3>3. toEcu'[1].type \in {"SF", "FF"}
      BY <1>1, <3>1, <3>2
    <3> QED BY <1>1, <2>3, <3>3 DEF Bare
  <2>4. FirstFrameInv(c)'
    <3> SUFFICES ASSUME NEW m \in 1..n, toEcu'[m].type = "FF", Fresh(toEcu'[m].of)
                 PROVE  /\ m < n => toEcu'[m + 1].type \in {"SF", "FF"}
                        /\ m = n => toEcu'[m].of = Len(issued)
                        /\ ex[c].req = toEcu'[m].of =>
                              ex[c].phase = "fc" /\ ex[c].sent = 0 /\ NoCts(c)
      BY <1>1 DEF FirstFrameInv, Fresh, NoCts
    <3>1. m + 1 \in 1..Len(toEcu) /\ toEcu'[m] = toEcu[m + 1]
      BY <1>1
    <3>2. m < n => m + 1 < Len(toEcu) /\ toEcu'[m + 1] = toEcu[(m + 1) + 1]
      BY <1>1
    <3>3. m = n => m + 1 = Len(toEcu)
      BY <1>1
    <3> QED BY <2>1, <3>1, <3>2, <3>3 DEF FirstFrameInv
  <2>5. OnBusInv'
    <3> SUFFICES ASSUME rxEcu'.of # 0, Fresh(rxEcu'.of), NEW k \in 1..n, Bare(k)',
                        toEcu'[k].type = "CF", toEcu'[k].of = rxEcu'.of
                 PROVE  k =< rxEcu'.grant
      BY <1>1 DEF OnBusInv, Fresh
    <3>1. CASE Opens
      BY <2>3, <3>1 DEF Opens
    <3>2. CASE Adds \/ Ignores
      <4>1. rxEcu'.of = rxEcu.of /\ g.type \notin {"SF", "FF"}
        BY <3>2 DEF Adds, Ignores
      <4>2. /\ k + 1 \in 1..Len(toEcu) /\ Bare(k + 1)
            /\ toEcu[k + 1].type = "CF" /\ toEcu[k + 1].of = rxEcu.of
        BY <1>1, <2>2, <4>1
      <4>3. k + 1 =< rxEcu.grant
        BY <2>1, <4>1, <4>2 DEF OnBusInv
      <4>4. rxEcu'.grant = rxEcu.grant \/ (rxEcu.grant # 0 /\ rxEcu'.grant = rxEcu.grant - 1)
        BY <1>4, <3>2, <4>1, <4>3 DEF Adds, Ignores
      <4>5. rxEcu.grant \in Nat
        BY <1>4, <4>1
      <4> QED BY <4>3, <4>4, <4>5
    <3> QED BY <1>2, <3>1, <3>2 DEF Drops
  <2>6. GrantReadInv(c)'
    BY <1>1, <2>1 DEF GrantReadInv, Fresh, NoCts
  <2>7. UnderWayInv(c)'
    <3> SUFFICES ASSUME ex[c].req # 0, rxEcu'.of = ex[c].req, Fresh(ex[c].req)
                 PROVE  UnderWayInv(c)'
      BY <1>1 DEF UnderWayInv, Fresh
    <3>1. CASE Opens
      <4>1. /\ ex[c].phase = "fc" /\ ex[c].sent = 0 /\ NoCts(c)
            /\ rxEcu'.got = 0 /\ \A k \in 1..n : ~Bare(k)'
        BY <1>1, <2>1, <2>3, <3>1 DEF FirstFrameInv, Opens
      <4>2. \A k \in 0..n : Bare(k)' => (k = n => rxEcu'.got + k = ex[c].sent)
        <5>1. \A k \in 0..n : k \in 1..n \/ k = 0
          BY <1>1
        <5> QED BY <4>1, <5>1
      <4> QED BY <1>1, <4>1, <4>2 DEF UnderWayInv, NoCts
    <3>2. CASE Ignores
      <4>1. Bare(1) /\ rxEcu.of = ex[c].req /\ ~(g.type = "CF" /\ g.of = ex[c].req)
        BY <3>2 DEF Ignores, Bare
      <4> QED BY <1>1, <2>1, <4>1 DEF UnderWayInv
    <3>3. CASE Adds
      <4>1. /\ Bare(1) /\ rxEcu.of = ex[c].req /\ g.type = "CF" /\ g.of = rxEcu.of
            /\ rxEcu.got \in Nat /\ rxEcu.grant \in Nat
            /\ rxEcu'.got = rxEcu.got + 1
        BY <1>4, <3>3 DEF Adds, Bare
      <4>2. 1 =< rxEcu.grant /\ rxEcu'.grant = rxEcu.grant - 1
        <5>1. 1 =< rxEcu.grant
          BY <1>1, <2>1, <4>1 DEF OnBusInv
        <5> QED BY <3>3, <4>1, <5>1 DEF Adds
      <4>3. NoCts(c)
        BY <1>1, <2>1, <4>1 DEF UnderWayInv, NoCts
      <4>4. \A k \in 0..n : Bare(k)' => k + 1 \in 1..Len(toEcu) /\ Bare(k + 1)
        BY <2>2, <4>1
      <4>5. \A k \in 1..n : Bare(k)' => toEcu'[k].type = "CF" /\ toEcu'[k].of = ex[c].req
        BY <1>1, <2>1, <4>1, <4>4 DEF UnderWayInv
      <4>6. ASSUME NEW k \in 0..n, Bare(k)'
            PROVE  /\ k = n => rxEcu'.got + k = ex[c].sent
                   /\ ex[c].phase = "block" =>
                         /\ k < rxEcu'.grant
                         /\ k = n => k + Need(ex[c], ex[c].left) =< rxEcu'.grant
                   /\ ex[c].phase = "answer" =>
                         k < rxEcu'.grant \/ rxEcu'.got + k = Long(ex[c].req)
        <5>1. k + 1 \in 0..Len(toEcu) /\ Bare(k + 1) /\ (k = n => k + 1 = Len(toEcu))
          BY <1>1, <4>4, <4>6
        <5>2. /\ k = n => rxEcu.got + (k + 1) = ex[c].sent
              /\ ex[c].phase = "block" =>
                    /\ k + 1 < rxEcu.grant
                    /\ k = n => (k + 1) + Need(ex[c], ex[c].left) =< rxEcu.grant
              /\ ex[c].phase = "answer" =>
                    k + 1 < rxEcu.grant \/ rxEcu.got + (k + 1) = Long(ex[c].req)
          BY <2>1, <4>1, <5>1 DEF UnderWayInv
        <5>3. ex[c].phase = "block" => Need(ex[c], ex[c].left) \in Nat
          <6>1. /\ ex[c].left \in Nat /\ ex[c].sent \in Nat /\ Long(ex[c].req) \in Nat
                /\ ex[c].phase = "block" => ex[c].sent < Long(ex[c].req)
            BY <1>4, <4>1, RxFields DEF LengthInv
          <6> QED BY <6>1 DEF Need
        <5>4. k \in Nat
          BY <1>1
        <5>5. k = n => rxEcu'.got + k = ex[c].sent
          BY <4>1, <5>2, <5>4
        <5>6. k + 1 < rxEcu.grant => k < rxEcu'.grant
          BY <4>1, <4>2, <5>4
        <5>7. ex[c].phase = "block" /\ k = n => k + Need(ex[c], ex[c].left) =< rxEcu'.grant
          <6> DEFINE need == Need(ex[c], ex[c].left)
          <6>1. ex[c].phase = "block" /\ k = n => need \in Nat /\ (k + 1) + need =< rxEcu.grant
            BY <5>2, <5>3
          <6> HIDE DEF need
          <6>2. ex[c].phase = "block" /\ k = n => k + need =< rxEcu'.grant
            BY <4>1, <4>2, <5>4, <6>1
          <6> QED BY <6>2 DEF need
        <5>8. rxEcu.got + (k + 1) = rxEcu'.got + k
          BY <4>1, <5>4
        <5> QED BY <5>2, <5>5, <5>6, <5>7, <5>8
      <4> QED BY <1>1, <4>3, <4>5, <4>6 DEF UnderWayInv, NoCts, Need, Long, Svc
    <3> QED BY <1>2, <3>1, <3>2, <3>3 DEF Drops
  <2> QED BY <2>4, <2>5, <2>6, <2>7
<1>8. \A c \in Client : Alone(c)' => Alone(c)
  BY <1>1 DEF Alone
<1> QED BY <1>5, <1>6, <1>7, <1>8
-----------------------------------------------------------------------------
(* Every step keeps the grants.                                            *)

LEMMA GrantInit == Init => GrantInv /\ GrantsKept
<1> SUFFICES ASSUME Init PROVE GrantInv /\ GrantsKept
  OBVIOUS
<1>1. /\ issued = <<>> /\ toEcu = <<>> /\ rxEcu.of = 0 /\ gaveUp = {} /\ overrun = {}
      /\ \A c \in Client : ex[c] = Idle /\ queue[c] = <<>>
  BY DEF Init, None
<1>2. LengthInv
  BY <1>1, IdleType DEF LengthInv
<1>3. ASSUME NEW c \in Client
      PROVE  FirstFrameInv(c) /\ OnBusInv /\ GrantReadInv(c) /\ UnderWayInv(c)
  BY <1>1, IdleType DEF FirstFrameInv, OnBusInv, GrantReadInv, UnderWayInv, NoCts
<1> QED BY <1>1, <1>2, <1>3 DEF GrantInv, GrantsKept

LEMMA GrantStep ==
    ASSUME AllInv, [Next]_vars
    PROVE  GrantInv'
<1>1. CASE UNCHANGED vars
  BY <1>1, EcuAnswersIsPassive, PassiveStep
<1>2. CASE Tick
  BY <1>2, TickIsPassive, PassiveStep
<1>3. ASSUME NEW c \in Client, Runs(c) PROVE GrantInv'
  <2>1. CASE TakeFlowControl(c)
    <3>1. CASE Cts(Head(queue[c]))
      BY <2>1, <3>1, GrantReadStep
    <3>2. CASE ~Cts(Head(queue[c]))
      BY <2>1, <3>2, ReadIsPassive, PassiveStep
    <3> QED BY <3>1, <3>2
  <2>2. CASE SendConsecutiveFrame(c)
    BY <2>2, GrantUsedStep
  <2>3. CASE Expires(c)
    BY <2>3, RaisingIsPassive, PassiveStep
  <2>4. CASE TakeAnswer(c)
    BY <2>4, AnswerIsPassive, PassiveStep
  <2> QED BY <1>3, <2>1, <2>2, <2>3, <2>4 DEF Runs
<1>4. ASSUME NEW c \in Client, Refused(c) \/ FlowControlRefused(c) PROVE GrantInv'
  BY <1>4, RaisingIsPassive, PassiveStep
<1>5. ASSUME NEW c \in Client, KeepAlive(c) PROVE GrantInv'
  BY <1>5, KeepAliveIsPassive, PassiveStep
<1>6. ASSUME NEW c \in Client, NEW svc \in Service, NEW did \in Did, Begin(c, svc, did)
      PROVE  GrantInv'
  BY <1>6, GrantNoneStep
<1>7. CASE Ecu
  <2>1. CASE EcuTakes
    BY <2>1, GrantTakenStep
  <2>2. CASE EcuContinues \/ EcuBreaksOff
    BY <2>2, EcuAnswersIsPassive, PassiveStep
  <2>3. CASE \E status \in {"CTS", "WAIT", "OVERFLOW"}, bs \in Blocks :
                EcuFlowControl(status, bs)
    BY <2>3, GrantGivenStep
  <2>4. CASE \E kind \in {"positive", "negative", "pending"} : EcuAnswers(kind)
    BY <2>4, EcuAnswersIsPassive, PassiveStep DEF Kind
  <2> QED BY <1>7, <2>1, <2>2, <2>3, <2>4 DEF Ecu
<1> QED BY <1>1, <1>2, <1>3, <1>4, <1>5, <1>6, <1>7 DEF Next

\* Only a Consecutive Frame that the ECU takes is one it had not granted.
LEMMA OverrunOnlyTaken ==
    ASSUME [Next]_vars
    PROVE  EcuTakes \/ overrun' = overrun
<1>1. UNCHANGED vars \/ Tick => overrun' = overrun
  BY DEF Tick, vars, history
<1>2. ASSUME NEW c \in Client,
             \/ Runs(c) \/ Refused(c) \/ FlowControlRefused(c) \/ KeepAlive(c)
             \/ \E svc \in Service, did \in Did : Begin(c, svc, did)
      PROVE  overrun' = overrun
  BY <1>2 DEF Runs, TakeFlowControl, SendConsecutiveFrame, Expires, TakeAnswer, Refused,
              FlowControlRefused, KeepAlive, Begin, history
<1>3. Ecu => EcuTakes \/ overrun' = overrun
  BY DEF Ecu, EcuContinues, EcuBreaksOff, EcuFlowControl, EcuAnswers, history
<1> QED BY <1>1, <1>2, <1>3 DEF Next

\* gaveUp only grows.
LEMMA GaveUpGrows ==
    ASSUME [Next]_vars
    PROVE  gaveUp \subseteq gaveUp'
<1>1. UNCHANGED vars \/ Tick => gaveUp' = gaveUp
  BY DEF Tick, vars, history
<1>2. ASSUME NEW c \in Client,
             \/ Runs(c) \/ Refused(c) \/ FlowControlRefused(c) \/ KeepAlive(c)
             \/ \E svc \in Service, did \in Did : Begin(c, svc, did)
      PROVE  gaveUp \subseteq gaveUp'
  BY <1>2 DEF Runs, TakeFlowControl, SendConsecutiveFrame, Expires, TakeAnswer, Complete,
              Refused, FlowControlRefused, KeepAlive, Begin, Raises, history
<1>3. Ecu => gaveUp' = gaveUp
  BY DEF Ecu, EcuTakes, EcuContinues, EcuBreaksOff, EcuFlowControl, EcuAnswers, history
<1> QED BY <1>1, <1>2, <1>3 DEF Next

LEMMA GrantsKeptStep ==
    ASSUME AllInv, GrantsKept, [Next]_vars
    PROVE  GrantsKept'
<1>1. /\ Len(issued) \in Nat /\ Len(issued') \in Nat /\ Len(issued) =< Len(issued')
      /\ \A s \in 1..Len(issued) : s \in 1..Len(issued') /\ issued'[s] = issued[s]
  BY IssuedStays DEF AllInv
<1>2. gaveUp \subseteq gaveUp' /\ overrun \subseteq 1..Len(issued)
  BY GaveUpGrows DEF AllInv, GrantInv
<1>3. ASSUME NEW r \in overrun
      PROVE  \/ \E q \in gaveUp' : q < r
             \/ \E q \in 1..Len(issued') : issued'[q].client # issued'[r].client
  BY <1>1, <1>2 DEF GrantsKept
<1>4. ASSUME NEW r \in overrun', r \notin overrun
      PROVE  \/ \E q \in gaveUp' : q < r
             \/ \E q \in 1..Len(issued') : issued'[q].client # issued'[r].client
  <2>1. EcuTakes
    BY <1>4, OverrunOnlyTaken
  <2>2. /\ toEcu[1].type = "CF" /\ toEcu[1].of = r /\ rxEcu.of = r /\ r # 0
        /\ rxEcu.grant = 0 /\ 1 \in 1..Len(toEcu)
        /\ UNCHANGED <<issued, gaveUp>>
    BY <1>4, <2>1, TakenFrame DEF AllInv
  <2>3. r \in 1..Len(issued) /\ gaveUp \subseteq 1..Len(issued)
    BY <2>2, RxFields DEF AllInv, GrantInv
  <2> DEFINE c == issued[r].client
  <2>4. c \in Client
    BY <2>3, MoreFields DEF AllInv, UdsInv, Request
  <2>5. CASE Alone(c) /\ Fresh(r)
    <3>1. OnBusInv /\ Bare(1)
      BY <2>2, <2>4, <2>5 DEF AllInv, GrantInv, Bare
    <3>2. 1 =< rxEcu.grant
      BY <2>2, <2>5, <3>1 DEF OnBusInv
    <3> QED BY <2>2, <3>2
  <2>6. CASE ~Alone(c)
    BY <2>2, <2>6 DEF Alone
  <2>7. CASE ~Fresh(r)
    BY <1>1, <2>2, <2>3, <2>7 DEF Fresh
  <2> QED BY <2>5, <2>6, <2>7
<1> QED BY <1>3, <1>4 DEF GrantsKept
-----------------------------------------------------------------------------
\* For any clients and limits: while a client sends a request, nothing else the
\* client sends, the keep-alive included, makes the ECU drop it
\* (client.py: _operation_lock is held from the First Frame to the answer).
THEOREM NotCutOff == Spec => []RequestsNotCutOff
<1>1. UdsInv => RequestsNotCutOff
  BY DEF UdsInv
<1> QED BY <1>1, UdsInit, UdsStep, PTL DEF Spec

\* For any clients, services and limits: an exchange takes the answer to another
\* request of its client only when that one is overdue, that is, when an earlier
\* request of the client had ended without an answer to one of its own
\* (client.py: the echo check lets an old answer of the same service pass).
THEOREM AnswersAreOwnOrOverdue == Spec => []OnlyOverdueAnswers
<1>1. UdsInv /\ AnswersInv /\ OnlyOverdueAnswers /\ [Next]_vars
        => (UdsInv /\ AnswersInv /\ OnlyOverdueAnswers)'
  BY UdsStep, AnswersStep, OverdueStep
<1> QED BY <1>1, UdsInit, AnswersInit, PTL DEF Spec

\* For any clients, services and block sizes: a client sends no Consecutive Frame
\* that the ECU has not granted, unless an earlier exchange gave up or another
\* client uses the ECU too, and has left a Flow Control in the queue
\* (isotp.py: the wait takes the first Flow Control it finds in the queue).
THEOREM FramesAreGranted == Spec => []GrantsKept
<1>1. AllInv /\ GrantsKept /\ [Next]_vars => (AllInv /\ GrantsKept)'
  BY UdsStep, AnswersStep, OverdueStep, GrantStep, GrantsKeptStep DEF AllInv
<1>2. Init => AllInv /\ GrantsKept
  BY UdsInit, AnswersInit, GrantInit DEF AllInv
<1> QED BY <1>1, <1>2, PTL DEF Spec
=============================================================================
