------------------------- MODULE AddressClaimProofs -------------------------
(***************************************************************************)
(* Proofs about AddressClaim for any number of nodes and addresses: a      *)
(* window confirms only its own claim, and no two nodes go on using one    *)
(* address with nothing under way that would tell them.                    *)
(***************************************************************************)
EXTENDS AddressClaim, TLAPS

\* A frame for address a that n has sent is still on its way to m.
OnWay(n, m, a) ==
    \/ reply[n] = Claim(n, a)
    \/ sending[n] = Claim(n, a)
    \/ \E i \in DOMAIN inbox[m] : inbox[m][i] = Claim(n, a)

PairInv ==
    \A n, m \in Node, a \in Addr :
        n # m /\ Uses(n, a) /\ Uses(m, a) =>
            OnWay(n, m, a) \/ OnWay(m, n, a) \/ a \in unheard

\* A callback of the present generation waits only after its timer expired.
WindowInv == \A n \in Node : "current" \in queued[n] => ~armed[n]

ClaimInv == TypeOK /\ PairInv /\ WindowInv
-----------------------------------------------------------------------------
LEMMA ClaimInit == Init => ClaimInv
<1> SUFFICES ASSUME Init PROVE ClaimInv
  OBVIOUS
<1>1. TypeOK
  BY AddressAssumption DEF Init, TypeOK
<1>2. PairInv /\ WindowInv
  BY DEF Init, PairInv, WindowInv, Uses
<1> QED BY <1>1, <1>2 DEF ClaimInv

\* What was on its way and is not taken stays on its way.
LEMMA Broadcasted ==
    ASSUME TypeOK, NEW n \in Node, NEW f \in Frame, Broadcast(n, f)
    PROVE  /\ inbox' \in [Node -> Seq(Frame)]
           /\ \A m \in Node \ {n} : \E i \in DOMAIN inbox'[m] : inbox'[m][i] = f
           /\ \A m \in Node, g \in Frame :
                 (\E i \in DOMAIN inbox[m] : inbox[m][i] = g)
                     => \E i \in DOMAIN inbox'[m] : inbox'[m][i] = g
<1>1. inbox' \in [Node -> Seq(Frame)]
  BY DEF Broadcast, TypeOK
<1>2. ASSUME NEW m \in Node \ {n} PROVE \E i \in DOMAIN inbox'[m] : inbox'[m][i] = f
  <2>1. inbox'[m] = Append(inbox[m], f) /\ inbox[m] \in Seq(Frame)
    BY DEF Broadcast, TypeOK
  <2>2. Len(inbox[m]) + 1 \in DOMAIN inbox'[m] /\ inbox'[m][Len(inbox[m]) + 1] = f
    BY <2>1
  <2> QED BY <2>2
<1>3. ASSUME NEW m \in Node, NEW g \in Frame, NEW i \in DOMAIN inbox[m], inbox[m][i] = g
      PROVE  \E j \in DOMAIN inbox'[m] : inbox'[m][j] = g
  <2>1. inbox[m] \in Seq(Frame)
    BY DEF TypeOK
  <2>2. inbox'[m] = inbox[m] \/ inbox'[m] = Append(inbox[m], f)
    BY DEF Broadcast, TypeOK
  <2>3. i \in DOMAIN inbox'[m] /\ inbox'[m][i] = g
    BY <1>3, <2>1, <2>2
  <2> QED BY <2>3
<1> QED BY <1>1, <1>2, <1>3

\* The RX thread takes the first frame: any other is still there.
LEMMA Taken ==
    ASSUME NEW q \in Seq(Frame), q # <<>>, NEW g, NEW i \in DOMAIN q, q[i] = g,
           g # Head(q)
    PROVE  \E j \in DOMAIN Tail(q) : Tail(q)[j] = g
<1>1. i # 1 /\ i \in 1..Len(q)
  OBVIOUS
<1>2. i - 1 \in DOMAIN Tail(q) /\ Tail(q)[i - 1] = g
  BY <1>1
<1> QED BY <1>2

LEMMA FrameFields == \A f \in Frame : f.sa \in Addr \cup {Null} /\ f.name \in Node
BY DEF Frame

LEMMA ClaimIsFrame == \A n \in Node, a \in Addr \cup {Null} : Claim(n, a) \in Frame
BY DEF Claim, Frame

\* The limits are naturals.
LEMMA Limits == RateLimit \in Nat /\ MaxEvents \in Nat /\ MaxLosses \in Nat
BY AddressAssumption DEF AddressAssumption

LEMMA Counted ==
    ASSUME TypeOK
    PROVE  /\ events < MaxEvents => events + 1 \in 0..MaxEvents
           /\ losses < MaxLosses => losses + 1 \in 0..MaxLosses
BY Limits DEF TypeOK

Callbacks == SUBSET {"current", "stale"}

LEMMA Updated ==
    ASSUME NEW S, NEW T, NEW f \in [S -> T], NEW x \in S, NEW v \in T
    PROVE  [f EXCEPT ![x] = v] \in [S -> T]
OBVIOUS

\* What the timer operations leave is well typed.
LEMMA TimerType ==
    ASSUME TypeOK, NEW n \in Node, ArmTimer(n) \/ CancelTimer(n)
    PROVE  armed' \in [Node -> BOOLEAN] /\ queued' \in [Node -> Callbacks]
<1>1. Outdated(queued[n]) \in Callbacks
  BY DEF Outdated, Callbacks
<1>2. queued' = [queued EXCEPT ![n] = Outdated(queued[n])]
  BY DEF ArmTimer, CancelTimer
<1>3. queued \in [Node -> Callbacks]
  BY DEF TypeOK, Callbacks
<1>4. queued' \in [Node -> Callbacks]
  BY <1>1, <1>2, <1>3, Updated
<1> QED BY <1>4 DEF ArmTimer, CancelTimer, TypeOK

LEMMA ClaimType == TypeOK /\ [Next]_vars => TypeOK'
<1> SUFFICES ASSUME TypeOK, [Next]_vars PROVE TypeOK'
  OBVIOUS
<1> USE DEF TypeOK, Callbacks
<1>1. CASE UNCHANGED vars
  BY <1>1 DEF vars, engine, bounds
<1>2. CASE Next
  <2> SUFFICES ASSUME NEW n \in Node,
         \/ Transmitted(n) \/ TransmissionFailed(n) \/ TimerExpires(n)
         \/ \E g \in {"current", "stale"} : Callback(n, g)
         \/ Receive(n) \/ RequestFrame(n) \/ Answer(n) \/ AnswerRejected(n)
         \/ \E a \in Addr : Start(n, a) \/ CommandedAddress(n, a)
         \/ \E a \in Addr \cup {Null} : RateWindowPasses(n, a)
         \/ \E a \in Fallback : EntryExpires(n, a)
       PROVE TypeOK'
    BY <1>2 DEF Next
  <2>1. CASE Transmitted(n)
    <3>1. inbox' \in [Node -> Seq(Frame)]
      BY <2>1, Broadcasted DEF Transmitted
    <3>2. queued' \in [Node -> SUBSET {"current", "stale"}] /\ armed' \in [Node -> BOOLEAN]
      BY <2>1, TimerType DEF Transmitted
    <3> QED BY <2>1, <3>1, <3>2 DEF Transmitted, bounds
  <2>2. CASE TransmissionFailed(n)
    <3>1. state' \in [Node -> {"UNINITIALIZED", "CLAIMING", "CLAIMED", "CANNOT_CLAIM"}]
      BY <2>2 DEF TransmissionFailed
    <3>2. unheard' \in SUBSET (Addr \cup {Null})
      BY <2>2, FrameFields DEF TransmissionFailed
    <3>3. queued' \in [Node -> SUBSET {"current", "stale"}] /\ armed' \in [Node -> BOOLEAN]
      BY <2>2, TimerType DEF TransmissionFailed
    <3>4. losses' \in 0..MaxLosses /\ sending' \in [Node -> Frame \cup {NoFrame}]
      BY <2>2, Counted, Updated DEF TransmissionFailed
    <3> QED BY <2>2, <3>1, <3>2, <3>3, <3>4 DEF TransmissionFailed
  <2>3. CASE TimerExpires(n)
    BY <2>3 DEF TimerExpires, bounds
  <2>4. CASE \E g \in {"current", "stale"} : Callback(n, g)
    <3>1. state' \in [Node -> {"UNINITIALIZED", "CLAIMING", "CLAIMED", "CANNOT_CLAIM"}]
      BY <2>4 DEF Callback, Finalize
    <3>2. queued' \in [Node -> SUBSET {"current", "stale"}]
      BY <2>4 DEF Callback
    <3> QED BY <2>4, <3>1, <3>2 DEF Callback, bounds
  <2>5. CASE Receive(n)
    <3>0. inbox[n] \in Seq(Frame) /\ inbox[n] # <<>>
      BY <2>5 DEF Receive
    <3> DEFINE f == Head(inbox[n])
    <3>1. f \in Frame /\ Tail(inbox[n]) \in Seq(Frame)
      BY <3>0
    <3>2. inbox' \in [Node -> Seq(Frame)] /\ UNCHANGED <<sending, events, losses>>
      BY <2>5, <3>1 DEF Receive, bounds
    <3> HIDE DEF f
    <3>3. CASE RateLimited(n, f)
      BY <3>1, <3>2, <3>3, FrameFields DEF RateLimited, engine
    <3>4. CASE Recorded(n, f)
      <4>1. table' \in [Node -> SUBSET Fallback] /\ rate' \in [Node -> [Addr \cup {Null} -> 0..RateLimit]]
            /\ unheard' = unheard
        <5>1. f.sa \in Addr \cup {Null}
          BY <3>1, FrameFields
        <5>2. /\ rate' = [rate EXCEPT ![n] = [rate[n] EXCEPT ![f.sa] = rate[n][f.sa] + 1]]
              /\ table' = [table EXCEPT ![n] = table[n] \cup ({f.sa} \cap Fallback)]
              /\ rate[n][f.sa] < RateLimit /\ unheard' = unheard
          BY <3>4 DEF Recorded
        <5>3. rate[n][f.sa] + 1 \in 0..RateLimit
          BY <5>1, <5>2, Limits
        <5>4. [rate[n] EXCEPT ![f.sa] = rate[n][f.sa] + 1] \in [Addr \cup {Null} -> 0..RateLimit]
          BY <5>1, <5>3, Updated
        <5>5. table[n] \cup ({f.sa} \cap Fallback) \in SUBSET Fallback
          OBVIOUS
        <5> QED BY <5>2, <5>4, <5>5, Updated
      <4>2. CASE NotContended(n, f)
        BY <3>2, <4>1, <4>2 DEF NotContended, engine
      <4>3. CASE Defend(n, f)
        BY <3>2, <4>1, <4>3, ClaimIsFrame, TimerType DEF Defend
      <4>4. CASE FallBack(n, f)
        <5>1. PICK a \in Addr : Adopt(n, a, "CLAIMING") /\ reply' = [reply EXCEPT ![n] = Claim(n, a)]
          BY <4>4, AddressAssumption DEF FallBack, Free, AddressAssumption
        <5>2. state' \in [Node -> {"UNINITIALIZED", "CLAIMING", "CLAIMED", "CANNOT_CLAIM"}]
              /\ cur' \in [Node -> Addr \cup {Null}]
          BY <5>1, Updated DEF Adopt
        <5>3. reply' \in [Node -> Frame \cup {NoFrame}]
          BY <5>1, ClaimIsFrame, Updated
        <5> QED BY <3>2, <4>1, <4>4, <5>2, <5>3, TimerType DEF FallBack
      <4>5. CASE CannotClaim(n, f)
        BY <3>2, <4>1, <4>5, ClaimIsFrame, TimerType DEF CannotClaim, Adopt
      <4> QED BY <3>4, <4>2, <4>3, <4>4, <4>5 DEF Recorded
    <3> QED BY <2>5, <3>3, <3>4 DEF Receive, f
  <2>6. CASE RequestFrame(n)
    <3>1. Claim(n, cur[n]) \in Frame /\ Claim(n, Null) \in Frame
      BY ClaimIsFrame
    <3>2. reply' \in [Node -> Frame \cup {NoFrame}]
      <4>1. \/ reply' = reply
            \/ reply' = [reply EXCEPT ![n] = Claim(n, cur[n])]
            \/ reply' = [reply EXCEPT ![n] = Claim(n, Null)]
        BY <2>6 DEF RequestFrame
      <4>2. CASE reply' = [reply EXCEPT ![n] = Claim(n, cur[n])]
        BY <3>1, <4>2
      <4>3. CASE reply' = [reply EXCEPT ![n] = Claim(n, Null)]
        BY <3>1, <4>3
      <4> QED BY <4>1, <4>2, <4>3
    <3> QED BY <2>6, <3>2, Counted DEF RequestFrame, engine
  <2>7. CASE Answer(n)
    <3>1. inbox' \in [Node -> Seq(Frame)]
      BY <2>7, Broadcasted DEF Answer
    <3> QED BY <2>7, <3>1 DEF Answer, engine, bounds
  <2>8. CASE AnswerRejected(n)
    <3>1. losses' \in 0..MaxLosses /\ reply' \in [Node -> Frame \cup {NoFrame}]
      BY <2>8, Counted, Updated DEF AnswerRejected
    <3>2. unheard' \in SUBSET (Addr \cup {Null})
      BY <2>8, FrameFields DEF AnswerRejected
    <3> QED BY <2>8, <3>1, <3>2 DEF AnswerRejected, engine
  <2>9. ASSUME NEW a \in Addr, Start(n, a) \/ CommandedAddress(n, a) PROVE TypeOK'
    <3>1. state' \in [Node -> {"UNINITIALIZED", "CLAIMING", "CLAIMED", "CANNOT_CLAIM"}]
          /\ cur' \in [Node -> Addr \cup {Null}] /\ pref' \in [Node -> Addr]
      <4>1. /\ state' = [state EXCEPT ![n] = "CLAIMING"]
            /\ cur' = [cur EXCEPT ![n] = a] /\ pref' = [pref EXCEPT ![n] = a]
        BY <2>9 DEF Start, CommandedAddress, Adopt
      <4> QED BY <4>1
    <3>2. events' \in 0..MaxEvents
      BY <2>9, Counted DEF Start, CommandedAddress
    <3>3. /\ sending' \in [Node -> Frame \cup {NoFrame}]
          /\ reply' \in [Node -> Frame \cup {NoFrame}]
      <4>1. Claim(n, a) \in Frame
        BY ClaimIsFrame
      <4>2. \/ sending' = [sending EXCEPT ![n] = Claim(n, a)] /\ reply' = reply
            \/ reply' = [reply EXCEPT ![n] = Claim(n, a)] /\ sending' = sending
        BY <2>9 DEF Start, CommandedAddress
      <4>3. CASE sending' = [sending EXCEPT ![n] = Claim(n, a)] /\ reply' = reply
        BY <4>1, <4>3
      <4>4. CASE reply' = [reply EXCEPT ![n] = Claim(n, a)] /\ sending' = sending
        BY <4>1, <4>4
      <4> QED BY <4>2, <4>3, <4>4
    <3>4. armed' \in [Node -> BOOLEAN] /\ queued' \in [Node -> Callbacks]
      BY <2>9, TimerType DEF Start, CommandedAddress
    <3> QED BY <2>9, <3>1, <3>2, <3>3, <3>4 DEF Start, CommandedAddress
  <2>10. ASSUME NEW a \in Addr \cup {Null}, RateWindowPasses(n, a) PROVE TypeOK'
    <3>1. rate' \in [Node -> [Addr \cup {Null} -> 0..RateLimit]]
      <4>1. [rate[n] EXCEPT ![a] = 0] \in [Addr \cup {Null} -> 0..RateLimit]
        BY <2>10, Limits, Updated
      <4>2. rate' = [rate EXCEPT ![n] = [rate[n] EXCEPT ![a] = 0]]
        BY <2>10 DEF RateWindowPasses
      <4> QED BY <4>1, <4>2, Updated
    <3> QED BY <2>10, <3>1 DEF RateWindowPasses, engine, bounds
  <2>11. ASSUME NEW a \in Fallback, EntryExpires(n, a) PROVE TypeOK'
    <3>1. table' \in [Node -> SUBSET Fallback]
      <4>1. table[n] \ {a} \in SUBSET Fallback /\ table' = [table EXCEPT ![n] = table[n] \ {a}]
        BY <2>11 DEF EntryExpires
      <4> QED BY <4>1, Updated
    <3> QED BY <2>11, <3>1 DEF EntryExpires, engine, bounds
  <2> QED BY <2>1, <2>2, <2>3, <2>4, <2>5, <2>6, <2>7, <2>8, <2>9, <2>10, <2>11
<1> QED BY <1>1, <1>2

LEMMA WindowStep == TypeOK /\ WindowInv /\ [Next]_vars => WindowInv'
<1> SUFFICES ASSUME TypeOK, WindowInv, [Next]_vars PROVE WindowInv'
  OBVIOUS
<1>1. CASE UNCHANGED <<armed, queued>>
  BY <1>1 DEF WindowInv
<1>2. ASSUME NEW n \in Node, ArmTimer(n) PROVE WindowInv'
  BY <1>2 DEF ArmTimer, Outdated, WindowInv, TypeOK
<1>3. ASSUME NEW n \in Node, CancelTimer(n) PROVE WindowInv'
  BY <1>3 DEF CancelTimer, Outdated, WindowInv, TypeOK
<1>4. ASSUME NEW n \in Node, TimerExpires(n) PROVE WindowInv'
  BY <1>4 DEF TimerExpires, WindowInv, TypeOK
<1>5. ASSUME NEW n \in Node, NEW g, Callback(n, g) PROVE WindowInv'
  BY <1>5 DEF Callback, WindowInv, TypeOK
<1> QED
  BY <1>1, <1>2, <1>3, <1>4, <1>5
  DEF vars, engine, Next, Transmitted, TransmissionFailed, Receive, RateLimited,
      Recorded, NotContended, Defend, FallBack, CannotClaim, RequestFrame, Answer,
      AnswerRejected, Start, CommandedAddress, RateWindowPasses, EntryExpires

\* Nobody starts to use an address, and no frame gets off its way.
LEMMA PairKept ==
    ASSUME PairInv,
           \A n \in Node, a \in Addr : Uses(n, a)' => Uses(n, a),
           \A n, m \in Node, a \in Addr : n # m /\ OnWay(n, m, a) => OnWay(n, m, a)' \/ a \in unheard',
           unheard \subseteq unheard'
    PROVE  PairInv'
BY DEF PairInv

\* Node n announces the only address it may have begun to use.
LEMMA PairAnnounced ==
    ASSUME PairInv, NEW n \in Node, NEW b,
           reply'[n] = Claim(n, b) \/ sending'[n] = Claim(n, b),
           \A a \in Addr : Uses(n, a)' => Uses(n, a) \/ a = b,
           \A m \in Node \ {n}, a \in Addr : Uses(m, a)' => Uses(m, a),
           \A m, k \in Node, a \in Addr : m # k /\ OnWay(m, k, a) => OnWay(m, k, a)' \/ a \in unheard',
           unheard \subseteq unheard'
    PROVE  PairInv'
<1> SUFFICES ASSUME NEW m \in Node, NEW k \in Node, NEW a \in Addr, m # k,
                    Uses(m, a)', Uses(k, a)'
             PROVE  OnWay(m, k, a)' \/ OnWay(k, m, a)' \/ a \in unheard'
  BY DEF PairInv
<1>1. CASE Uses(m, a) /\ Uses(k, a)
  BY <1>1 DEF PairInv
<1>2. CASE ~Uses(m, a)
  <2>1. m = n /\ a = b
    BY <1>2
  <2> QED BY <2>1 DEF OnWay
<1>3. CASE ~Uses(k, a)
  <2>1. k = n /\ a = b
    BY <1>3
  <2> QED BY <2>1 DEF OnWay
<1> QED BY <1>1, <1>2, <1>3

\* Taking a frame off inbox[n] removes at most its head from somebody's way.
LEMMA OthersOnWay ==
    ASSUME TypeOK, NEW n \in Node, inbox[n] # <<>>,
           inbox' = [inbox EXCEPT ![n] = Tail(inbox[n])], sending' = sending,
           reply[n] = NoFrame, \A m \in Node \ {n} : reply'[m] = reply[m],
           NEW m \in Node, NEW k \in Node, NEW a \in Addr, OnWay(m, k, a),
           ~(k = n /\ Head(inbox[n]) = Claim(m, a))
    PROVE  OnWay(m, k, a)'
<1>1. CASE reply[m] = Claim(m, a)
  <2>1. m # n
    BY <1>1, ClaimIsFrame, FrameAssumption
  <2> QED BY <1>1, <2>1 DEF OnWay
<1>2. CASE sending[m] = Claim(m, a)
  BY <1>2 DEF OnWay
<1>3. CASE \E i \in DOMAIN inbox[k] : inbox[k][i] = Claim(m, a)
  <2>1. CASE k # n
    <3>1. inbox'[k] = inbox[k]
      BY <2>1 DEF TypeOK
    <3> QED BY <1>3, <3>1 DEF OnWay
  <2>2. CASE k = n
    <3>1. inbox[n] \in Seq(Frame) /\ inbox'[n] = Tail(inbox[n])
      BY DEF TypeOK
    <3>2. \E j \in DOMAIN Tail(inbox[n]) : Tail(inbox[n])[j] = Claim(m, a)
      BY <1>3, <2>2, <3>1, Taken
    <3> QED BY <2>2, <3>1, <3>2 DEF OnWay
  <2> QED BY <2>1, <2>2
<1> QED BY <1>1, <1>2, <1>3 DEF OnWay

LEMMA PairReceive ==
    ASSUME ClaimInv, NEW n \in Node, Receive(n)
    PROVE  PairInv'
<1> DEFINE f == Head(inbox[n])
<1>0. /\ TypeOK /\ PairInv /\ inbox[n] # <<>> /\ reply[n] = NoFrame
      /\ inbox' = [inbox EXCEPT ![n] = Tail(inbox[n])] /\ sending' = sending
      /\ \A m \in Node \ {n} : reply'[m] = reply[m]
      /\ unheard \subseteq unheard'
      /\ RateLimited(n, f) \/ Recorded(n, f)
  <2>1. /\ TypeOK /\ PairInv /\ inbox[n] # <<>> /\ reply[n] = NoFrame
        /\ inbox' = [inbox EXCEPT ![n] = Tail(inbox[n])] /\ sending' = sending
        /\ RateLimited(n, f) \/ Recorded(n, f)
    BY DEF ClaimInv, Receive
  <2>2. CASE RateLimited(n, f)
    BY <2>1, <2>2 DEF RateLimited
  <2>3. CASE Recorded(n, f)
    <3>1. /\ unheard' = unheard
          /\ NotContended(n, f) \/ Defend(n, f) \/ FallBack(n, f) \/ CannotClaim(n, f)
      BY <2>3 DEF Recorded
    <3>2. \A m \in Node \ {n} : reply'[m] = reply[m]
      BY <3>1 DEF NotContended, Defend, FallBack, CannotClaim, ClaimInv, TypeOK
    <3> QED BY <2>1, <3>1, <3>2
  <2> QED BY <2>1, <2>2, <2>3
<1>2. ASSUME NEW m \in Node, NEW k \in Node, NEW a \in Addr, OnWay(m, k, a)
      PROVE  OnWay(m, k, a)' \/ (k = n /\ f = Claim(m, a))
  BY <1>0, <1>2, OthersOnWay
<1> HIDE DEF f
<1>4. CASE RateLimited(n, f)
  <2>1. \A m \in Node, a \in Addr : f = Claim(m, a) => a \in unheard'
    BY <1>4 DEF RateLimited, Claim
  <2>2. \A m \in Node, a \in Addr : Uses(m, a)' => Uses(m, a)
    BY <1>4 DEF RateLimited, engine, Uses
  <2> QED BY <1>0, <1>2, <2>1, <2>2, PairKept
<1>5. CASE Recorded(n, f)
  <2>1. CASE NotContended(n, f)
    <3>1. UNCHANGED <<state, cur>>
      BY <2>1 DEF NotContended, engine
    <3>2. \A m \in Node, a \in Addr : f = Claim(m, a) => ~Uses(n, a)
      BY <2>1, AddressAssumption DEF NotContended, Contended, Claim, Uses, AddressAssumption
    <3> SUFFICES ASSUME NEW m \in Node, NEW k \in Node, NEW a \in Addr, m # k,
                        Uses(m, a)', Uses(k, a)'
                 PROVE  OnWay(m, k, a)' \/ OnWay(k, m, a)' \/ a \in unheard'
      BY DEF PairInv
    <3>3. Uses(m, a) /\ Uses(k, a)
      BY <3>1 DEF Uses
    <3>4. OnWay(m, k, a) \/ OnWay(k, m, a) \/ a \in unheard
      BY <1>0, <3>3 DEF PairInv
    <3> QED BY <1>0, <1>2, <3>2, <3>3, <3>4
  <2>2. CASE Defend(n, f)
    <3>1. UNCHANGED <<state, cur>> /\ reply'[n] = Claim(n, cur[n]) /\ f.sa = cur[n]
      BY <1>0, <2>2 DEF Defend, Contended, TypeOK
    <3> SUFFICES ASSUME NEW m \in Node, NEW k \in Node, NEW a \in Addr, m # k,
                        Uses(m, a)', Uses(k, a)'
                 PROVE  OnWay(m, k, a)' \/ OnWay(k, m, a)' \/ a \in unheard'
      BY DEF PairInv
    <3>2. Uses(m, a) /\ Uses(k, a)
      BY <3>1 DEF Uses
    <3>3. OnWay(m, k, a) \/ OnWay(k, m, a) \/ a \in unheard
      BY <1>0, <3>2 DEF PairInv
    <3>4. \A l \in {m, k} : l = n => OnWay(n, IF m = n THEN k ELSE m, a)'
      BY <3>1, <3>2 DEF OnWay, Uses
    <3>5. CASE m = n
      BY <3>4, <3>5
    <3>6. CASE k = n
      BY <3>4, <3>6
    <3>7. CASE m # n /\ k # n
      BY <1>0, <1>2, <3>3, <3>7
    <3> QED BY <3>5, <3>6, <3>7
  <2>3. CASE FallBack(n, f)
    <3>1. PICK b \in Addr : /\ Adopt(n, b, "CLAIMING") /\ b # cur[n]
                            /\ reply' = [reply EXCEPT ![n] = Claim(n, b)]
      <4>1. PICK b \in Free(n) : /\ Adopt(n, b, "CLAIMING")
                                /\ reply' = [reply EXCEPT ![n] = Claim(n, b)]
        BY <2>3 DEF FallBack
      <4>2. b \in Fallback /\ b \notin table'[n]
        BY <4>1 DEF Free
      <4>3. f.sa = cur[n] /\ table'[n] = table[n] \cup ({f.sa} \cap Fallback)
        BY <1>0, <1>5, <2>3 DEF FallBack, Contended, Recorded, TypeOK
      <4> QED BY <4>1, <4>2, <4>3, AddressAssumption DEF AddressAssumption
    <3>2. reply'[n] = Claim(n, b)
      BY <1>0, <3>1 DEF TypeOK
    <3>3. \A a \in Addr : Uses(n, a)' => a = b
      BY <1>0, <3>1 DEF Adopt, Uses, TypeOK
    <3>4. \A m \in Node \ {n}, a \in Addr : Uses(m, a)' => Uses(m, a)
      BY <1>0, <3>1 DEF Adopt, Uses, TypeOK
    <3> SUFFICES ASSUME NEW m \in Node, NEW k \in Node, NEW a \in Addr, m # k,
                        Uses(m, a)', Uses(k, a)'
                 PROVE  OnWay(m, k, a)' \/ OnWay(k, m, a)' \/ a \in unheard'
      BY DEF PairInv
    <3>5. CASE m = n \/ k = n
      BY <3>2, <3>3, <3>5 DEF OnWay
    <3>6. CASE m # n /\ k # n
      BY <1>0, <1>2, <3>4, <3>6 DEF PairInv
    <3> QED BY <3>5, <3>6
  <2>4. CASE CannotClaim(n, f)
    <3>1. \A a \in Addr : ~Uses(n, a)'
      BY <1>0, <2>4, AddressAssumption DEF CannotClaim, Adopt, Uses, TypeOK, AddressAssumption
    <3>2. \A m \in Node \ {n}, a \in Addr : Uses(m, a)' => Uses(m, a)
      BY <1>0, <2>4 DEF CannotClaim, Adopt, Uses, TypeOK
    <3> QED BY <1>0, <1>2, <3>1, <3>2 DEF PairInv
  <2> QED BY <1>5, <2>1, <2>2, <2>3, <2>4 DEF Recorded
<1> QED BY <1>0, <1>4, <1>5

\* Transmitting moves a frame from its sender to the way of all the others.
LEMMA PairBroadcast ==
    ASSUME ClaimInv, NEW n \in Node, Transmitted(n) \/ Answer(n)
    PROVE  PairInv'
<1>1. TypeOK /\ PairInv
  BY DEF ClaimInv
<1>2. UNCHANGED <<state, cur, unheard>>
  BY DEF Transmitted, Answer, engine
<1>3. PICK f \in Frame :
         /\ Broadcast(n, f)
         /\ \A m \in Node \ {n} : reply'[m] = reply[m] /\ sending'[m] = sending[m]
         /\ reply'[n] = reply[n] \/ reply[n] = f
         /\ sending'[n] = sending[n] \/ sending[n] = f
  BY <1>1 DEF Transmitted, Answer, TypeOK
<1>4. ASSUME NEW m \in Node, NEW k \in Node, NEW a \in Addr, m # k, OnWay(m, k, a)
      PROVE  OnWay(m, k, a)'
  <2>1. Claim(m, a) \in Frame
    BY ClaimIsFrame
  <2>2. /\ k # n => \E i \in DOMAIN inbox'[k] : inbox'[k][i] = f
        /\ (\E i \in DOMAIN inbox[k] : inbox[k][i] = Claim(m, a))
              => \E i \in DOMAIN inbox'[k] : inbox'[k][i] = Claim(m, a)
    BY <1>1, <1>3, <2>1, Broadcasted
  <2>3. CASE m # n
    BY <1>3, <1>4, <2>2, <2>3 DEF OnWay
  <2>4. CASE m = n
    BY <1>3, <1>4, <2>2, <2>4 DEF OnWay
  <2> QED BY <2>3, <2>4
<1> QED BY <1>1, <1>2, <1>4, PairKept DEF Uses

LEMMA PairStep == ClaimInv /\ [Next]_vars => PairInv'
<1> SUFFICES ASSUME ClaimInv, [Next]_vars PROVE PairInv'
  OBVIOUS
<1>0. TypeOK /\ PairInv
  BY DEF ClaimInv
<1>1. CASE UNCHANGED <<state, cur, inbox, reply, sending, unheard>>
  BY <1>0, <1>1 DEF PairInv, Uses, OnWay
<1>2. ASSUME NEW n \in Node, Start(n, cur'[n]) \/ CommandedAddress(n, cur'[n])
      PROVE  PairInv'
  <2> DEFINE b == cur'[n]
  <2>1. reply'[n] = Claim(n, b) \/ sending'[n] = Claim(n, b)
    BY <1>0, <1>2 DEF Start, CommandedAddress, TypeOK
  <2>2. /\ \A a \in Addr : Uses(n, a)' => a = b
        /\ \A m \in Node \ {n}, a \in Addr : Uses(m, a)' => Uses(m, a)
    BY <1>0, <1>2 DEF Start, CommandedAddress, Adopt, Uses, TypeOK
  <2>3. inbox' = inbox /\ unheard' = unheard
    BY <1>2 DEF Start, CommandedAddress
  <2>4. \A m \in Node : /\ reply[m] # NoFrame => reply'[m] = reply[m]
                        /\ sending[m] # NoFrame => sending'[m] = sending[m]
    BY <1>0, <1>2 DEF Start, CommandedAddress, TypeOK
  <2>5. \A m, k \in Node, a \in Addr : m # k /\ OnWay(m, k, a) => OnWay(m, k, a)'
    BY <2>3, <2>4, ClaimIsFrame, FrameAssumption DEF OnWay
  <2> QED BY <1>0, <2>1, <2>2, <2>3, <2>5, PairAnnounced
<1>3. ASSUME NEW n \in Node, TransmissionFailed(n) \/ AnswerRejected(n)
      PROVE  PairInv'
  <2>1. \A m \in Node, a \in Addr : Uses(m, a)' => Uses(m, a)
    BY <1>0, <1>3 DEF TransmissionFailed, AnswerRejected, engine, Uses, TypeOK
  <2>2. inbox' = inbox /\ unheard \subseteq unheard'
    BY <1>3 DEF TransmissionFailed, AnswerRejected
  <2>3. \A m \in Node : /\ reply'[m] = reply[m] \/ reply[m].sa \in unheard'
                        /\ sending'[m] = sending[m] \/ sending[m].sa \in unheard'
    BY <1>0, <1>3 DEF TransmissionFailed, AnswerRejected, TypeOK
  <2>4. \A m \in Node, a \in Addr : Claim(m, a).sa = a
    BY DEF Claim
  <2>5. \A m, k \in Node, a \in Addr : OnWay(m, k, a) => OnWay(m, k, a)' \/ a \in unheard'
    BY <2>2, <2>3, <2>4 DEF OnWay
  <2> QED BY <1>0, <2>1, <2>2, <2>5, PairKept
<1>4. ASSUME NEW n \in Node, NEW g, Callback(n, g) PROVE PairInv'
  <2>1. \A m \in Node, a \in Addr : Uses(m, a)' => Uses(m, a)
    BY <1>0, <1>4 DEF Callback, Finalize, Uses, TypeOK
  <2>2. UNCHANGED <<inbox, reply, sending, unheard>>
    BY <1>4 DEF Callback
  <2> QED BY <1>0, <2>1, <2>2, PairKept DEF OnWay
<1>5. ASSUME NEW n \in Node, RequestFrame(n) PROVE PairInv'
  <2>1. UNCHANGED <<state, cur, inbox, sending, unheard>> /\ reply[n] = NoFrame
        /\ \A m \in Node \ {n} : reply'[m] = reply[m]
    BY <1>0, <1>5 DEF RequestFrame, engine, TypeOK
  <2>2. \A m, k \in Node, a \in Addr : OnWay(m, k, a) => OnWay(m, k, a)'
    BY <2>1, ClaimIsFrame, FrameAssumption DEF OnWay
  <2> QED BY <1>0, <2>1, <2>2, PairKept DEF Uses
<1>6. ASSUME NEW n \in Node, NEW a, Start(n, a) \/ CommandedAddress(n, a)
      PROVE  a = cur'[n]
  BY <1>0, <1>6 DEF Start, CommandedAddress, Adopt, TypeOK
<1>7. ASSUME NEW n \in Node, NEW a,
             TimerExpires(n) \/ RateWindowPasses(n, a) \/ EntryExpires(n, a)
      PROVE  PairInv'
  BY <1>1, <1>7 DEF TimerExpires, RateWindowPasses, EntryExpires, engine
<1>8. CASE UNCHANGED vars
  BY <1>1, <1>8 DEF vars, engine
<1>9. CASE Next
  BY <1>2, <1>3, <1>4, <1>5, <1>6, <1>7, <1>9, PairReceive, PairBroadcast DEF Next
<1> QED BY <1>8, <1>9

\* Every reachable state of every engine is well typed.
THEOREM TypeCorrect == Spec => []TypeOK
<1>1. Init => TypeOK
  BY ClaimInit DEF ClaimInv
<1> QED BY <1>1, ClaimType, PTL DEF Spec

LEMMA Inductive == Spec => []ClaimInv
<1>1. ClaimInv /\ [Next]_vars => ClaimInv'
  BY ClaimType, PairStep, WindowStep DEF ClaimInv
<1> QED BY <1>1, ClaimInit, PTL DEF Spec

\* For any nodes and any order of claims, answers and losses, two nodes that
\* use one address have a claim under way that will tell them, unless one was
\* never sent or was dropped by the rate limit.
THEOREM DuplicatesAreTold == Spec => []DuplicateIsPending
<1>1. ASSUME ClaimInv PROVE DuplicateIsPending
  <2>1. ASSUME NEW n \in Node, NEW m \in Node, NEW a \in Addr, OnWay(n, m, a)
        PROVE  Pending(a)
    <3>1. Claim(n, a).sa = a /\ Claim(n, a) # NoFrame
      BY ClaimIsFrame, FrameAssumption DEF Claim
    <3>2. CASE reply[n] = Claim(n, a) \/ sending[n] = Claim(n, a)
      BY <3>1, <3>2 DEF Pending
    <3>3. CASE \E i \in DOMAIN inbox[m] : inbox[m][i] = Claim(n, a)
      BY <3>1, <3>3 DEF Pending
    <3> QED BY <2>1, <3>2, <3>3 DEF OnWay
  <2> QED BY <1>1, <2>1 DEF ClaimInv, PairInv, DuplicateIsPending
<1> QED BY <1>1, Inductive, PTL

\* No callback of an earlier claim confirms a later one.
THEOREM OwnWindowConfirms == Spec => ClaimedAfterWindow
<1> DEFINE A == \A n \in Node : state'[n] = "CLAIMED" =>
                   /\ cur'[n] = cur[n]
                   /\ (state[n] = "CLAIMED" \/ ~armed[n])
<1>1. ClaimInv /\ [Next]_vars => [A]_vars
  <2> SUFFICES ASSUME ClaimInv, Next, NEW m \in Node, state'[m] = "CLAIMED"
               PROVE  cur'[m] = cur[m] /\ (state[m] = "CLAIMED" \/ ~armed[m])
    OBVIOUS
  <2>0. TypeOK /\ WindowInv
    BY DEF ClaimInv
  <2>1. ASSUME UNCHANGED <<state, cur>> PROVE A
    BY <2>1
  <2>2. ASSUME NEW n \in Node, NEW a, Adopt(n, a, "CLAIMING") \/ Adopt(n, a, "CANNOT_CLAIM")
        PROVE  cur'[m] = cur[m] /\ state[m] = "CLAIMED"
    BY <2>0, <2>2 DEF Adopt, TypeOK
  <2>3. ASSUME NEW n \in Node, TransmissionFailed(n)
        PROVE  cur'[m] = cur[m] /\ state[m] = "CLAIMED"
    BY <2>0, <2>3 DEF TransmissionFailed, TypeOK
  <2>4. ASSUME NEW n \in Node, NEW g, Callback(n, g)
        PROVE  cur'[m] = cur[m] /\ (state[m] = "CLAIMED" \/ ~armed[m])
    BY <2>0, <2>4 DEF Callback, Finalize, WindowInv, TypeOK
  <2> QED
    BY <2>1, <2>2, <2>3, <2>4
    DEF Next, Transmitted, TimerExpires, Receive, RateLimited, Recorded, NotContended,
        Defend, FallBack, CannotClaim, RequestFrame, Answer, AnswerRejected, Start,
        CommandedAddress, RateWindowPasses, EntryExpires, engine
<1> QED BY <1>1, Inductive, PTL DEF Spec, ClaimedAfterWindow
=============================================================================
