------------------------- MODULE RouterFlasherProofs -------------------------
(***************************************************************************)
(* Proofs about two parts of the application that share nothing but this   *)
(* module.                                                                 *)
(*                                                                         *)
(* First FrameRouter, for any number of threads: no frame is lost between  *)
(* the routers' own counters and the totals, and a slow subscriber stalls  *)
(* them only so often.  Then Flasher, for any image, any steps left out    *)
(* and any number of flashes: what a cancel, a failed exchange or a second *)
(* flash can do to the ECU, from one inductive invariant.                  *)
(***************************************************************************)
EXTENDS FrameRouter, Flasher, FiniteSetTheorems, WellFoundedInduction, TLAPS

\* The types of the counters and of the readers' locals, all that the
\* conservation rests on.
CountTypes ==
    /\ routed \in [Routers -> Nat] /\ dropped \in [Routers -> Nat]
    /\ totalRouted \in [Routers -> Nat] /\ totalDropped \in [Routers -> Nat]
    /\ counted \in [Routers -> Nat] /\ lost \in [Routers -> Nat]
    /\ rpc \in [Readers -> ReaderPc]
    /\ cur \in [Readers -> Routers \cup {Nobody}] /\ taken \in [Readers -> Nat]

CountInv == CountTypes /\ DrainInv

\* Initially every counter is zero and nobody drains.
LEMMA CountInit == Init => CountInv
BY RouterAssumption DEF Init, CountInv, CountTypes, DrainInv, Twice, ReaderPc

\* A step that touches neither counters nor readers.
LEMMA Elsewhere ==
    ASSUME CountInv, UNCHANGED <<routed, dropped, totalRouted, totalDropped, counted, lost,
                                 statsLock, rpc, cur, taken>>
    PROVE  CountInv'
BY DEF CountInv, CountTypes, DrainInv, Twice

\* An owner counts a frame or a drop: its counter grows with the history, and what a
\* drain has read of it stays within it.
LEMMA Counting ==
    ASSUME CountInv, NEW t \in Routers, CountRouted(t) \/ CountDropped(t)
    PROVE  CountInv'
<1>1. CASE CountRouted(t)
  <2>1. /\ routed' = [routed EXCEPT ![t] = @ + 1] /\ counted' = [counted EXCEPT ![t] = @ + 1]
        /\ UNCHANGED <<dropped, totalRouted, totalDropped, lost, statsLock, rpc, cur, taken>>
    BY <1>1 DEF CountRouted, readVars
  <2>2. CountTypes'
    BY <2>1 DEF CountInv, CountTypes
  <2>3. \A u \in Routers, place \in ReaderPc : Twice(u, place)' = Twice(u, place)
    BY <2>1 DEF Twice
  <2>4. \A u \in Routers : /\ totalRouted[u] \in Nat /\ routed[u] \in Nat /\ counted[u] \in Nat
                           /\ Twice(u, "reduce") \in Nat
    BY DEF CountInv, CountTypes, Twice
  <2>5. \A u \in Routers : totalRouted'[u] + routed'[u] = counted'[u] + Twice(u, "reduce")
    BY <2>1, <2>4 DEF CountInv, CountTypes, DrainInv
  <2>6. \A u \in Routers : routed[u] \in Nat /\ routed'[u] \in Nat /\ routed[u] <= routed'[u]
    BY <2>1 DEF CountInv, CountTypes
  <2>7. \A r \in Readers : rpc[r] \in {"publish", "reduce"} => taken[r] <= routed'[cur[r]]
    <3> SUFFICES ASSUME NEW r \in Readers, rpc[r] \in {"publish", "reduce"}
                 PROVE  taken[r] <= routed'[cur[r]]
      OBVIOUS
    <3>1. cur[r] \in Routers /\ taken[r] \in Nat /\ taken[r] <= routed[cur[r]]
      BY DEF CountInv, CountTypes, DrainInv
    <3> QED BY <2>6, <3>1
  <2> QED BY <2>1, <2>2, <2>3, <2>5, <2>7 DEF CountInv, DrainInv, ReaderPc
<1>2. CASE CountDropped(t)
  <2>1. /\ dropped' = [dropped EXCEPT ![t] = @ + 1] /\ lost' = [lost EXCEPT ![t] = @ + 1]
        /\ UNCHANGED <<routed, totalRouted, totalDropped, counted, statsLock, rpc, cur, taken>>
    BY <1>2 DEF CountDropped, readVars
  <2>2. CountTypes'
    BY <2>1 DEF CountInv, CountTypes
  <2>3. \A u \in Routers, place \in ReaderPc : Twice(u, place)' = Twice(u, place)
    BY <2>1 DEF Twice
  <2>4. \A u \in Routers : /\ totalDropped[u] \in Nat /\ dropped[u] \in Nat /\ lost[u] \in Nat
                           /\ Twice(u, "reduceDrops") \in Nat
    BY DEF CountInv, CountTypes, Twice
  <2>5. \A u \in Routers : totalDropped'[u] + dropped'[u] = lost'[u] + Twice(u, "reduceDrops")
    BY <2>1, <2>4 DEF CountInv, CountTypes, DrainInv
  <2>6. \A u \in Routers : dropped[u] \in Nat /\ dropped'[u] \in Nat /\ dropped[u] <= dropped'[u]
    BY <2>1 DEF CountInv, CountTypes
  <2>7. \A r \in Readers : rpc[r] \in {"publishDrops", "reduceDrops"} => taken[r] <= dropped'[cur[r]]
    <3> SUFFICES ASSUME NEW r \in Readers, rpc[r] \in {"publishDrops", "reduceDrops"}
                 PROVE  taken[r] <= dropped'[cur[r]]
      OBVIOUS
    <3>1. cur[r] \in Routers /\ taken[r] \in Nat /\ taken[r] <= dropped[cur[r]]
      BY DEF CountInv, CountTypes, DrainInv
    <3> QED BY <2>6, <3>1
  <2> QED BY <2>1, <2>2, <2>3, <2>5, <2>7 DEF CountInv, DrainInv, ReaderPc
<1> QED BY <1>1, <1>2

\* An owner publishes its counter: it holds the lock, so nobody is draining.
LEMMA OwnFlush ==
    ASSUME CountInv, NEW t \in Routers, FlushRouted(t) \/ FlushDropped(t)
    PROVE  CountInv'
<1>1. statsLock = Nobody /\ \A r \in Readers : rpc[r] = "idle"
  BY RouterAssumption DEF FlushRouted, FlushDropped, CountInv, DrainInv
<1>2. UNCHANGED <<counted, lost, rpc, cur, taken, statsLock>>
  BY DEF FlushRouted, FlushDropped, readVars
<1>3. \A u \in Routers, place \in ReaderPc : Twice(u, place) = 0 /\ Twice(u, place)' = 0
  BY <1>1, <1>2, RouterAssumption DEF Twice
<1>4. CASE FlushOwn(t)
  <2>1. CountTypes'
    BY <1>2, <1>4 DEF FlushOwn, CountInv, CountTypes
  <2>2. \A u \in Routers : /\ totalRouted[u] + routed[u] = counted[u]
                           /\ totalDropped[u] + dropped[u] = lost[u]
    BY <1>3 DEF CountInv, CountTypes, DrainInv, ReaderPc
  <2>3. \A u \in Routers : /\ totalRouted'[u] + routed'[u] = counted[u]
                           /\ totalDropped'[u] + dropped'[u] = lost[u]
    BY <1>4, <2>2 DEF FlushOwn, CountInv, CountTypes
  <2>4. \A u \in Routers : counted[u] \in Nat /\ lost[u] \in Nat
    BY DEF CountInv, CountTypes
  <2> QED BY <1>1, <1>2, <1>3, <2>1, <2>3, <2>4 DEF CountInv, DrainInv, ReaderPc
<1>5. CASE UNCHANGED <<routed, dropped, totalRouted, totalDropped>>
  BY <1>2, <1>5, Elsewhere
<1> QED BY <1>4, <1>5 DEF FlushRouted, FlushDropped

\* A step of reader r, who holds the lock, on the counter of thread c: the others are
\* idle, and only what is read, published or taken off moves.
LEMMA Settling ==
    ASSUME CountInv, NEW r \in Readers, NEW c \in Routers, statsLock = r,
           DrainPublish(r) \/ DrainReduce(r) \/ DropsRead(r) \/ DropsPublish(r)
              \/ DropsReduce(r),
           cur[r] = c
    PROVE  CountInv'
<1>1. /\ \A q \in Readers \ {r} : rpc[q] = "idle"
      /\ rpc[r] \in {"publish", "reduce"} => taken[r] <= routed[c]
      /\ rpc[r] \in {"publishDrops", "reduceDrops"} => taken[r] <= dropped[c]
      /\ \A u \in Routers :
            /\ totalRouted[u] + routed[u] = counted[u] + Twice(u, "reduce")
            /\ totalDropped[u] + dropped[u] = lost[u] + Twice(u, "reduceDrops")
  BY DEF CountInv, DrainInv
<1>2. \A u \in Routers :
         /\ totalRouted[u] \in Nat /\ routed[u] \in Nat /\ counted[u] \in Nat
         /\ totalDropped[u] \in Nat /\ dropped[u] \in Nat /\ lost[u] \in Nat
  BY DEF CountInv, CountTypes
<1>3. taken[r] \in Nat
  BY DEF CountInv, CountTypes
<1>4. \A u \in Routers, place \in ReaderPc :
         Twice(u, place) = IF rpc[r] = place /\ u = c THEN taken[r] ELSE 0
  BY DEF Twice
<1>5. UNCHANGED <<counted, lost, cur, statsLock>>
  BY DEF DrainPublish, DrainReduce, DropsRead, DropsPublish, DropsReduce, countVars
<1>6. /\ \E place \in ReaderPc : rpc' = [rpc EXCEPT ![r] = place]
      /\ \A q \in Readers \ {r} : rpc'[q] = "idle"
  BY <1>1 DEF DrainPublish, DrainReduce, DropsRead, DropsPublish, DropsReduce, RGoto, ReaderPc,
              CountInv, CountTypes
<1>7. CountTypes'
  <2>1. DrainPublish(r) => totalRouted' \in [Routers -> Nat]
    BY <1>2, <1>3 DEF DrainPublish, CountInv, CountTypes
  <2>2. DropsPublish(r) => totalDropped' \in [Routers -> Nat]
    BY <1>2, <1>3 DEF DropsPublish, CountInv, CountTypes
  <2>3. DrainReduce(r) => routed' \in [Routers -> Nat]
    BY <1>1, <1>2, <1>3 DEF DrainReduce, CountInv, CountTypes
  <2>4. DropsReduce(r) => dropped' \in [Routers -> Nat]
    BY <1>1, <1>2, <1>3 DEF DropsReduce, CountInv, CountTypes
  <2>5. taken' \in [Readers -> Nat]
    BY <1>2, <1>3 DEF DrainPublish, DrainReduce, DropsRead, DropsPublish, DropsReduce,
                      CountInv, CountTypes
  <2>6. rpc' \in [Readers -> ReaderPc]
    BY <1>6 DEF CountInv, CountTypes
  <2> QED
    BY <1>5, <2>1, <2>2, <2>3, <2>4, <2>5, <2>6
       DEF DrainPublish, DrainReduce, DropsRead, DropsPublish, DropsReduce, countVars,
           CountInv, CountTypes
<1>8. \A u \in Routers, place \in ReaderPc :
         Twice(u, place)' = IF rpc'[r] = place /\ u = c THEN taken'[r] ELSE 0
  BY <1>5 DEF Twice
<1>9. /\ \A u \in Routers :
            /\ totalRouted'[u] + routed'[u] = counted'[u] + Twice(u, "reduce")'
            /\ totalDropped'[u] + dropped'[u] = lost'[u] + Twice(u, "reduceDrops")'
      /\ rpc'[r] \in {"publish", "reduce"} => taken'[r] <= routed'[c]
      /\ rpc'[r] \in {"publishDrops", "reduceDrops"} => taken'[r] <= dropped'[c]
  <2>0. "reduce" \in ReaderPc /\ "reduceDrops" \in ReaderPc
    BY DEF ReaderPc
  <2>1. CASE DrainPublish(r)
    <3>1. /\ rpc[r] = "publish" /\ rpc'[r] = "reduce"
          /\ totalRouted' = [totalRouted EXCEPT ![c] = @ + taken[r]]
          /\ UNCHANGED <<routed, dropped, totalDropped, taken>>
      BY <2>1 DEF DrainPublish, RGoto, CountInv, CountTypes
    <3>2. \A u \in Routers : /\ u # c => totalRouted'[u] = totalRouted[u]
                             /\ totalRouted'[c] = totalRouted[c] + taken[r]
      BY <3>1 DEF CountInv, CountTypes
    <3>3. \A u \in Routers :
             /\ Twice(u, "reduce") = 0 /\ Twice(u, "reduceDrops") = 0
             /\ Twice(u, "reduce")' = (IF u = c THEN taken[r] ELSE 0)
             /\ Twice(u, "reduceDrops")' = 0
      BY <1>4, <1>8, <2>0, <3>1
    <3>4. \A u \in Routers : totalRouted'[u] + routed'[u] = counted'[u] + Twice(u, "reduce")'
      BY <1>1, <1>2, <1>3, <1>5, <3>1, <3>2, <3>3
    <3> QED BY <1>1, <1>2, <1>5, <3>1, <3>3, <3>4
  <2>2. CASE DrainReduce(r)
    <3>1. /\ rpc[r] = "reduce" /\ rpc'[r] = "drops"
          /\ routed' = [routed EXCEPT ![c] = @ - taken[r]]
          /\ UNCHANGED <<totalRouted, dropped, totalDropped>>
      BY <2>2 DEF DrainReduce, RGoto, CountInv, CountTypes
    <3>2. \A u \in Routers : /\ u # c => routed'[u] = routed[u]
                             /\ routed'[c] = routed[c] - taken[r]
      BY <3>1 DEF CountInv, CountTypes
    <3>3. \A u \in Routers :
             /\ Twice(u, "reduce") = (IF u = c THEN taken[r] ELSE 0)
             /\ Twice(u, "reduceDrops") = 0
             /\ Twice(u, "reduce")' = 0 /\ Twice(u, "reduceDrops")' = 0
      BY <1>4, <1>8, <2>0, <3>1
    <3>4. \A u \in Routers : totalRouted'[u] + routed'[u] = counted'[u]
      BY <1>1, <1>2, <1>3, <1>5, <3>1, <3>2, <3>3
    <3> QED BY <1>1, <1>2, <1>5, <3>1, <3>3, <3>4
  <2>3. CASE DropsRead(r)
    <3>1. /\ rpc[r] = "drops" /\ rpc'[r] \in {"test", "publishDrops"}
          /\ taken' = [taken EXCEPT ![r] = dropped[c]]
          /\ UNCHANGED <<routed, totalRouted, dropped, totalDropped>>
      BY <2>3 DEF DropsRead, RGoto, CountInv, CountTypes, countVars
    <3> QED BY <1>1, <1>2, <1>3, <1>4, <1>5, <1>8, <2>0, <3>1 DEF CountInv, CountTypes
  <2>4. CASE DropsPublish(r)
    <3>1. /\ rpc[r] = "publishDrops" /\ rpc'[r] = "reduceDrops"
          /\ totalDropped' = [totalDropped EXCEPT ![c] = @ + taken[r]]
          /\ UNCHANGED <<routed, dropped, totalRouted, taken>>
      BY <2>4 DEF DropsPublish, RGoto, CountInv, CountTypes
    <3>2. \A u \in Routers : /\ u # c => totalDropped'[u] = totalDropped[u]
                             /\ totalDropped'[c] = totalDropped[c] + taken[r]
      BY <3>1 DEF CountInv, CountTypes
    <3>3. \A u \in Routers :
             /\ Twice(u, "reduce") = 0 /\ Twice(u, "reduceDrops") = 0
             /\ Twice(u, "reduceDrops")' = (IF u = c THEN taken[r] ELSE 0)
             /\ Twice(u, "reduce")' = 0
      BY <1>4, <1>8, <2>0, <3>1
    <3>4. \A u \in Routers : totalDropped'[u] + dropped'[u] = lost'[u] + Twice(u, "reduceDrops")'
      BY <1>1, <1>2, <1>3, <1>5, <3>1, <3>2, <3>3
    <3> QED BY <1>1, <1>2, <1>5, <3>1, <3>3, <3>4
  <2>5. CASE DropsReduce(r)
    <3>1. /\ rpc[r] = "reduceDrops" /\ rpc'[r] = "test"
          /\ dropped' = [dropped EXCEPT ![c] = @ - taken[r]]
          /\ UNCHANGED <<totalRouted, routed, totalDropped>>
      BY <2>5 DEF DropsReduce, RGoto, CountInv, CountTypes
    <3>2. \A u \in Routers : /\ u # c => dropped'[u] = dropped[u]
                             /\ dropped'[c] = dropped[c] - taken[r]
      BY <3>1 DEF CountInv, CountTypes
    <3>3. \A u \in Routers :
             /\ Twice(u, "reduceDrops") = (IF u = c THEN taken[r] ELSE 0)
             /\ Twice(u, "reduce") = 0
             /\ Twice(u, "reduce")' = 0 /\ Twice(u, "reduceDrops")' = 0
      BY <1>4, <1>8, <2>0, <3>1
    <3>4. \A u \in Routers : totalDropped'[u] + dropped'[u] = lost'[u]
      BY <1>1, <1>2, <1>3, <1>5, <3>1, <3>2, <3>3
    <3> QED BY <1>1, <1>2, <1>5, <3>1, <3>3, <3>4
  <2> QED BY <2>1, <2>2, <2>3, <2>4, <2>5
<1> QED
  BY <1>5, <1>6, <1>7, <1>9 DEF CountInv, DrainInv

\* The steps of a drain.
LEMMA Draining ==
    ASSUME CountInv, NEW r \in Readers, Drain(r) \/ DrainStep(r)
    PROVE  CountInv'
<1>0. \A q \in Readers : rpc[q] # "idle" => statsLock = q
  BY DEF CountInv, DrainInv
<1> DEFINE Settled ==
        \A u \in Routers : /\ totalRouted[u] + routed[u] = counted[u]
                           /\ totalDropped[u] + dropped[u] = lost[u]
           Others == \A q \in Readers \ {r} : rpc[q] = "idle"
<1>a. ASSUME statsLock \in Readers => rpc[statsLock] \in {"idle", "drain", "test"} PROVE Settled
  <2>1. \A u \in Routers : Twice(u, "reduce") = 0 /\ Twice(u, "reduceDrops") = 0
    BY <1>a DEF Twice
  <2> QED BY <2>1 DEF CountInv, CountTypes, DrainInv
\* Between two counters nothing is published twice.
<1>b. ASSUME Settled, Others, CountTypes',
             UNCHANGED <<routed, dropped, totalRouted, totalDropped, counted, lost>>,
             \/ statsLock' = r /\ rpc' = [rpc EXCEPT ![r] = "drain"]
             \/ statsLock' = Nobody /\ rpc' = [rpc EXCEPT ![r] = "idle"]
      PROVE  CountInv'
  <2>1. /\ \A q \in Readers \ {r} : rpc'[q] = "idle"
        /\ rpc'[r] \in {"idle", "drain"} /\ (rpc'[r] # "idle" => statsLock' = r)
    BY <1>b DEF CountInv, CountTypes
  <2>2. \A u \in Routers : Twice(u, "reduce")' = 0 /\ Twice(u, "reduceDrops")' = 0
    BY <1>b, <2>1, RouterAssumption DEF Twice
  <2>3. \A u \in Routers : counted[u] \in Nat /\ lost[u] \in Nat
    BY DEF CountInv, CountTypes
  <2> QED BY <1>b, <2>1, <2>2, <2>3 DEF CountInv, DrainInv
<1> HIDE DEF Settled, Others
<1>1. CASE Drain(r)
  <2>1. statsLock = Nobody /\ \A q \in Readers : rpc[q] = "idle"
    BY <1>0, <1>1, RouterAssumption DEF Drain
  <2>2. Settled /\ Others
    BY <1>a, <2>1, RouterAssumption DEF Others
  <2>3. /\ UNCHANGED <<routed, dropped, totalRouted, totalDropped, counted, lost, cur, taken>>
        /\ statsLock' = r /\ rpc' = [rpc EXCEPT ![r] = "drain"]
    BY <1>1 DEF Drain, RGoto
  <2>4. CountTypes'
    BY <2>3 DEF CountInv, CountTypes, ReaderPc
  <2> QED BY <1>b, <2>2, <2>3, <2>4
<1>2. ASSUME DrainStep(r) PROVE statsLock = r /\ Others
  <2>1. rpc[r] # "idle"
    BY <1>2 DEF DrainStep, DrainRead, DrainPublish, DrainReduce, DropsRead, DropsPublish,
                DropsReduce, DrainTest, DrainPrune, DrainFails, Iterating
  <2> QED BY <1>0, <2>1 DEF Others
<1>3. ASSUME NEW t \in Routers, DrainRead(r, t) PROVE CountInv'
  <2>1. /\ UNCHANGED countVars /\ rpc[r] = "drain"
        /\ \E place \in {"drops", "publish"} : rpc' = [rpc EXCEPT ![r] = place]
        /\ cur' = [cur EXCEPT ![r] = t] /\ taken' = [taken EXCEPT ![r] = routed[t]]
    BY <1>3 DEF DrainRead, RGoto, Iterating
  <2>2. statsLock = r /\ Others
    BY <1>2, <1>3 DEF DrainStep
  <2>3. Settled
    BY <1>a, <2>1, <2>2
  <2>4. CountTypes'
    BY <2>1 DEF CountInv, CountTypes, countVars, ReaderPc
  <2>5. /\ \A q \in Readers \ {r} : rpc'[q] = "idle"
        /\ rpc'[r] \in {"drops", "publish"} /\ cur'[r] = t /\ taken'[r] = routed[t]
        /\ statsLock' = r
    BY <2>1, <2>2 DEF CountInv, CountTypes, countVars, Others
  <2>6. \A u \in Routers : Twice(u, "reduce")' = 0 /\ Twice(u, "reduceDrops")' = 0
    BY <2>5 DEF Twice
  <2>7. \A u \in Routers : routed[u] \in Nat /\ counted[u] \in Nat /\ lost[u] \in Nat
    BY DEF CountInv, CountTypes
  <2> QED
    BY <2>1, <2>3, <2>4, <2>5, <2>6, <2>7 DEF CountInv, DrainInv, countVars, Settled
<1>4. CASE DrainPublish(r) \/ DrainReduce(r) \/ DropsRead(r) \/ DropsPublish(r) \/ DropsReduce(r)
  <2>1. rpc[r] \notin {"idle", "drain"}
    BY <1>4 DEF DrainPublish, DrainReduce, DropsRead, DropsPublish, DropsReduce
  <2>2. statsLock = r /\ cur[r] \in Routers
    BY <1>0, <2>1 DEF CountInv, DrainInv
  <2> QED BY <1>4, <2>2, Settling
<1>5. CASE DrainTest(r)
  <2>1. /\ UNCHANGED countVars /\ rpc[r] = "test" /\ rpc' = [rpc EXCEPT ![r] = "drain"]
        /\ cur' = [cur EXCEPT ![r] = Nobody] /\ UNCHANGED taken
    BY <1>5 DEF DrainTest, RGoto
  <2>2. statsLock = r /\ Others
    BY <1>2, <1>5 DEF DrainStep
  <2>3. Settled
    BY <1>a, <2>1, <2>2
  <2>4. CountTypes'
    BY <2>1 DEF CountInv, CountTypes, countVars, ReaderPc
  <2> QED BY <1>b, <2>1, <2>2, <2>3, <2>4 DEF countVars
<1>6. CASE DrainPrune(r) \/ DrainFails(r)
  <2>1. /\ rpc[r] = "drain" /\ rpc' = [rpc EXCEPT ![r] = "idle"] /\ statsLock' = Nobody
        /\ UNCHANGED <<routed, dropped, totalRouted, totalDropped, counted, lost, cur, taken>>
    BY <1>6 DEF DrainPrune, DrainFails, Iterating, DrainEnds, RGoto
  <2>2. statsLock = r /\ Others
    BY <1>2, <1>6 DEF DrainStep
  <2>3. Settled
    BY <1>a, <2>1, <2>2
  <2>4. CountTypes'
    BY <2>1 DEF CountInv, CountTypes, ReaderPc
  <2> QED BY <1>b, <2>1, <2>2, <2>3, <2>4
<1> QED BY <1>1, <1>3, <1>4, <1>5, <1>6 DEF DrainStep

LEMMA CountStep == CountInv /\ [Next]_vars => CountInv'
<1> SUFFICES ASSUME CountInv, [Next]_vars PROVE CountInv'
  OBVIOUS
<1>1. ASSUME NEW t \in Routers, Route(t) \/ RouteStep(t) PROVE CountInv'
  <2>1. CASE CountRouted(t) \/ CountDropped(t)
    BY <2>1, Counting
  <2>2. CASE FlushRouted(t) \/ FlushDropped(t)
    BY <2>2, OwnFlush
  <2>3. CASE Register(t)
    BY <2>3, Elsewhere DEF Register, readVars
  <2>4. CASE Route(t) \/ Compare(t) \/ Skip(t) \/ Match(t) \/ CallInBudget(t)
             \/ CallOverBudgetDemoted(t) \/ CallOverBudgetTripped(t) \/ Enqueue(t)
             \/ QueueFull(t) \/ Return(t)
    <3>1. UNCHANGED countVars /\ UNCHANGED readVars
      BY <2>4 DEF Route, Compare, Skip, Match, CallInBudget, CallOverBudgetDemoted,
                  CallOverBudgetTripped, Enqueue, QueueFull, Return
    <3> QED BY <3>1, Elsewhere DEF countVars, readVars
  <2> QED BY <1>1, <2>1, <2>2, <2>3, <2>4 DEF RouteStep
<1>2. ASSUME NEW r \in Readers, Drain(r) \/ DrainStep(r) PROVE CountInv'
  BY <1>2, Draining
<1>3. CASE Subscribe \/ Clear \/ \E i \in SubIds :
             Unsubscribe(i) \/ RestoreCallback(i) \/ Consume(i)
  <2>1. UNCHANGED countVars /\ UNCHANGED readVars
    BY <1>3 DEF Subscribe, Clear, Unsubscribe, RestoreCallback, Consume
  <2> QED BY <2>1, Elsewhere DEF countVars, readVars
<1>4. CASE UNCHANGED vars
  BY <1>4, Elsewhere DEF vars, countVars, readVars
<1> QED BY <1>1, <1>2, <1>3, <1>4 DEF Next

\* For any number of routing and draining threads, and threads that switch between any
\* two statements: whenever the lock is free, nothing has been counted twice and nothing
\* forgotten between a thread's counter and the totals.
THEOREM NoFrameUncounted == Spec => []FramesConserved
<1>1. CountInv => FramesConserved
  <2> SUFFICES ASSUME CountInv, statsLock = Nobody, NEW t \in Routers
               PROVE  /\ totalRouted[t] + routed[t] = counted[t]
                      /\ totalDropped[t] + dropped[t] = lost[t]
    BY DEF FramesConserved
  <2>1. Twice(t, "reduce") = 0 /\ Twice(t, "reduceDrops") = 0
    BY RouterAssumption DEF Twice
  <2> QED BY <2>1 DEF CountInv, CountTypes, DrainInv
<1> QED BY CountInit, CountStep, <1>1, PTL DEF Spec
-----------------------------------------------------------------------------
(* How often a subscriber can stall the RX threads *)

\* The types of the table, of the stall records and of a router's place.
TableTypes ==
    /\ subs \in [SubIds -> Subscription \cup {NoSub}]
    /\ lastId \in 0..MaxSubs /\ callbacks \in Nat
    /\ trips \in [SubIds -> Nat] /\ stalls \in [SubIds -> Nat]
    /\ pc \in [Routers -> RouterPc]
    /\ view \in [Routers -> [SubIds -> Subscription \cup {NoSub}]]
    /\ at \in [Routers -> 1..MaxSubs + 1]

TableInv == TableTypes /\ StallInv

\* The bounds and the fields that the proofs compute with.
LEMMA Sizes ==
    /\ MaxSubs \in Nat /\ TripAfter \in Nat /\ TripAfter > 0
    /\ Cardinality(Routers) \in Nat
    /\ \A i : IsFiniteSet(Ahead(i)) /\ Cardinality(Ahead(i)) \in Nat
                /\ Cardinality(Ahead(i)) <= Cardinality(Routers)
<1>1. \A i : Ahead(i) \in SUBSET Routers
  BY DEF Ahead
<1> QED BY <1>1, RouterAssumption, FS_Subset, FS_CardinalityType

\* Threads that drop out of a finite set of them make it no larger; one that does
\* for certain makes it smaller.
LEMMA Fewer ==
    ASSUME NEW i, NEW S \in SUBSET Ahead(i)
    PROVE  /\ IsFiniteSet(S) /\ Cardinality(S) \in Nat
           /\ Cardinality(S) <= Cardinality(Ahead(i))
           /\ \A t \in Ahead(i) : t \notin S => Cardinality(S) + 1 <= Cardinality(Ahead(i))
<1>1. IsFiniteSet(S) /\ Cardinality(S) \in Nat /\ Cardinality(S) <= Cardinality(Ahead(i))
  BY Sizes, FS_Subset, FS_CardinalityType
<1>2. ASSUME NEW t \in Ahead(i), t \notin S
      PROVE  Cardinality(S) + 1 <= Cardinality(Ahead(i))
  <2>1. S \cup {t} \in SUBSET Ahead(i)
    BY <1>2
  <2>2. Cardinality(S \cup {t}) <= Cardinality(Ahead(i))
    BY <2>1, Sizes, FS_Subset
  <2>3. Cardinality(S \cup {t}) = Cardinality(S) + 1
    BY <1>1, <1>2, FS_AddElement
  <2> QED BY <2>2, <2>3
<1> QED BY <1>1, <1>2

\* Before anything is subscribed nobody can be stalled.
LEMMA StallInit == Init => TableInv
<1> SUFFICES ASSUME Init PROVE TableInv
  OBVIOUS
<1>1. TableTypes
  BY RouterAssumption DEF Init, TableTypes, NoSubs, SubIds, RouterPc
<1>2. \A i \in SubIds : Ahead(i) = {}
  BY DEF Init, NoSubs, Ahead
<1>3. /\ snapshot = subs /\ \A t \in Routers : pc[t] \notin {"call"} \cup PastCall
      /\ \A i \in SubIds : subs[i] = NoSub /\ trips[i] = 0 /\ stalls[i] = 0
  BY DEF Init, NoSubs, PastCall
<1>4. \A i \in SubIds : Cardinality(Ahead(i)) = 0
  BY <1>2, FS_EmptySet
<1> QED BY <1>1, <1>2, <1>3, <1>4, Sizes DEF TableInv, StallInv, Installed

\* A step keeps what StallInv says of one subscriber when it installs nothing, lets
\* nobody take the callback up and records no stall ...
LEMMA Unstalled ==
    ASSUME TableInv, NEW i \in SubIds, Ahead(i)' \subseteq Ahead(i),
           \/ stalls'[i] = stalls[i] /\ trips'[i] = trips[i]
           \/ stalls'[i] = 0 /\ trips'[i] = 0,
           Installed(i)' => Installed(i)
    PROVE  /\ stalls'[i] + Cardinality(Ahead(i)') < TripAfter + Cardinality(Routers)
           /\ Installed(i)' => stalls'[i] <= trips'[i] /\ trips'[i] < TripAfter
<1>1. /\ Cardinality(Ahead(i)') \in Nat
      /\ Cardinality(Ahead(i)') <= Cardinality(Ahead(i))
  BY Fewer
<1>2. stalls[i] \in Nat /\ trips[i] \in Nat
  BY DEF TableInv, TableTypes
<1> QED BY <1>1, <1>2, Sizes DEF TableInv, StallInv

\* A router that keeps its snapshot and goes on through it takes up no callback.
LEMMA GoingOn ==
    ASSUME TableInv, NEW t \in Routers, NEW p \in RouterPc, view' = view, Goto(t, p),
           \/ at' = at /\ (pc[t] \in PastCall => p \in PastCall)
           \/ at' = [at EXCEPT ![t] = @ + 1]
    PROVE  \A i \in SubIds : Ahead(i)' \subseteq Ahead(i)
<1>1. \A u \in Routers : u # t => at'[u] = at[u] /\ pc'[u] = pc[u]
  BY DEF Goto, TableInv, TableTypes
<1>2. /\ at[t] \in Nat /\ at'[t] \in Nat /\ pc'[t] = p
      /\ \/ at'[t] = at[t] /\ (pc[t] \in PastCall => p \in PastCall)
         \/ at'[t] = at[t] + 1
  BY DEF Goto, TableInv, TableTypes
<1>3. \A i \in SubIds : i \in Nat
  BY DEF SubIds
<1> QED BY <1>1, <1>2, <1>3 DEF Ahead

\* A step of a router that leaves the table and the stall records alone.
LEMMA PassingStep ==
    ASSUME TableInv, NEW t \in Routers,
           \/ Register(t) \/ CountRouted(t) \/ Compare(t) \/ FlushRouted(t) \/ Skip(t)
           \/ Match(t) \/ Enqueue(t) \/ QueueFull(t) \/ CountDropped(t) \/ FlushDropped(t)
    PROVE  TableInv'
<1>1. /\ UNCHANGED <<subs, snapshot, lastId, callbacks, trips, stalls, view>>
      /\ \E p \in RouterPc :
            /\ Goto(t, p)
            /\ p = "call" => Match(t)
            /\ \/ at' = at /\ (pc[t] \in PastCall => p \in PastCall)
                           /\ (p \in PastCall => pc[t] \in PastCall \/ Match(t))
               \/ at' = [at EXCEPT ![t] = @ + 1] /\ p = "fan"
                    /\ (pc[t] \in PastCall \/ Skip(t))
  <2> USE DEF subVars, RouterPc, PastCall, Passed
  <2>1. CASE Register(t)
    BY <2>1 DEF Register
  <2>2. CASE CountRouted(t) \/ Compare(t)
    BY <2>2 DEF CountRouted, Compare
  <2>3. CASE FlushRouted(t) \/ FlushDropped(t)
    BY <2>3 DEF FlushRouted, FlushDropped
  <2>4. CASE Skip(t) \/ Match(t)
    BY <2>4 DEF Skip, Match, Fanning
  <2>5. CASE Enqueue(t) \/ QueueFull(t)
    BY <2>5 DEF Enqueue, QueueFull
  <2>6. CASE CountDropped(t)
    BY <2>6 DEF CountDropped
  <2> QED BY <2>1, <2>2, <2>3, <2>4, <2>5, <2>6
<1>2. PICK p \in RouterPc :
            /\ Goto(t, p)
            /\ p = "call" => Match(t)
            /\ \/ at' = at /\ (pc[t] \in PastCall => p \in PastCall)
                           /\ (p \in PastCall => pc[t] \in PastCall \/ Match(t))
               \/ at' = [at EXCEPT ![t] = @ + 1] /\ p = "fan"
                    /\ (pc[t] \in PastCall \/ Skip(t))
  BY <1>1
<1>3. \A i \in SubIds : Ahead(i)' \subseteq Ahead(i)
  BY <1>1, <1>2, GoingOn
<1>4. Skip(t) \/ Match(t) => at[t] \in SubIds
  BY Sizes DEF Skip, Match, Fanning, SubIds, TableInv, TableTypes
<1>5. at[t] \in SubIds \/ at' = at
  BY <1>2, <1>4 DEF TableInv, StallInv
<1>6. TableTypes'
  <2>1. at' \in [Routers -> 1..MaxSubs + 1]
    <3>1. at \in [Routers -> 1..MaxSubs + 1]
      BY DEF TableInv, TableTypes
    <3>2. CASE at' = at
      BY <3>1, <3>2
    <3>3. CASE at[t] \in SubIds /\ at' = [at EXCEPT ![t] = @ + 1]
      <4>1. at[t] + 1 \in 1..MaxSubs + 1
        BY <3>3, Sizes DEF SubIds
      <4> QED BY <3>1, <3>3, <4>1
    <3> QED BY <1>2, <1>5, <3>2, <3>3
  <2>2. pc' \in [Routers -> RouterPc]
    BY <1>2 DEF TableInv, TableTypes, Goto
  <2> QED BY <1>1, <2>1, <2>2 DEF TableInv, TableTypes
<1>7. \A u \in Routers : u # t => at'[u] = at[u] /\ pc'[u] = pc[u]
  BY <1>2 DEF Goto, TableInv, TableTypes
<1>8. \A u \in Routers \ {t} : pc'[u] = "call" => u \in Ahead(at[u])'
  BY <1>1, <1>7 DEF TableInv, StallInv, Ahead
<1>9. /\ pc'[t] = p
      /\ p = "call" => t \in Ahead(at[t])'
      /\ p \in {"call"} \cup PastCall => at'[t] \in SubIds
  <2>1. pc'[t] = p
    BY <1>2 DEF Goto, TableInv, TableTypes
  <2>2. CASE p = "call"
    <3>1. at' = at /\ Sub(t) # NoSub /\ Sub(t).callback # 0
      BY <1>2, <2>2 DEF Match, Wanted, Goto, TableInv, TableTypes
    <3> QED BY <1>1, <1>2, <1>4, <2>1, <2>2, <3>1 DEF Ahead, Sub, PastCall
  <2>3. CASE p \in PastCall
    BY <1>2, <1>4, <2>1, <2>3 DEF TableInv, StallInv, PastCall
  <2> QED BY <2>1, <2>2, <2>3
<1>10. \A i \in SubIds : Installed(i)' => Installed(i)
  BY <1>1 DEF Installed
<1>11. \A i \in SubIds : i > lastId' =>
           subs'[i] = NoSub /\ trips'[i] = 0 /\ stalls'[i] = 0 /\ Ahead(i)' = {}
  BY <1>1, <1>3 DEF TableInv, StallInv
<1>12. \A i \in SubIds :
          /\ stalls'[i] + Cardinality(Ahead(i)') < TripAfter + Cardinality(Routers)
          /\ Installed(i)' => stalls'[i] <= trips'[i] /\ trips'[i] < TripAfter
  BY <1>1, <1>3, <1>10, Unstalled
<1>13. \A u \in Routers :
          /\ pc'[u] = "call" => u \in Ahead(at[u])'
          /\ pc'[u] \in {"call"} \cup PastCall => at'[u] \in SubIds
  BY <1>7, <1>8, <1>9 DEF TableInv, StallInv
<1> QED BY <1>1, <1>6, <1>11, <1>12, <1>13, Zenon DEF TableInv, StallInv

\* The call of a callback: the thread has it behind it, and a stall is paid for by
\* that or resets.
LEMMA CalledStep ==
    ASSUME TableInv, NEW t \in Routers,
           CallInBudget(t) \/ CallOverBudgetDemoted(t) \/ CallOverBudgetTripped(t)
    PROVE  TableInv'
<1>0. PICK j : j = at[t]
  OBVIOUS
<1>1. /\ pc[t] = "call" /\ Goto(t, "queue")
      /\ UNCHANGED <<lastId, callbacks, view, at>>
  BY DEF CallInBudget, CallOverBudgetDemoted, CallOverBudgetTripped
<1>2. j \in SubIds /\ t \in Ahead(j) /\ j <= lastId /\ snapshot = subs
  BY <1>0, <1>1 DEF TableInv, StallInv, TableTypes, SubIds
<1>3. /\ \A u \in Routers : u # t => pc'[u] = pc[u]
      /\ pc'[t] = "queue"
  BY <1>1 DEF Goto, TableInv, TableTypes
<1>4. \A i \in SubIds : Ahead(i)' \subseteq Ahead(i)
  BY <1>1, GoingOn DEF RouterPc, PastCall
<1>5. t \notin Ahead(j)'
  <2>1. at'[t] = j /\ j \in Nat
    BY <1>0, <1>1, <1>2 DEF SubIds
  <2> QED BY <1>3, <2>1 DEF Ahead, PastCall
<1>6. /\ Cardinality(Ahead(j)') \in Nat
      /\ Cardinality(Ahead(j)') + 1 <= Cardinality(Ahead(j))
  BY <1>2, <1>4, <1>5, Fewer
<1>7. /\ subs \in [SubIds -> Subscription \cup {NoSub}]
      /\ trips \in [SubIds -> Nat] /\ stalls \in [SubIds -> Nat]
      /\ stalls[j] \in Nat /\ trips[j] \in Nat
  BY <1>2 DEF TableInv, TableTypes
<1>8. ASSUME Demoted(j)
      PROVE  /\ snapshot' = subs' /\ ~Installed(j)'
             /\ subs' \in [SubIds -> Subscription \cup {NoSub}]
             /\ \A i \in SubIds \ {j} : subs'[i] = subs[i]
  <2>1. CASE subs[j] = NoSub
    BY <1>2, <1>7, <1>8, <2>1 DEF Demoted, Installed
  <2>2. CASE subs[j] # NoSub
    <3>1. subs[j] \in Subscription
      BY <1>2, <1>7, <2>2
    <3>2. [subs[j] EXCEPT !.callback = 0] \in Subscription
          /\ [subs[j] EXCEPT !.callback = 0].callback = 0
      BY <3>1 DEF Subscription
    <3>3. subs' = [subs EXCEPT ![j] = [subs[j] EXCEPT !.callback = 0]] /\ snapshot' = subs'
      BY <1>8, <2>2 DEF Demoted, Publish, Replaced
    <3> QED BY <1>2, <1>7, <3>2, <3>3 DEF Installed
  <2> QED BY <2>1, <2>2
<1>9. /\ snapshot' = subs'
      /\ subs' \in [SubIds -> Subscription \cup {NoSub}]
      /\ trips' \in [SubIds -> Nat] /\ stalls' \in [SubIds -> Nat]
      /\ \A i \in SubIds \ {j} :
            subs'[i] = subs[i] /\ trips'[i] = trips[i] /\ stalls'[i] = stalls[i]
      /\ \/ trips'[j] = 0 /\ stalls'[j] = 0
         \/ stalls'[j] = stalls[j] + 1 /\ ~Installed(j)'
         \/ /\ stalls'[j] = stalls[j] + 1 /\ trips'[j] = trips[j] + 1
            /\ Installed(j)' => Installed(j) /\ trips'[j] < TripAfter
  <2>1. CASE CallInBudget(t)
    <3>1. trips' = [trips EXCEPT ![j] = 0] /\ stalls' = [stalls EXCEPT ![j] = 0]
          /\ UNCHANGED <<subs, snapshot>>
      BY <1>0, <2>1 DEF CallInBudget
    <3> QED BY <1>2, <1>7, <3>1
  <2>2. CASE CallOverBudgetDemoted(t)
    <3>1. Demoted(j) /\ stalls' = [stalls EXCEPT ![j] = @ + 1] /\ trips' = trips
      BY <1>0, <2>2 DEF CallOverBudgetDemoted
    <3> QED BY <1>2, <1>7, <1>8, <3>1
  <2>3. CASE CallOverBudgetTripped(t)
    <3>1. /\ trips' = [trips EXCEPT ![j] = @ + 1] /\ stalls' = [stalls EXCEPT ![j] = @ + 1]
          /\ \/ trips'[j] >= TripAfter /\ Demoted(j)
             \/ ~(trips'[j] >= TripAfter) /\ UNCHANGED <<subs, snapshot>>
      BY <1>0, <2>3 DEF CallOverBudgetTripped
    <3>2. /\ trips'[j] = trips[j] + 1 /\ stalls'[j] = stalls[j] + 1
          /\ trips' \in [SubIds -> Nat] /\ stalls' \in [SubIds -> Nat]
          /\ \A i \in SubIds \ {j} : trips'[i] = trips[i] /\ stalls'[i] = stalls[i]
      BY <1>2, <1>7, <3>1
    <3>3. CASE Demoted(j)
      BY <1>8, <3>2, <3>3
    <3>4. CASE ~(trips'[j] >= TripAfter) /\ UNCHANGED <<subs, snapshot>>
      BY <1>2, <1>7, <3>2, <3>4, Sizes DEF Installed
    <3> QED BY <3>1, <3>3, <3>4
  <2> QED BY <2>1, <2>2, <2>3
<1>10. TableTypes'
  BY <1>1, <1>9 DEF TableInv, TableTypes, Goto, RouterPc
<1>11. ASSUME NEW i \in SubIds
       PROVE  /\ stalls'[i] + Cardinality(Ahead(i)') < TripAfter + Cardinality(Routers)
              /\ Installed(i)' => stalls'[i] <= trips'[i] /\ trips'[i] < TripAfter
  <2>1. CASE i # j
    BY <1>4, <1>9, <2>1, Unstalled DEF Installed
  <2>2. CASE i = j /\ trips'[j] = 0 /\ stalls'[j] = 0
    BY <1>6, <2>2, Sizes DEF TableInv, StallInv
  <2>3. CASE i = j /\ stalls'[j] = stalls[j] + 1
    <3>1. stalls[j] + Cardinality(Ahead(j)) < TripAfter + Cardinality(Routers)
          /\ (Installed(j) => stalls[j] <= trips[j] /\ trips[j] < TripAfter)
      BY <1>2 DEF TableInv, StallInv
    <3> QED BY <1>6, <1>7, <1>9, <2>3, <3>1, Sizes
  <2> QED BY <1>9, <2>1, <2>2, <2>3
<1>12. \A i \in SubIds : i > lastId' =>
           subs'[i] = NoSub /\ trips'[i] = 0 /\ stalls'[i] = 0 /\ Ahead(i)' = {}
  <2>1. \A i \in SubIds : i > lastId => i # j
    BY <1>2 DEF TableInv, TableTypes, SubIds
  <2> QED BY <1>1, <1>4, <1>9, <2>1 DEF TableInv, StallInv
<1>13. \A u \in Routers :
          /\ pc'[u] = "call" => u \in Ahead(at[u])'
          /\ pc'[u] \in {"call"} \cup PastCall => at'[u] \in SubIds
  BY <1>1, <1>2, <1>3 DEF TableInv, StallInv, Ahead
<1> QED BY <1>9, <1>10, <1>11, <1>12, <1>13, Zenon DEF TableInv, StallInv

\* A router that returns has nothing ahead of it.
LEMMA ReturnStep == ASSUME TableInv, NEW t \in Routers, Return(t) PROVE TableInv'
<1>1. /\ pc' = [pc EXCEPT ![t] = "idle"] /\ at' = [at EXCEPT ![t] = 1]
      /\ view' = [view EXCEPT ![t] = NoSubs]
      /\ UNCHANGED <<subs, snapshot, lastId, callbacks, trips, stalls>>
  BY DEF Return, Goto, subVars
<1>2. /\ \A u \in Routers : u # t => at'[u] = at[u] /\ pc'[u] = pc[u] /\ view'[u] = view[u]
      /\ pc'[t] = "idle" /\ view'[t] = NoSubs
  BY <1>1 DEF TableInv, TableTypes
<1>3. TableTypes'
  BY <1>1, Sizes DEF TableInv, TableTypes, NoSubs, RouterPc
<1>4. \A i \in SubIds : Ahead(i)' \subseteq Ahead(i)
  BY <1>2 DEF Ahead, NoSubs
<1>5. \A i \in SubIds :
         /\ stalls'[i] + Cardinality(Ahead(i)') < TripAfter + Cardinality(Routers)
         /\ Installed(i)' => stalls'[i] <= trips'[i] /\ trips'[i] < TripAfter
  BY <1>1, <1>4, Unstalled DEF Installed
<1>6. \A i \in SubIds : i > lastId' =>
          subs'[i] = NoSub /\ trips'[i] = 0 /\ stalls'[i] = 0 /\ Ahead(i)' = {}
  BY <1>1, <1>4 DEF TableInv, StallInv
<1>7. ASSUME NEW u \in Routers
      PROVE  /\ pc'[u] = "call" => u \in Ahead(at[u])'
             /\ pc'[u] \in {"call"} \cup PastCall => at'[u] \in SubIds
  <2>1. CASE u = t
    BY <1>2, <2>1 DEF PastCall
  <2>2. CASE u # t
    BY <1>2, <2>2 DEF TableInv, StallInv, Ahead
  <2> QED BY <2>1, <2>2
<1>8. snapshot' = subs'
  BY <1>1 DEF TableInv, StallInv
<1> QED BY <1>3, <1>5, <1>6, <1>7, <1>8, Zenon DEF TableInv, StallInv

\* A router that sets out takes up the callbacks that are installed, and those have
\* stalled fewer than TripAfter calls.
LEMMA RouteStarts == ASSUME TableInv, NEW t \in Routers, Route(t) PROVE TableInv'
<1>1. /\ pc' = [pc EXCEPT ![t] = "register"] /\ view' = [view EXCEPT ![t] = subs]
      /\ UNCHANGED <<subs, snapshot, lastId, callbacks, trips, stalls, at>>
  BY DEF Route, Goto, subVars, TableInv, StallInv
<1>2. /\ \A u \in Routers : u # t => pc'[u] = pc[u] /\ view'[u] = view[u]
      /\ pc'[t] = "register" /\ view'[t] = subs
  BY <1>1 DEF TableInv, TableTypes
<1>3. TableTypes'
  BY <1>1 DEF TableInv, TableTypes, RouterPc
<1>4. \A i \in SubIds : Ahead(i)' \subseteq Ahead(i) \/ Installed(i)
  BY <1>1, <1>2 DEF Ahead, Installed
<1>5. ASSUME NEW i \in SubIds
      PROVE  /\ stalls'[i] + Cardinality(Ahead(i)') < TripAfter + Cardinality(Routers)
             /\ Installed(i)' => stalls'[i] <= trips'[i] /\ trips'[i] < TripAfter
  <2>1. CASE Ahead(i)' \subseteq Ahead(i)
    BY <1>1, <2>1, Unstalled DEF Installed
  <2>2. CASE Installed(i)
    <3>1. stalls[i] \in Nat /\ trips[i] \in Nat /\ stalls[i] < TripAfter
      BY <2>2, Sizes DEF TableInv, TableTypes, StallInv
    <3>2. Ahead(i)' \in SUBSET Routers
      BY DEF Ahead
    <3>3. /\ Cardinality(Ahead(i)') \in Nat
          /\ Cardinality(Ahead(i)') <= Cardinality(Routers)
      BY <3>2, RouterAssumption, FS_Subset, FS_CardinalityType
    <3> QED BY <1>1, <2>2, <3>1, <3>3, Sizes DEF TableInv, StallInv
  <2> QED BY <1>4, <2>1, <2>2
<1>6. \A i \in SubIds : i > lastId' =>
          subs'[i] = NoSub /\ trips'[i] = 0 /\ stalls'[i] = 0 /\ Ahead(i)' = {}
  BY <1>1, <1>4 DEF TableInv, StallInv, Installed
<1>7. ASSUME NEW u \in Routers
      PROVE  /\ pc'[u] = "call" => u \in Ahead(at[u])'
             /\ pc'[u] \in {"call"} \cup PastCall => at'[u] \in SubIds
  <2>1. CASE u = t
    BY <1>2, <2>1 DEF PastCall
  <2>2. CASE u # t
    BY <1>1, <1>2, <2>2 DEF TableInv, StallInv, Ahead
  <2> QED BY <2>1, <2>2
<1>8. snapshot' = subs'
  BY <1>1 DEF TableInv, StallInv
<1> QED BY <1>3, <1>5, <1>6, <1>7, <1>8, Zenon DEF TableInv, StallInv

\* A change of the table publishes it; what it installs has a clean record.
LEMMA TableChanged ==
    ASSUME TableInv, UNCHANGED routeVars, snapshot' = subs', callbacks' \in Nat,
           subs' \in [SubIds -> Subscription \cup {NoSub}],
           trips' \in [SubIds -> Nat], stalls' \in [SubIds -> Nat],
           lastId' \in 0..MaxSubs, lastId' >= lastId,
           \A i \in SubIds :
              /\ \/ stalls'[i] = stalls[i] /\ trips'[i] = trips[i]
                      /\ (Installed(i)' => Installed(i))
                 \/ stalls'[i] = stalls[i] /\ ~Installed(i)'
                 \/ stalls'[i] = 0 /\ trips'[i] = 0
              /\ i > lastId' => subs'[i] = NoSub /\ trips'[i] = 0
    PROVE  TableInv'
<1>1. UNCHANGED <<pc, view, at>>
  BY DEF routeVars
<1>2. TableTypes'
  BY <1>1 DEF TableInv, TableTypes
<1>3. \A i : Ahead(i)' = Ahead(i)
  BY <1>1 DEF Ahead
<1>4. ASSUME NEW i \in SubIds
      PROVE  /\ stalls'[i] + Cardinality(Ahead(i)') < TripAfter + Cardinality(Routers)
             /\ Installed(i)' => stalls'[i] <= trips'[i] /\ trips'[i] < TripAfter
  <2>1. /\ stalls[i] \in Nat /\ trips[i] \in Nat
        /\ stalls[i] + Cardinality(Ahead(i)) < TripAfter + Cardinality(Routers)
        /\ Installed(i) => stalls[i] <= trips[i] /\ trips[i] < TripAfter
    BY DEF TableInv, TableTypes, StallInv
  <2>2. \/ stalls'[i] = stalls[i] /\ trips'[i] = trips[i] /\ (Installed(i)' => Installed(i))
        \/ stalls'[i] = stalls[i] /\ ~Installed(i)'
        \/ stalls'[i] = 0 /\ trips'[i] = 0
    OBVIOUS
  <2> QED BY <1>3, <2>1, <2>2, Sizes
<1>5. ASSUME NEW i \in SubIds, i > lastId'
      PROVE  subs'[i] = NoSub /\ trips'[i] = 0 /\ stalls'[i] = 0 /\ Ahead(i)' = {}
  <2>1. i > lastId
    BY <1>5 DEF SubIds, TableInv, TableTypes
  <2>2. stalls[i] = 0 /\ Ahead(i) = {}
    BY <2>1 DEF TableInv, StallInv
  <2> QED BY <1>3, <1>5, <2>2
<1>6. \A u \in Routers :
         /\ pc'[u] = "call" => u \in Ahead(at[u])'
         /\ pc'[u] \in {"call"} \cup PastCall => at'[u] \in SubIds
  BY <1>1 DEF TableInv, StallInv, Ahead
<1> QED BY <1>2, <1>4, <1>5, <1>6, Zenon DEF TableInv, StallInv

\* Subscribing, unsubscribing, restoring, clearing and consuming.
LEMMA OperatorStep ==
    ASSUME TableInv,
           Subscribe \/ Clear \/ \E i \in SubIds :
               Unsubscribe(i) \/ RestoreCallback(i) \/ Consume(i)
    PROVE  TableInv'
<1>1. /\ subs \in [SubIds -> Subscription \cup {NoSub}] /\ snapshot = subs
      /\ trips \in [SubIds -> Nat] /\ stalls \in [SubIds -> Nat]
      /\ lastId \in 0..MaxSubs /\ callbacks \in Nat
      /\ \A i \in SubIds : i > lastId => subs[i] = NoSub /\ trips[i] = 0 /\ stalls[i] = 0
  BY DEF TableInv, TableTypes, StallInv
<1>2. CASE Subscribe
  <2>1. PICK sub \in Subscription :
            subs' = [subs EXCEPT ![lastId'] = sub] /\ snapshot' = subs'
    <3>1. \A ids \in Filters : ids \in SUBSET Ids
      BY RouterAssumption
    <3>2. PICK ids \in Filters, calls \in BOOLEAN, queues \in BOOLEAN :
              /\ callbacks' = IF calls THEN callbacks + 1 ELSE callbacks
              /\ Publish([subs EXCEPT ![lastId'] =
                    [callback |-> IF calls THEN callbacks' ELSE 0, queued |-> queues,
                     ids |-> ids]])
      BY <1>2, Zenon DEF Subscribe
    <3>3. callbacks' \in Nat
      BY <1>1, <3>2
    <3> DEFINE sub == [callback |-> IF calls THEN callbacks' ELSE 0, queued |-> queues,
                       ids |-> ids]
    <3>4. sub \in Subscription
      BY <3>1, <3>3 DEF Subscription
    <3>5. subs' = [subs EXCEPT ![lastId'] = sub] /\ snapshot' = subs'
      BY <3>2 DEF Publish
    <3> QED BY <3>4, <3>5
  <2>2. /\ lastId' = lastId + 1 /\ lastId < MaxSubs /\ callbacks' \in Nat
        /\ UNCHANGED <<trips, stalls, routeVars>>
    BY <1>1, <1>2 DEF Subscribe
  <2>3. lastId' \in SubIds /\ lastId' > lastId /\ lastId' \in 0..MaxSubs
    BY <1>1, <2>2, Sizes DEF SubIds
  <2>4. /\ subs' \in [SubIds -> Subscription \cup {NoSub}]
        /\ \A i \in SubIds : i # lastId' => subs'[i] = subs[i]
    BY <1>1, <2>1, <2>3
  <2>5. stalls[lastId'] = 0 /\ trips[lastId'] = 0
    BY <1>1, <2>3
  <2>6. \A i \in SubIds : i > lastId' => i > lastId /\ i # lastId'
    BY <1>1, <2>2 DEF SubIds
  <2>7. \A i \in SubIds :
           /\ \/ stalls'[i] = stalls[i] /\ trips'[i] = trips[i]
                   /\ (Installed(i)' => Installed(i))
              \/ stalls'[i] = 0 /\ trips'[i] = 0
           /\ i > lastId' => subs'[i] = NoSub /\ trips'[i] = 0
    BY <1>1, <2>2, <2>4, <2>5, <2>6 DEF Installed
  <2>8. lastId' >= lastId
    BY <1>1, <2>2
  <2> QED BY <1>1, <2>1, <2>2, <2>3, <2>4, <2>7, <2>8, TableChanged
<1>3. CASE Clear
  <2>1. /\ subs' = NoSubs /\ snapshot' = subs'
        /\ UNCHANGED <<lastId, callbacks, trips, stalls, routeVars>>
    BY <1>3 DEF Clear, Publish
  <2>2. /\ subs' \in [SubIds -> Subscription \cup {NoSub}]
        /\ \A i \in SubIds : subs'[i] = NoSub /\ ~Installed(i)'
    BY <2>1 DEF NoSubs, Installed
  <2>3. lastId' \in 0..MaxSubs /\ lastId' >= lastId
    BY <1>1, <2>1
  <2> QED BY <1>1, <2>1, <2>2, <2>3, TableChanged
<1>4. ASSUME NEW i \in SubIds, Unsubscribe(i) PROVE TableInv'
  <2>1. /\ subs' = [subs EXCEPT ![i] = NoSub] /\ snapshot' = subs'
        /\ trips' = [trips EXCEPT ![i] = 0]
        /\ UNCHANGED <<lastId, callbacks, stalls, routeVars>>
    BY <1>4 DEF Unsubscribe, Publish
  <2>2. /\ subs' \in [SubIds -> Subscription \cup {NoSub}] /\ trips' \in [SubIds -> Nat]
        /\ subs'[i] = NoSub /\ trips'[i] = 0 /\ ~Installed(i)'
        /\ \A k \in SubIds : k # i => subs'[k] = subs[k] /\ trips'[k] = trips[k]
    BY <1>1, <2>1 DEF Installed
  <2>3. lastId' \in 0..MaxSubs /\ lastId' >= lastId
    BY <1>1, <2>1
  <2>4. \A k \in SubIds :
           /\ \/ stalls'[k] = stalls[k] /\ trips'[k] = trips[k]
                   /\ (Installed(k)' => Installed(k))
              \/ stalls'[k] = stalls[k] /\ ~Installed(k)'
           /\ k > lastId' => subs'[k] = NoSub /\ trips'[k] = 0
    BY <1>1, <2>1, <2>2 DEF Installed
  <2> QED BY <1>1, <2>1, <2>2, <2>3, <2>4, TableChanged
<1>5. ASSUME NEW i \in SubIds, RestoreCallback(i) PROVE TableInv'
  <2>1. /\ subs[i] # NoSub /\ callbacks' = callbacks + 1
        /\ subs' = [subs EXCEPT ![i] = [subs[i] EXCEPT !.callback = callbacks']]
        /\ snapshot' = subs'
        /\ trips' = [trips EXCEPT ![i] = 0] /\ stalls' = [stalls EXCEPT ![i] = 0]
        /\ UNCHANGED <<lastId, routeVars>>
    BY <1>5 DEF RestoreCallback, Publish, Replaced
  <2>2. [subs[i] EXCEPT !.callback = callbacks'] \in Subscription
    BY <1>1, <2>1 DEF Subscription
  <2>3. /\ subs' \in [SubIds -> Subscription \cup {NoSub}]
        /\ trips' \in [SubIds -> Nat] /\ stalls' \in [SubIds -> Nat]
        /\ trips'[i] = 0 /\ stalls'[i] = 0
        /\ \A k \in SubIds : k # i =>
              subs'[k] = subs[k] /\ trips'[k] = trips[k] /\ stalls'[k] = stalls[k]
    BY <1>1, <2>1, <2>2
  <2>4. lastId' \in 0..MaxSubs /\ lastId' >= lastId /\ callbacks' \in Nat
    BY <1>1, <2>1
  <2>5. \A k \in SubIds :
           /\ \/ stalls'[k] = stalls[k] /\ trips'[k] = trips[k]
                   /\ (Installed(k)' => Installed(k))
              \/ stalls'[k] = 0 /\ trips'[k] = 0
           /\ k > lastId' => subs'[k] = NoSub /\ trips'[k] = 0
    BY <1>1, <2>1, <2>3 DEF Installed
  <2> QED BY <1>1, <2>1, <2>3, <2>4, <2>5, TableChanged
<1>6. ASSUME NEW i \in SubIds, Consume(i) PROVE TableInv'
  <2>1. UNCHANGED <<subs, snapshot, lastId, callbacks, trips, stalls, routeVars>>
    BY <1>6 DEF Consume
  <2>2. lastId' \in 0..MaxSubs /\ lastId' >= lastId
    BY <1>1, <2>1
  <2> QED BY <1>1, <2>1, <2>2, TableChanged DEF Installed
<1> QED BY <1>2, <1>3, <1>4, <1>5, <1>6

LEMMA StallStep == TableInv /\ [Next]_vars => TableInv'
<1> SUFFICES ASSUME TableInv, [Next]_vars PROVE TableInv'
  OBVIOUS
<1>1. ASSUME NEW t \in Routers, Route(t) \/ RouteStep(t) PROVE TableInv'
  BY <1>1, RouteStarts, PassingStep, CalledStep, ReturnStep DEF RouteStep
<1>2. CASE UNCHANGED <<subVars, routeVars>>
  <2>1. UNCHANGED <<subs, snapshot, lastId, callbacks, trips, stalls, pc, view, at>>
    BY <1>2 DEF subVars, routeVars
  <2>2. lastId \in 0..MaxSubs /\ lastId >= lastId
    BY Sizes DEF TableInv, TableTypes
  <2>3. \A i \in SubIds : (Installed(i)' => Installed(i))
                           /\ (i > lastId => subs[i] = NoSub /\ trips[i] = 0)
    BY <2>1 DEF TableInv, StallInv, Installed
  <2>4. snapshot = subs /\ TableTypes
    BY DEF TableInv, StallInv
  <2> QED BY <1>2, <2>1, <2>2, <2>3, <2>4, TableChanged DEF TableTypes
<1>3. ASSUME NEW r \in Readers, Drain(r) \/ DrainStep(r) PROVE TableInv'
  <2>1. UNCHANGED <<subVars, routeVars>>
    BY <1>3 DEF Drain, DrainStep, DrainRead, DrainPublish, DrainReduce, DropsRead,
                   DropsPublish, DropsReduce, DrainTest, DrainPrune, DrainFails
  <2> QED BY <1>2, <2>1
<1> QED BY <1>1, <1>2, <1>3, OperatorStep DEF Next, vars

\* A callback that overspends stalls the RX threads at most TripAfter times in a row
\* and then once more for each other thread that had taken its snapshot before, for
\* any number of threads and subscribers, whatever is restored meanwhile.
THEOREM SlowCallbackIsCutOff == Spec => []StallsBounded
<1>1. TableInv => StallsBounded
  <2> SUFFICES ASSUME TableInv, NEW i \in SubIds
               PROVE  stalls[i] < TripAfter + Cardinality(Routers)
    BY DEF StallsBounded
  <2>1. stalls[i] \in Nat /\ stalls[i] + Cardinality(Ahead(i)) < TripAfter + Cardinality(Routers)
    BY DEF TableInv, TableTypes, StallInv
  <2> QED BY <2>1, Sizes
<1> QED BY StallInit, StallStep, <1>1, PTL DEF Spec

-----------------------------------------------------------------------------
(***************************************************************************)
(* The flasher.                                                            *)
(***************************************************************************)

\* A step of the order, and what an exchange, a flash and the ECU look like.
Step == {Order[i] : i \in DOMAIN Order}

FlashRecord ==
    [pc : {"none", "arming", "engine", "start", "claim", "refused", "check", "send",
           "answer", "exit", "retreat", "settle", "cleanup", "report", "alarm", "over"},
     step : Step, runs : 0..MaxFlashes, cancelled : BOOLEAN, opened : BOOLEAN,
     block : 1..Blocks + 1, since : Nat,
     answer : {"none", "positive", "negative", "busy"}, polls : 0..MaxPolls,
     failed : BOOLEAN, late : Nat, inHand : BOOLEAN, exitTried : BOOLEAN]

EcuState ==
    [session : {"default", "extended", "programming"}, unlocked : BOOLEAN,
     open : 0..MaxFlashes, image : Seq(Flash), good : BOOLEAN, bricked : BOOLEAN]

FlashTypes ==
    /\ status \in {"none", "in_progress", "cancelled", "completed", "failed",
                   "cleanup_failed"}
    /\ engine \in 0..MaxFlashes /\ stuck \in BOOLEAN
    /\ canceller \in {"idle", "look", "log"}
    /\ w \in [Flash -> FlashRecord]
    /\ armed \in BOOLEAN /\ ecu \in EcuState
    /\ doubled \in BOOLEAN

Early == {"extend", "identify", "program", "seed", "key", "erase", "download"}

InStep(r) == r.pc \in {"check", "send", "answer"}

\* How far a flash has come.
Progress(r) ==
    /\ r.step \in Early => r.block = 1
    /\ r.step = "block" => r.block =< Blocks
    /\ r.answer = "busy" => r.step = "result"
    /\ r.pc \in {"none", "arming", "engine", "start", "claim"} =>
          r.step = "extend" /\ ~r.opened /\ r.late = 0
    /\ InStep(r) => r.step # "done" /\ (r.step # "extend" => r.opened)

\* A write that goes out after the cancel() had passed its check before it.
LateInv(r) ==
    /\ r.late =< 1
    /\ r.late = 1 => r.cancelled /\ r.inHand
    /\ r.cancelled /\ r.pc = "send" /\ r.step \in Writes => r.inHand /\ r.late = 0

RecordInv == \A f \in Flash : Progress(w[f]) /\ LateInv(w[f])

\* The flash whose download is open will close it or has tried to.
WillClose(r) ==
    \/ r.exitTried
    \/ r.pc = "exit"
    \/ r.pc = "answer" /\ r.step = "download"
    \/ InStep(r) /\ r.step = "block"
    \/ r.pc \in {"check", "send"} /\ r.step = "exit"
    \/ r.pc = "answer" /\ r.step = "exit" /\ r.answer # "positive"

OpenInv == \A f \in Flash : ecu.open = f => WillClose(w[f])

\* The checksum routine has confirmed the image to this flash.
Confirmed(r) ==
    \/ r.pc \in {"check", "send"} /\ r.step = "reset"
    \/ r.pc = "answer" /\ r.step = "result" /\ r.answer = "positive"

GoodInv ==
    ~doubled =>
        /\ ~ecu.bricked
        /\ \A f, g \in Flash : Running(f) /\ Running(g) => f = g
        /\ \A f \in Flash : Confirmed(w[f]) => ecu.good

\* A set of naturals that has a member has a least one.
LEMMA LeastStep ==
    ASSUME NEW S \in SUBSET Nat, S # {}
    PROVE  \E m \in S : \A k \in S : m =< k
<1>1. PICK m \in S : \A y \in S : ~(<<y, m>> \in OpToRel(<, Nat))
  BY NatLessThanWellFounded, WFMin
<1>2. \A y \in S : m =< y
  <2> SUFFICES ASSUME NEW y \in S, y < m PROVE FALSE
    OBVIOUS
  <2>1. <<y, m>> \in OpToRel(<, Nat)
    BY DEF OpToRel
  <2> QED BY <1>1, <2>1
<1> QED BY <1>2

LEMMA OrderIs ==
    /\ DOMAIN Order = 1..13
    /\ Order[1] = "extend" /\ Order[2] = "identify" /\ Order[3] = "program"
    /\ Order[4] = "seed" /\ Order[5] = "key" /\ Order[6] = "erase"
    /\ Order[7] = "download" /\ Order[8] = "block" /\ Order[9] = "exit"
    /\ Order[10] = "checksum" /\ Order[11] = "result" /\ Order[12] = "reset"
    /\ Order[13] = "done"
BY DEF Order

LEMMA OrderOnce == \A i, j \in 1..13 : Order[i] = Order[j] => i = j
BY OrderIs

\* The next step is the first one behind that the configuration does not skip.
LEMMA AfterIs ==
    ASSUME NEW i \in 1..12
    PROVE  \E j \in 1..13 :
              /\ After(Order[i]) = Order[j] /\ j > i /\ Order[j] \notin Skipped
              /\ \A k \in 1..13 : k > i /\ Order[k] \notin Skipped => j =< k
<1> DEFINE later == {j \in 1..13 : j > i /\ Order[j] \notin Skipped}
<1>1. (CHOOSE j \in 1..13 : Order[j] = Order[i]) = i
  BY OrderOnce
<1>2. later \in SUBSET Nat /\ 13 \in later
  BY OrderIs, FlasherAssumption DEF Optional
<1>3. PICK m \in later : \A k \in later : m =< k
  BY <1>2, LeastStep
<1>4. (CHOOSE j \in later : \A k \in later : j =< k) \in later
      /\ \A k \in later : (CHOOSE j \in later : \A l \in later : j =< l) =< k
  BY <1>3
<1>5. After(Order[i]) = Order[CHOOSE j \in later : \A k \in later : j =< k]
  <2>1. DOMAIN Order = 1..13
    BY OrderIs
  <2> QED BY <1>1, <2>1, Zenon DEF After
<1> QED BY <1>4, <1>5

\* What the order says of a step and the next one, whatever is skipped.
LEMMA AfterFacts ==
    ASSUME NEW step \in Step, step # "done"
    PROVE  /\ After(step) \in Step \ {"extend"}
           /\ step \in Early => After(step) \in Early \cup {"block"}
           /\ step = "download" => After(step) = "block"
           /\ step = "block" => After(step) = "exit"
           /\ step \in {"exit", "checksum", "result", "reset"} =>
                 After(step) \in {"checksum", "result", "reset", "done"}
           /\ After(step) = "reset" => step = "result"
<1>1. PICK i \in 1..12 : step = Order[i]
  BY OrderIs DEF Step
<1>2. PICK j \in 1..13 :
         /\ After(step) = Order[j] /\ j > i /\ Order[j] \notin Skipped
         /\ \A k \in 1..13 : k > i /\ Order[k] \notin Skipped => j =< k
  BY <1>1, AfterIs
<1>3. \A k \in {3, 7, 8, 9, 10, 11} : k > i => j =< k
  <2>1. {Order[3], Order[7], Order[8], Order[9], Order[10], Order[11]} \cap Skipped = {}
    BY OrderIs, FlasherAssumption DEF Optional
  <2> QED BY <1>2, <2>1
<1>4. After(step) \in Step \ {"extend"}
  BY <1>2, OrderIs, OrderOnce DEF Step
<1>5. step \in Early => i \in 1..7 /\ After(step) \in Early \cup {"block"}
  <2> SUFFICES ASSUME step \in Early PROVE i \in 1..7 /\ After(step) \in Early \cup {"block"}
    OBVIOUS
  <2>1. i \in 1..7
    BY <1>1, OrderIs DEF Early
  <2>2. j \in 2..8
    BY <1>2, <1>3, <2>1
  <2> QED BY <1>2, <2>1, <2>2, OrderIs DEF Early
<1>6. step = "download" => After(step) = "block"
  <2>1. ASSUME step = "download" PROVE i = 7
    <3>1. Order[i] = Order[7]
      BY <1>1, <2>1, OrderIs
    <3> QED BY <3>1, OrderOnce
  <2>2. i = 7 => j = 8
    BY <1>2, <1>3
  <2> QED BY <1>2, <2>1, <2>2, OrderIs
<1>7. step = "block" => After(step) = "exit"
  <2>1. ASSUME step = "block" PROVE i = 8
    <3>1. Order[i] = Order[8]
      BY <1>1, <2>1, OrderIs
    <3> QED BY <3>1, OrderOnce
  <2>2. i = 8 => j = 9
    BY <1>2, <1>3
  <2> QED BY <1>2, <2>1, <2>2, OrderIs
<1>8. step \in {"exit", "checksum", "result", "reset"} =>
         After(step) \in {"checksum", "result", "reset", "done"}
  BY <1>1, <1>2, OrderIs
<1>9. After(step) = "reset" => step = "result"
  <2> SUFFICES ASSUME After(step) = "reset" PROVE step = "result"
    OBVIOUS
  <2>1. j = 12
    BY <1>2, OrderIs
  <2>2. i = 11
    BY <1>2, <1>3, <2>1
  <2> QED BY <1>1, <2>2, OrderIs
<1> QED BY <1>4, <1>5, <1>6, <1>7, <1>8, <1>9

\* Failing keeps a flash well formed, and one that had left its ECU's session
\* goes through the recovery.
LEMMA FailedFacts ==
    ASSUME NEW r \in FlashRecord, Progress(r), LateInv(r), InStep(r)
    PROVE  /\ Failed(r) \in FlashRecord /\ Progress(Failed(r)) /\ LateInv(Failed(r))
           /\ r.step # "extend" => Failed(r).pc = "exit"
           /\ Failed(r).pc \in {"exit", "settle"}
<1>1. Failed(r) \in FlashRecord
  BY DEF Failed, FlashRecord
<1>2. /\ Failed(r).step = r.step /\ Failed(r).block = r.block /\ Failed(r).late = r.late
      /\ Failed(r).cancelled = r.cancelled /\ Failed(r).answer = r.answer
      /\ Failed(r).inHand = r.inHand
      /\ Failed(r).pc = IF r.opened THEN "exit" ELSE "settle"
  BY DEF Failed, FlashRecord
<1> QED BY <1>1, <1>2 DEF Progress, LateInv, InStep

\* Where an answer takes a flash.
LEMMA ProceedsFacts ==
    ASSUME NEW r \in FlashRecord, Progress(r), LateInv(r), r.pc = "answer"
    PROVE  LET q == [Proceeds(r) EXCEPT !.answer = "none"]
           IN  /\ q \in FlashRecord /\ Progress(q) /\ LateInv(q)
               /\ q.pc \in {"check", "send", "exit", "settle"}
               /\ WillClose(r) => WillClose(q)
               /\ Confirmed(q) => Confirmed(r)
<1> DEFINE p == Proceeds(r)
           q == [p EXCEPT !.answer = "none"]
<1>1. InStep(r) /\ r.step \in Step /\ r.step # "done"
  BY DEF InStep, Progress, FlashRecord
<1>2. CASE r.answer \in {"none", "negative"} \/ (r.answer = "busy" /\ r.polls = MaxPolls)
  <2>1. p = Failed(r)
    BY <1>2 DEF Proceeds, Polled
  <2>2. /\ p \in FlashRecord /\ Progress(p) /\ LateInv(p) /\ p.pc \in {"exit", "settle"}
        /\ r.step # "extend" => p.pc = "exit"
    BY <1>1, <2>1, FailedFacts
  <2>3. p.exitTried = r.exitTried
    BY <2>1 DEF Failed, FlashRecord
  <2> HIDE DEF p
  <2>4. q \in FlashRecord /\ q.pc = p.pc /\ q.step = p.step /\ q.exitTried = p.exitTried
        /\ q.block = p.block /\ q.late = p.late /\ q.cancelled = p.cancelled
        /\ q.answer = "none" /\ q.inHand = p.inHand
    BY <2>2 DEF FlashRecord
  <2>5. Progress(q) /\ LateInv(q)
    BY <2>2, <2>4 DEF Progress, LateInv, InStep
  <2>6. WillClose(r) => WillClose(q)
    BY <2>2, <2>3, <2>4 DEF WillClose, InStep
  <2>7. ~Confirmed(q)
    BY <2>2, <2>4 DEF Confirmed
  <2> QED BY <2>2, <2>4, <2>5, <2>6, <2>7 DEF p
<1>3. CASE r.answer = "busy" /\ r.polls # MaxPolls
  <2>1. p = [r EXCEPT !.pc = "send", !.polls = @ + 1]
    BY <1>3 DEF Proceeds, Polled
  <2>2. r.polls + 1 \in 0..MaxPolls
    BY <1>3, FlasherAssumption DEF FlashRecord
  <2>3. /\ q \in FlashRecord /\ q.pc = "send" /\ q.step = r.step /\ q.exitTried = r.exitTried
        /\ q.block = r.block /\ q.late = r.late /\ q.cancelled = r.cancelled
        /\ q.answer = "none" /\ q.opened = r.opened /\ q.inHand = r.inHand
    BY <2>1, <2>2 DEF FlashRecord
  <2>4. r.step = "result"
    BY <1>3 DEF Progress
  <2>5. Progress(q)
    BY <2>3, <2>4 DEF Progress, InStep, Early
  <2>6. LateInv(q)
    BY <2>3, <2>4 DEF LateInv, Writes
  <2>7. (WillClose(r) => WillClose(q)) /\ ~Confirmed(q)
    BY <2>3, <2>4 DEF WillClose, Confirmed
  <2> QED BY <2>3, <2>5, <2>6, <2>7
<1>4. CASE r.answer = "positive"
  <2> DEFINE next == IF r.step = "block" /\ r.block < Blocks THEN "block" ELSE After(r.step)
             here == IF next = "done" THEN "settle" ELSE "check"
  <2>1. p = IF r.step = "extend" THEN Moved([r EXCEPT !.opened = TRUE], next)
            ELSE IF r.step = "block"
                 THEN Moved([r EXCEPT !.block = @ + 1, !.since = @ + 1], next)
            ELSE Moved(r, next)
    BY <1>4 DEF Proceeds, Succeeded
  <2>2. /\ next \in Step \ {"extend"}
        /\ r.step \in Early => next \in Early \cup {"block"}
        /\ r.step = "download" => next = "block"
        /\ r.step = "block" => next \in {"block", "exit"}
        /\ r.step = "block" /\ r.block >= Blocks => next = "exit"
        /\ r.step \in {"exit", "checksum", "result", "reset"} =>
              next \in {"checksum", "result", "reset", "done"}
        /\ next = "reset" => r.step = "result"
    <3>1. "block" \in Step \ {"extend"}
      BY OrderIs DEF Step
    <3>2. /\ After(r.step) \in Step \ {"extend"}
          /\ r.step \in Early => After(r.step) \in Early \cup {"block"}
          /\ r.step = "download" => After(r.step) = "block"
          /\ r.step = "block" => After(r.step) = "exit"
          /\ r.step \in {"exit", "checksum", "result", "reset"} =>
                After(r.step) \in {"checksum", "result", "reset", "done"}
          /\ After(r.step) = "reset" => r.step = "result"
      BY <1>1, AfterFacts
    <3>3. r.block \in Nat /\ Blocks \in Nat
      BY FlasherAssumption DEF FlashRecord
    <3> QED BY <3>1, <3>2, <3>3 DEF Early
  <2> HIDE DEF next
  <2>3. /\ r.step = "block" => r.block + 1 \in 1..Blocks + 1 /\ r.since + 1 \in Nat
        /\ r.block \in Nat /\ Blocks \in Nat
    BY FlasherAssumption DEF FlashRecord, Progress
  <2>4. /\ q \in FlashRecord /\ q.pc = here /\ q.step = next /\ q.exitTried = r.exitTried
        /\ q.block = IF r.step = "block" THEN r.block + 1 ELSE r.block
        /\ q.late = r.late /\ q.cancelled = r.cancelled /\ q.answer = "none"
        /\ q.inHand = r.inHand
        /\ q.opened = IF r.step = "extend" THEN TRUE ELSE r.opened
    <3> DEFINE base == IF r.step = "extend" THEN [r EXCEPT !.opened = TRUE]
                       ELSE IF r.step = "block" THEN [r EXCEPT !.block = @ + 1, !.since = @ + 1]
                       ELSE r
    <3>1. base \in FlashRecord
      BY <2>3 DEF FlashRecord
    <3>2. /\ base.exitTried = r.exitTried /\ base.late = r.late /\ base.cancelled = r.cancelled
          /\ base.inHand = r.inHand
          /\ base.block = IF r.step = "block" THEN r.block + 1 ELSE r.block
          /\ base.opened = IF r.step = "extend" THEN TRUE ELSE r.opened
      BY DEF FlashRecord
    <3>3. p = Moved(base, next)
      BY <2>1
    <3> HIDE DEF base, p
    <3>4. q = [base EXCEPT !.pc = here, !.step = next, !.answer = "none"]
      BY <3>1, <3>3 DEF Moved, FlashRecord
    <3>5. here \in {"settle", "check"} /\ next \in Step
      BY <2>2
    <3> HIDE DEF here, q
    <3>6. /\ q \in FlashRecord /\ q.pc = here /\ q.step = next /\ q.exitTried = base.exitTried
          /\ q.block = base.block /\ q.late = base.late /\ q.cancelled = base.cancelled
          /\ q.answer = "none" /\ q.opened = base.opened /\ q.inHand = base.inHand
      BY <3>1, <3>4, <3>5 DEF FlashRecord
    <3> QED BY <3>2, <3>6
  <2>5. Progress(q)
    <3>1. q.step \in Early => q.block = 1
      <4>1. r.step \in Early \cup {"block", "exit", "checksum", "result", "reset"}
        BY <1>1, OrderIs DEF Step, Early
      <4> QED BY <2>2, <2>4, <4>1 DEF Progress, Early
    <3>2. q.step = "block" => q.block =< Blocks
      <4>1. r.step \in Early \cup {"block", "exit", "checksum", "result", "reset"}
        BY <1>1, OrderIs DEF Step, Early
      <4>2. CASE r.step \in Early
        BY <2>3, <2>4, <4>2, FlasherAssumption DEF Progress, Early
      <4>3. CASE r.step = "block"
        BY <2>2, <2>3, <2>4, <4>3
      <4> QED BY <2>2, <2>4, <4>1, <4>2, <4>3
    <3>3. InStep(q) => q.step # "done" /\ q.opened
      <4>1. r.step # "extend" => r.opened
        BY <1>1, Zenon DEF Progress
      <4>2. q.opened
        <5>1. CASE r.step = "extend"
          <6>1. q.opened = TRUE
            BY <2>4, <5>1
          <6> QED BY <6>1, Zenon
        <5>2. CASE r.step # "extend"
          <6>1. q.opened = r.opened
            BY <2>4, <5>2
          <6> QED BY <4>1, <5>2, <6>1, Zenon
        <5> QED BY <5>1, <5>2
      <4>3. q.pc = here /\ q.step = next
        BY <2>4
      <4> HIDE DEF q
      <4>4. InStep(q) => q.step # "done"
        BY <4>3 DEF InStep
      <4> QED BY <4>2, <4>4
    <3> QED BY <2>4, <3>1, <3>2, <3>3 DEF Progress
  <2>6. LateInv(q)
    BY <2>4 DEF LateInv
  <2>7. WillClose(r) => WillClose(q)
    BY <1>4, <2>2, <2>4 DEF WillClose, InStep
  <2>8. Confirmed(q) => Confirmed(r)
    BY <1>4, <2>2, <2>4 DEF Confirmed
  <2> QED BY <2>4, <2>5, <2>6, <2>7, <2>8
<1> QED BY <1>2, <1>3, <1>4 DEF FlashRecord

LEMMA FlashConstants ==
    /\ MaxFlashes \in Nat /\ Blocks \in Nat /\ Blocks > 0 /\ MaxPolls \in Nat
    /\ SeqMod \in Nat \ {0} /\ Flash = 1..MaxFlashes
BY FlasherAssumption DEF Flash

\* A session begins locked and without a download; the image stays.
LEMMA EnteredFacts ==
    ASSUME ecu \in EcuState, NEW session \in {"default", "extended", "programming"}
    PROVE  /\ Entered(session) \in EcuState
           /\ Entered(session).open = 0 /\ Entered(session).good = ecu.good
           /\ Entered(session).bricked = ecu.bricked
<1>1. 0 \in 0..MaxFlashes
  BY FlashConstants
<1> QED BY <1>1 DEF Entered, EcuState

\* What the ECU serves leaves it in a state it can be in.
LEMMA ServedState ==
    ASSUME ecu \in EcuState, NEW f \in Flash, NEW step
    PROVE  Served(f, step) \in EcuState
<1>0. /\ f \in 0..MaxFlashes /\ 0 \in 0..MaxFlashes /\ <<>> \in Seq(Flash)
      /\ ecu.image \in Seq(Flash) /\ Append(ecu.image, f) \in Seq(Flash)
      /\ (ecu.image = Whole(f)) \in BOOLEAN /\ (ecu.bricked \/ ~ecu.good) \in BOOLEAN
  BY FlashConstants DEF EcuState
<1>1. \A session \in {"default", "extended", "programming"} : Entered(session) \in EcuState
  BY EnteredFacts
<1>2. [Entered("default") EXCEPT !.bricked = @ \/ ~ecu.good] \in EcuState
  BY <1>0, <1>1 DEF EcuState
<1>3. [ecu EXCEPT !.open = f, !.image = <<>>, !.good = FALSE] \in EcuState
  BY <1>0 DEF EcuState
<1>4. [ecu EXCEPT !.image = Append(@, f)] \in EcuState
  BY <1>0 DEF EcuState
<1>5. /\ [ecu EXCEPT !.unlocked = TRUE] \in EcuState
      /\ [ecu EXCEPT !.image = <<>>, !.good = FALSE] \in EcuState
      /\ [ecu EXCEPT !.open = 0] \in EcuState
  BY <1>0 DEF EcuState
<1>6. [ecu EXCEPT !.good = ecu.image = Whole(f)] \in EcuState
  BY <1>0 DEF EcuState
<1> QED BY <1>1, <1>2, <1>3, <1>4, <1>5, <1>6 DEF Served

\* One flash takes a turn.
LEMMA Turned ==
    ASSUME w \in [Flash -> FlashRecord], RecordInv, NEW f \in Flash, NEW r \in FlashRecord,
           Progress(r), LateInv(r), w' = [w EXCEPT ![f] = r]
    PROVE  w' \in [Flash -> FlashRecord] /\ RecordInv'
BY DEF RecordInv

LEMMA RecordStep ==
    ASSUME FlashTypes, RecordInv, [FlashNext]_flashVars
    PROVE  w' \in [Flash -> FlashRecord] /\ RecordInv'
<1>w. w \in [Flash -> FlashRecord]
  BY DEF FlashTypes
<1>r. \A f \in Flash : w[f] \in FlashRecord /\ Progress(w[f]) /\ LateInv(w[f])
  BY <1>w DEF RecordInv
<1>1. ASSUME NEW f \in Flash, NEW place, place \in {"arming", "engine", "start"},
             w[f].pc \in {"none", "arming", "engine"}, w' = [w EXCEPT ![f].pc = place]
      PROVE  w' \in [Flash -> FlashRecord] /\ RecordInv'
  <2> DEFINE r == [w[f] EXCEPT !.pc = place]
  <2>1. r \in FlashRecord
    BY <1>1, <1>r DEF FlashRecord
  <2>2. Progress(r) /\ LateInv(r)
    BY <1>1, <1>r DEF Progress, LateInv, InStep, FlashRecord
  <2> QED BY <1>1, <1>w, <2>1, <2>2, Turned
<1>2. ASSUME NEW f \in Flash, NEW place,
             place \in {"refused", "settle", "cleanup", "report", "alarm", "over"},
             w' = [w EXCEPT ![f].pc = place]
      PROVE  w' \in [Flash -> FlashRecord] /\ RecordInv'
  <2> DEFINE r == [w[f] EXCEPT !.pc = place]
  <2>1. r \in FlashRecord
    BY <1>2, <1>r DEF FlashRecord
  <2>2. Progress(r) /\ LateInv(r)
    BY <1>2, <1>r DEF Progress, LateInv, InStep, FlashRecord
  <2> QED BY <1>2, <1>w, <2>1, <2>2, Turned
<1>3. ASSUME NEW f \in Flash, Claim(f) PROVE w' \in [Flash -> FlashRecord] /\ RecordInv'
  <2> DEFINE place == IF armed THEN "check" ELSE "settle"
             failed == ~armed
             r == [w[f] EXCEPT !.cancelled = FALSE, !.pc = place, !.failed = failed]
  <2>1. w[f].pc = "claim" /\ w' = [w EXCEPT ![f] = r]
    BY <1>3, <1>w DEF Claim, At
  <2>6. place \in {"check", "settle"} /\ failed \in BOOLEAN
    OBVIOUS
  <2> HIDE DEF place, failed
  <2>2. r \in FlashRecord
    <3>1. [w[f] EXCEPT !.cancelled = FALSE, !.pc = place] \in FlashRecord
      BY <1>r, <2>6 DEF FlashRecord
    <3> QED BY <2>6, <3>1 DEF FlashRecord
  <2>3. /\ r.step = w[f].step /\ r.block = w[f].block /\ r.answer = w[f].answer
        /\ r.late = w[f].late /\ r.pc \in {"check", "settle"} /\ r.inHand = w[f].inHand
    BY <1>r, <2>6 DEF FlashRecord
  <2>4. w[f].step = "extend" /\ w[f].late = 0
    BY <1>r, <2>1 DEF Progress
  <2> HIDE DEF r
  <2>5. Progress(r) /\ LateInv(r)
    BY <1>r, <2>3, <2>4 DEF Progress, LateInv, InStep
  <2> QED BY <1>w, <2>1, <2>2, <2>5, Turned
<1>4. ASSUME NEW f \in Flash, InStep(w[f]), w' = [w EXCEPT ![f] = Failed(@)]
      PROVE  w' \in [Flash -> FlashRecord] /\ RecordInv'
  <2>1. Failed(w[f]) \in FlashRecord /\ Progress(Failed(w[f])) /\ LateInv(Failed(w[f]))
    BY <1>r, <1>4, FailedFacts
  <2> QED BY <1>4, <1>w, <2>1, Turned
<1>5. ASSUME NEW f \in Flash, Check(f) PROVE w' \in [Flash -> FlashRecord] /\ RecordInv'
  <2> DEFINE recheck == w[f].step = "block" /\ w[f].since >= Recheck
             r == [w[f] EXCEPT !.pc = "send", !.since = IF recheck THEN 0 ELSE @]
  <2>1. w[f].pc = "check" /\ InStep(w[f])
    BY <1>5 DEF Check, At, InStep
  <2>4. \/ w' = [w EXCEPT ![f] = Failed(@)]
        \/ ~(Checked(w[f]) /\ w[f].cancelled) /\ w' = [w EXCEPT ![f] = r]
    BY <1>5 DEF Check
  <2>2. CASE w' = [w EXCEPT ![f] = Failed(@)]
    BY <1>4, <2>1, <2>2
  <2>3. CASE ~(Checked(w[f]) /\ w[f].cancelled) /\ w' = [w EXCEPT ![f] = r]
    <3> DEFINE since == IF recheck THEN 0 ELSE w[f].since
    <3>0. r = [w[f] EXCEPT !.pc = "send", !.since = since] /\ since \in Nat
      BY <1>r DEF FlashRecord
    <3> HIDE DEF since, r
    <3>1. r \in FlashRecord
      <4>1. [w[f] EXCEPT !.pc = "send"] \in FlashRecord
        BY <1>r DEF FlashRecord
      <4> QED BY <3>0, <4>1 DEF FlashRecord
    <3>2. /\ r.step = w[f].step /\ r.block = w[f].block /\ r.answer = w[f].answer
          /\ r.late = w[f].late /\ r.pc = "send" /\ r.cancelled = w[f].cancelled
          /\ r.opened = w[f].opened /\ r.inHand = w[f].inHand
      BY <1>r, <3>0 DEF FlashRecord
    <3>3. Progress(r)
      BY <1>r, <2>1, <3>2 DEF Progress, InStep
    <3>4. LateInv(r)
      BY <1>r, <2>3, <3>2 DEF LateInv, Writes, Checked
    <3> QED BY <1>w, <2>3, <3>1, <3>3, <3>4, Turned
  <2> QED BY <2>2, <2>3, <2>4
<1>6. ASSUME NEW f \in Flash, NEW answer, answer \in {"none", "positive", "negative", "busy"},
             answer = "busy" => w[f].step = "result", w[f].pc = "send", Sent(f, answer)
      PROVE  w' \in [Flash -> FlashRecord] /\ RecordInv'
  <2> DEFINE late == IF w[f].cancelled /\ w[f].step \in Writes THEN w[f].late + 1 ELSE w[f].late
             r == [w[f] EXCEPT !.pc = "answer", !.answer = answer, !.late = late]
  <2>1. w' = [w EXCEPT ![f] = r]
    BY <1>6, <1>w DEF Sent
  <2>2. late \in Nat /\ late =< 1 /\ (late = 1 => w[f].cancelled /\ w[f].inHand)
    <3>1. w[f].late \in Nat /\ w[f].late =< 1
      BY <1>r DEF FlashRecord, LateInv
    <3>2. CASE w[f].cancelled /\ w[f].step \in Writes
      <4>1. w[f].late = 0 /\ w[f].inHand
        BY <1>r, <1>6, <3>2 DEF LateInv
      <4> QED BY <3>2, <4>1
    <3>3. CASE ~(w[f].cancelled /\ w[f].step \in Writes)
      <4>1. late = w[f].late
        BY <3>3
      <4> QED BY <1>r, <3>1, <4>1 DEF LateInv
    <3> QED BY <3>2, <3>3
  <2> HIDE DEF late
  <2>3. r \in FlashRecord
    <3>1. [w[f] EXCEPT !.pc = "answer", !.answer = answer] \in FlashRecord
      BY <1>r, <1>6 DEF FlashRecord
    <3> QED BY <2>2, <3>1 DEF FlashRecord
  <2>4. /\ r.step = w[f].step /\ r.block = w[f].block /\ r.answer = answer
        /\ r.late = late /\ r.pc = "answer" /\ r.cancelled = w[f].cancelled
        /\ r.opened = w[f].opened /\ r.inHand = w[f].inHand
    BY <1>r DEF FlashRecord
  <2> HIDE DEF r
  <2>5. Progress(r)
    BY <1>r, <1>6, <2>4 DEF Progress, InStep
  <2>6. LateInv(r)
    BY <2>2, <2>4 DEF LateInv
  <2> QED BY <1>w, <2>1, <2>3, <2>5, <2>6, Turned
<1>7. ASSUME NEW f \in Flash, Request(f) PROVE w' \in [Flash -> FlashRecord] /\ RecordInv'
  <2>1. CASE Refused(f)
    <3>1. InStep(w[f]) /\ w' = [w EXCEPT ![f] = Failed(@)]
      BY <2>1 DEF Refused, At, InStep
    <3> QED BY <1>4, <3>1
  <2>2. CASE Lost(f)
    BY <1>6, <2>2 DEF Lost, At
  <2>3. CASE Rejected(f)
    BY <1>6, <2>3 DEF Rejected, At
  <2>4. CASE Answered(f)
    <3>1. PICK answer \in {"positive", "negative", "busy"} :
             (answer = "busy" => w[f].step = "result") /\ w[f].pc = "send" /\ Sent(f, answer)
      BY <2>4 DEF Answered, At
    <3> QED BY <1>6, <3>1
  <2> QED BY <1>7, <2>1, <2>2, <2>3, <2>4 DEF Request
<1>8. ASSUME NEW f \in Flash, Answer(f) PROVE w' \in [Flash -> FlashRecord] /\ RecordInv'
  <2> DEFINE r == [Proceeds(w[f]) EXCEPT !.answer = "none"]
  <2>1. w[f].pc = "answer" /\ w' = [w EXCEPT ![f] = r]
    BY <1>8, <1>w DEF Answer, At
  <2>2. r \in FlashRecord /\ Progress(r) /\ LateInv(r)
    BY <1>r, <2>1, ProceedsFacts
  <2> HIDE DEF r
  <2> QED BY <1>w, <2>1, <2>2, Turned
<1>9. ASSUME NEW f \in Flash, TryExit(f) PROVE w' \in [Flash -> FlashRecord] /\ RecordInv'
  <2>1. PICK p \in {"settle", "retreat"} :
           w[f].pc = "exit" /\ w' = [w EXCEPT ![f].pc = p, ![f].exitTried = p = "retreat"]
    BY <1>9 DEF TryExit, At
  <2> DEFINE tried == p = "retreat"
             r == [w[f] EXCEPT !.pc = p, !.exitTried = tried]
  <2>6. tried \in BOOLEAN
    OBVIOUS
  <2>4. w' = [w EXCEPT ![f] = r]
    BY <1>w, <2>1
  <2> HIDE DEF tried
  <2>2. r \in FlashRecord
    <3>1. [w[f] EXCEPT !.pc = p] \in FlashRecord
      BY <1>r DEF FlashRecord
    <3> QED BY <2>6, <3>1 DEF FlashRecord
  <2>3. /\ r.step = w[f].step /\ r.block = w[f].block /\ r.answer = w[f].answer
        /\ r.late = w[f].late /\ r.pc = p /\ r.cancelled = w[f].cancelled
        /\ r.inHand = w[f].inHand
    BY <1>r DEF FlashRecord
  <2> HIDE DEF r
  <2>5. Progress(r) /\ LateInv(r)
    BY <1>r, <2>1, <2>3 DEF Progress, LateInv, InStep
  <2> QED BY <1>w, <2>2, <2>4, <2>5, Turned
<1>10. ASSUME NEW f \in Flash, Settle(f) PROVE w' \in [Flash -> FlashRecord] /\ RecordInv'
  <2> DEFINE r == Returned(w[f])
  <2>1. w[f].pc = "settle" /\ w' = [w EXCEPT ![f] = r]
    BY <1>10, <1>w DEF Settle, At
  <2>2. "extend" \in Step /\ 1 \in 1..Blocks + 1 /\ 0 \in 0..MaxPolls /\ 0 \in 0..MaxFlashes
    BY OrderIs, FlashConstants DEF Step
  <2>3. r \in FlashRecord
    BY <1>r, <2>2 DEF Returned, Fresh, FlashRecord
  <2>4. /\ r.step = "extend" /\ r.block = 1 /\ r.answer = "none"
        /\ r.late = w[f].late /\ r.pc = "cleanup" /\ r.cancelled = w[f].cancelled
        /\ r.inHand = w[f].inHand
    BY DEF Returned, Fresh
  <2> HIDE DEF r
  <2>5. Progress(r) /\ LateInv(r)
    BY <1>r, <2>1, <2>4 DEF Progress, LateInv, InStep
  <2> QED BY <1>w, <2>1, <2>3, <2>5, Turned
<1>11. ASSUME NEW f \in Flash, w' = [w EXCEPT ![f] = Cancelled(@)]
       PROVE  w' \in [Flash -> FlashRecord] /\ RecordInv'
  <2>1. CASE w[f].cancelled
    <3>1. w' = [w EXCEPT ![f] = w[f]]
      BY <1>11, <1>w, <2>1 DEF Cancelled
    <3> QED BY <1>r, <1>w, <3>1, Turned
  <2>2. CASE ~w[f].cancelled
    <3> DEFINE hit == w[f].pc = "send" /\ w[f].step \in Writes
               r == [w[f] EXCEPT !.cancelled = TRUE, !.inHand = hit]
    <3>1. hit \in BOOLEAN /\ w' = [w EXCEPT ![f] = r]
      BY <1>11, <1>w, <2>2 DEF Cancelled
    <3>2. w[f].late = 0
      <4>1. w[f].late \in Nat /\ w[f].late =< 1 /\ w[f].late # 1
        BY <1>r, <2>2 DEF FlashRecord, LateInv
      <4> QED BY <4>1
    <3> HIDE DEF hit
    <3>3. r \in FlashRecord
      <4>1. [w[f] EXCEPT !.cancelled = TRUE] \in FlashRecord
        BY <1>r DEF FlashRecord
      <4> QED BY <3>1, <4>1 DEF FlashRecord
    <3>4. /\ r.step = w[f].step /\ r.block = w[f].block /\ r.answer = w[f].answer
          /\ r.late = w[f].late /\ r.pc = w[f].pc /\ r.opened = w[f].opened
          /\ r.inHand = hit
      BY <1>r DEF FlashRecord
    <3> HIDE DEF r
    <3>5. Progress(r)
      BY <1>r, <3>4 DEF Progress, InStep
    <3>6. LateInv(r)
      <4>1. r.late = 0 /\ r.late =< 1 /\ r.late # 1
        BY <3>2, <3>4
      <4>2. r.pc = "send" /\ r.step \in Writes => r.inHand
        BY <3>4, Zenon DEF hit
      <4> QED BY <4>1, <4>2, Zenon DEF LateInv
    <3> QED BY <1>w, <3>1, <3>3, <3>5, <3>6, Turned
  <2> QED BY <2>1, <2>2
<1>12. CASE UNCHANGED w
  BY <1>w, <1>12 DEF RecordInv
<1>13. ASSUME NEW f \in Flash, Accept(f) \/ Starter(f)
       PROVE  w' \in [Flash -> FlashRecord] /\ RecordInv'
  BY <1>1, <1>2, <1>13 DEF Accept, Starter, Arm, ArmRefused, MakeEngine, At
<1>14. ASSUME NEW f \in Flash, ClaimRefused(f) \/ ReportRefused(f) \/ Retreat(f)
                                   \/ Cleanup(f) \/ ReportCleanup(f)
       PROVE  w' \in [Flash -> FlashRecord] /\ RecordInv'
  BY <1>2, <1>14 DEF ClaimRefused, ReportRefused, Retreat, Cleanup, ReportCleanup
<1>15. CASE FlashCancel
  BY <1>11, <1>12, <1>15 DEF FlashCancel
<1>16. CASE CancelDisarms \/ Revoke \/ SessionTimeout \/ UNCHANGED flashVars
  BY <1>12, <1>16 DEF CancelDisarms, Revoke, SessionTimeout, flashVars
<1>17. ASSUME NEW f \in Flash, EngineCancel(f) PROVE w' \in [Flash -> FlashRecord] /\ RecordInv'
  BY <1>11, <1>17 DEF EngineCancel
<1>18. ASSUME NEW f \in Flash, Begin(f) PROVE w' \in [Flash -> FlashRecord] /\ RecordInv'
  <2> DEFINE r == [w[f] EXCEPT !.runs = engine, !.pc = "claim"]
  <2>1. w[f].pc = "start" /\ w' = [w EXCEPT ![f] = r]
    BY <1>18, <1>w DEF Begin, At
  <2>2. r \in FlashRecord
    BY <1>r DEF FlashRecord, FlashTypes
  <2>3. /\ r.step = w[f].step /\ r.block = w[f].block /\ r.answer = w[f].answer
        /\ r.late = w[f].late /\ r.pc = "claim" /\ r.cancelled = w[f].cancelled
        /\ r.opened = w[f].opened /\ r.inHand = w[f].inHand
    BY <1>r DEF FlashRecord
  <2> HIDE DEF r
  <2>4. Progress(r) /\ LateInv(r)
    BY <1>r, <2>1, <2>3 DEF Progress, LateInv, InStep
  <2> QED BY <1>w, <2>1, <2>2, <2>4, Turned
<1> QED
  BY <1>3, <1>5, <1>7, <1>8, <1>9, <1>10, <1>13, <1>14, <1>15, <1>16, <1>17, <1>18
     DEF FlashNext, Worker

LEMMA FlashInitial == FlashInit => FlashTypes /\ RecordInv /\ OpenInv /\ GoodInv
<1> SUFFICES ASSUME FlashInit PROVE FlashTypes /\ RecordInv /\ OpenInv /\ GoodInv
  OBVIOUS
<1>1. "extend" \in Step /\ 1 \in 1..Blocks + 1 /\ 0 \in 0..MaxPolls /\ 0 \in 0..MaxFlashes
  BY OrderIs, FlashConstants DEF Step
<1>2. Fresh \in FlashRecord
  BY <1>1 DEF Fresh, FlashRecord
<1>3. FlashTypes
  <2>1. <<>> \in Seq(Flash)
    OBVIOUS
  <2>2. ecu \in EcuState
    BY <1>1, <2>1 DEF FlashInit, EcuState
  <2>3. w \in [Flash -> FlashRecord]
    BY <1>2 DEF FlashInit
  <2> QED BY <1>1, <2>2, <2>3 DEF FlashInit, FlashTypes
<1>4. \A f \in Flash : w[f] = Fresh
  BY DEF FlashInit
<1>5. Progress(Fresh) /\ LateInv(Fresh)
  BY FlashConstants DEF Fresh, Progress, LateInv, InStep
<1>6. ~Confirmed(Fresh)
  BY DEF Fresh, Confirmed
<1>7. \A f \in Flash : ~Running(f)
  BY <1>4 DEF Running, Fresh
<1> QED BY <1>3, <1>4, <1>5, <1>6, <1>7, FlashConstants DEF RecordInv, OpenInv, GoodInv, FlashInit

LEMMA TypesStep ==
    ASSUME FlashTypes, RecordInv, [FlashNext]_flashVars
    PROVE  FlashTypes'
<1>1. w' \in [Flash -> FlashRecord]
  BY RecordStep
<1>2. ASSUME NEW f \in Flash
      PROVE  /\ \A step : Served(f, step) \in EcuState
             /\ \A session \in {"default", "extended", "programming"} :
                   Entered(session) \in EcuState
  <2>1. ecu \in EcuState
    BY DEF FlashTypes
  <2>2. \A step : Served(f, step) \in EcuState
    BY <2>1, ServedState
  <2>3. \A session \in {"default", "extended", "programming"} : Entered(session) \in EcuState
    BY <2>1, EnteredFacts
  <2> QED BY <2>2, <2>3
<1>3. ecu' \in EcuState
  <2>0. ecu \in EcuState
    BY DEF FlashTypes
  <2>1. ASSUME NEW f \in Flash, Request(f) PROVE ecu' \in EcuState
    BY <1>2, <2>0, <2>1 DEF Request, Refused, Lost, Rejected, Answered
  <2>2. ASSUME NEW f \in Flash, TryExit(f) \/ Retreat(f) PROVE ecu' \in EcuState
    BY <1>2, <2>0, <2>2 DEF TryExit, Retreat
  <2>3. CASE SessionTimeout
    BY <2>0, <2>3, EnteredFacts DEF SessionTimeout
  <2>4. \/ \E f \in Flash : Request(f) \/ TryExit(f) \/ Retreat(f)
        \/ SessionTimeout
        \/ UNCHANGED ecu
    BY DEF FlashNext, Accept, Starter, Worker, EngineCancel, FlashCancel, CancelDisarms, Revoke,
           Arm, ArmRefused, MakeEngine, Begin, Claim, ClaimRefused, ReportRefused, Check,
           Answer, Settle, Cleanup, ReportCleanup, flashVars
  <2> QED BY <2>0, <2>1, <2>2, <2>3, <2>4
<1>4. /\ armed' \in BOOLEAN /\ doubled' \in BOOLEAN /\ stuck' \in BOOLEAN
      /\ canceller' \in {"idle", "look", "log"}
  <2> USE DEF FlashTypes, app
  <2>1. ASSUME NEW f \in Flash, Accept(f) \/ Starter(f) \/ EngineCancel(f)
        PROVE  /\ armed' \in BOOLEAN /\ UNCHANGED <<doubled, stuck, canceller>>
    BY <2>1 DEF Accept, Starter, Arm, ArmRefused, MakeEngine, EngineCancel
  <2>2. ASSUME NEW f \in Flash, Claim(f)
        PROVE  doubled' \in BOOLEAN /\ UNCHANGED <<armed, stuck, canceller>>
    BY <2>2 DEF Claim
  <2>3. ASSUME NEW f \in Flash, \/ Begin(f) \/ ClaimRefused(f) \/ ReportRefused(f)
                                \/ Check(f) \/ Request(f) \/ Answer(f)
        PROVE  UNCHANGED <<armed, doubled, stuck, canceller>>
    BY <2>3 DEF Begin, ClaimRefused, ReportRefused, Check, Request, Refused, Lost, Rejected,
                Answered, Answer
  <2>4. ASSUME NEW f \in Flash,
               TryExit(f) \/ Retreat(f) \/ Settle(f) \/ Cleanup(f) \/ ReportCleanup(f)
        PROVE  armed' \in BOOLEAN /\ UNCHANGED <<doubled, stuck, canceller>>
    BY <2>4 DEF TryExit, Retreat, Settle, Cleanup, ReportCleanup
  <2>5. CASE FlashCancel
    BY <2>5 DEF FlashCancel
  <2>6. CASE CancelDisarms \/ Revoke \/ SessionTimeout \/ UNCHANGED flashVars
    BY <2>6 DEF CancelDisarms, Revoke, SessionTimeout, flashVars
  <2>7. armed \in BOOLEAN /\ doubled \in BOOLEAN /\ stuck \in BOOLEAN
        /\ canceller \in {"idle", "look", "log"}
    OBVIOUS
  <2> QED BY <2>1, <2>2, <2>3, <2>4, <2>5, <2>6, <2>7 DEF FlashNext, Worker
<1>5. status' \in {"none", "in_progress", "cancelled", "completed", "failed", "cleanup_failed"}
  <2>1. ASSUME NEW f \in Flash, Settle(f)
        PROVE  status' \in {"failed", "completed"}
    BY <2>1 DEF Settle
  <2>2. ASSUME NEW f \in Flash, ReportCleanup(f)
        PROVE  status' \in {"cleanup_failed", status}
    BY <2>2 DEF ReportCleanup
  <2>3. \/ \E f \in Flash : Settle(f) \/ ReportCleanup(f)
        \/ status' \in {status, "in_progress", "failed", "cancelled"}
    BY DEF FlashNext, Accept, Starter, Worker, EngineCancel, FlashCancel, CancelDisarms, Revoke,
           Arm, ArmRefused, MakeEngine, Begin, Claim, ClaimRefused, ReportRefused, Check, Answer,
           Cleanup, flashVars, Request, Refused, Lost, Rejected, Answered, TryExit, Retreat,
           SessionTimeout, app
  <2> QED BY <2>1, <2>2, <2>3 DEF FlashTypes
<1>6. engine' \in 0..MaxFlashes
  <2>1. engine' = engine \/ \E f \in Flash : engine' = f
    BY DEF FlashNext, Accept, Starter, Worker, EngineCancel, FlashCancel, CancelDisarms,
           Revoke, Arm, ArmRefused, MakeEngine, Begin, Claim, ClaimRefused, ReportRefused, Check,
           Answer, Settle, Cleanup, ReportCleanup, flashVars, Request, Refused, Lost, Rejected,
           Answered, TryExit, Retreat, SessionTimeout, app
  <2> QED BY <2>1, FlashConstants DEF FlashTypes
<1> QED BY <1>1, <1>3, <1>4, <1>5, <1>6 DEF FlashTypes

\* Nothing is opened, and what will close goes on to.
LEMMA OpenKept ==
    ASSUME FlashTypes, OpenInv, NEW f \in Flash, ecu'.open \in {ecu.open, 0},
           \A g \in Flash \ {f} : w'[g] = w[g], WillClose(w[f]) => WillClose(w'[f])
    PROVE  OpenInv'
<1> SUFFICES ASSUME NEW g \in Flash, ecu'.open = g PROVE WillClose(w'[g])
  BY DEF OpenInv
<1>1. g # 0
  BY FlashConstants
<1>2. ecu.open = g
  BY <1>1
<1> QED BY <1>2 DEF OpenInv

\* How the ECU's download, image and verdict move when a step is served.
LEMMA ServedMoves ==
    ASSUME ecu \in EcuState, NEW f \in Flash, NEW step, ecu' = Served(f, step)
    PROVE  /\ step = "exit" => ecu'.open = 0
           /\ step # "download" => ecu'.open \in {ecu.open, 0}
           /\ step = "download" => ecu'.open = f
           /\ step \notin {"erase", "download", "result"} => ecu'.good = ecu.good
           /\ step = "result" => ecu'.good = (ecu.image = Whole(f))
           /\ step # "reset" => ecu'.bricked = ecu.bricked
           /\ step = "reset" => ecu'.bricked = (ecu.bricked \/ ~ecu.good)
<1>1. /\ Entered("default") \in EcuState
      /\ \A session \in {"default", "extended", "programming"} :
            /\ Entered(session).open = 0 /\ Entered(session).good = ecu.good
            /\ Entered(session).bricked = ecu.bricked
  BY EnteredFacts
<1>2. CASE step \in {"extend", "program"}
  BY <1>1, <1>2 DEF Served
<1>3. CASE step = "reset"
  <2>1. ecu' = [Entered("default") EXCEPT !.bricked = Entered("default").bricked \/ ~ecu.good]
    BY <1>3 DEF Served
  <2>2. /\ ecu'.open = Entered("default").open /\ ecu'.good = Entered("default").good
        /\ ecu'.bricked = (Entered("default").bricked \/ ~ecu.good)
    BY <1>1, <2>1 DEF EcuState
  <2> QED BY <1>1, <1>3, <2>2
<1>4. CASE step \in {"erase", "download"}
  BY <1>4 DEF Served, EcuState
<1>5. CASE step \in {"block", "exit", "key"}
  BY <1>5 DEF Served, EcuState
<1>6. CASE step = "result"
  BY <1>6 DEF Served, EcuState
<1>7. CASE step \notin {"extend", "program", "reset", "erase", "download", "block", "exit",
                        "key", "result"}
  BY <1>7 DEF Served
<1> QED BY <1>2, <1>3, <1>4, <1>5, <1>6, <1>7

\* A flash's turn that only moves it on keeps what OpenInv says of it.
LEMMA OpenStep ==
    ASSUME FlashTypes, RecordInv, OpenInv, [FlashNext]_flashVars
    PROVE  OpenInv'
<1>w. /\ w \in [Flash -> FlashRecord] /\ ecu \in EcuState
      /\ \A f \in Flash : w[f] \in FlashRecord /\ Progress(w[f]) /\ LateInv(w[f])
  BY DEF FlashTypes, RecordInv
<1>1. ASSUME NEW f \in Flash, NEW place, w[f].pc \notin {"check", "send", "answer", "exit"},
             w' = [w EXCEPT ![f].pc = place], ecu'.open \in {ecu.open, 0}
      PROVE  OpenInv'
  <2>1. WillClose(w[f]) => WillClose(w'[f])
    BY <1>1, <1>w DEF WillClose, InStep, FlashRecord
  <2> QED BY <1>1, <2>1, OpenKept
<1>2. CASE UNCHANGED <<w, ecu>>
  BY <1>2 DEF OpenInv
<1>3. ASSUME NEW f \in Flash, \/ Accept(f) \/ Starter(f) \/ ClaimRefused(f)
                              \/ ReportRefused(f) \/ Cleanup(f) \/ ReportCleanup(f)
      PROVE  OpenInv'
  <2>1. /\ UNCHANGED ecu
        /\ \E place : w[f].pc \notin {"check", "send", "answer", "exit"} /\ w' = [w EXCEPT ![f].pc = place]
    BY <1>3 DEF Accept, Starter, Arm, ArmRefused, MakeEngine, ClaimRefused, ReportRefused,
                Cleanup, ReportCleanup, At
  <2> QED BY <1>1, <2>1
<1>4. ASSUME NEW f \in Flash, Claim(f) PROVE OpenInv'
  <2>1. UNCHANGED ecu /\ w[f].pc = "claim" /\ w'[f].exitTried = w[f].exitTried
    BY <1>4, <1>w DEF Claim, At, FlashRecord
  <2>2. \A g \in Flash \ {f} : w'[g] = w[g]
    BY <1>4, <1>w DEF Claim
  <2>3. WillClose(w[f]) => WillClose(w'[f])
    BY <2>1 DEF WillClose, InStep
  <2> QED BY <2>1, <2>2, <2>3, OpenKept
<1>5. ASSUME NEW f \in Flash, w[f].pc \in {"check", "send"},
             w' = [w EXCEPT ![f] = Failed(@)], UNCHANGED ecu
      PROVE  OpenInv'
  <2>1. /\ w'[f] = Failed(w[f]) /\ Failed(w[f]).exitTried = w[f].exitTried
        /\ \A g \in Flash \ {f} : w'[g] = w[g]
    BY <1>5, <1>w DEF Failed, FlashRecord
  <2>2. InStep(w[f])
    BY <1>5 DEF InStep
  <2>3. w[f].step # "extend" => w'[f].pc = "exit"
    BY <1>w, <2>1, <2>2, FailedFacts
  <2>4. WillClose(w[f]) => WillClose(w'[f])
    BY <1>5, <2>1, <2>3 DEF WillClose, InStep
  <2> QED BY <1>5, <2>1, <2>4, OpenKept
<1>6. ASSUME NEW f \in Flash, Check(f) PROVE OpenInv'
  <2> DEFINE recheck == w[f].step = "block" /\ w[f].since >= Recheck
             r == [w[f] EXCEPT !.pc = "send", !.since = IF recheck THEN 0 ELSE @]
  <2>1. /\ w[f].pc = "check" /\ UNCHANGED ecu
        /\ \/ w' = [w EXCEPT ![f] = Failed(@)]
           \/ w' = [w EXCEPT ![f] = r]
    BY <1>6 DEF Check, At
  <2>2. CASE w' = [w EXCEPT ![f] = r]
    <3>1. /\ r.step = w[f].step /\ r.pc = "send" /\ r.exitTried = w[f].exitTried
          /\ w'[f] = r /\ \A g \in Flash \ {f} : w'[g] = w[g]
      BY <1>w, <2>2 DEF FlashRecord
    <3> HIDE DEF r
    <3>2. WillClose(w[f]) => WillClose(w'[f])
      BY <2>1, <3>1 DEF WillClose, InStep
    <3> QED BY <2>1, <3>1, <3>2, OpenKept
  <2> QED BY <1>5, <2>1, <2>2
<1>7. ASSUME NEW f \in Flash, NEW answer, w[f].pc = "send", Sent(f, answer),
             \/ ecu' = ecu /\ (w[f].step = "exit" => answer # "positive")
             \/ ecu' = Served(f, w[f].step)
      PROVE  OpenInv'
  <2>1. /\ w'[f].pc = "answer" /\ w'[f].answer = answer
        /\ w'[f].step = w[f].step /\ w'[f].exitTried = w[f].exitTried
        /\ \A g \in Flash \ {f} : w'[g] = w[g]
    BY <1>7, <1>w DEF Sent, FlashRecord
  <2>2. CASE ecu' = ecu /\ (w[f].step = "exit" => answer # "positive")
    <3>1. WillClose(w[f]) => WillClose(w'[f])
      BY <1>7, <2>1, <2>2 DEF WillClose, InStep
    <3> QED BY <2>1, <2>2, <3>1, OpenKept
  <2>3. CASE ecu' = Served(f, w[f].step) /\ w[f].step \notin {"download", "exit"}
    <3>1. ecu'.open \in {ecu.open, 0}
      BY <1>w, <2>3, ServedMoves
    <3>2. WillClose(w[f]) => WillClose(w'[f])
      BY <1>7, <2>1, <2>3 DEF WillClose, InStep
    <3> QED BY <2>1, <3>1, <3>2, OpenKept
  <2>4. CASE ecu' = Served(f, w[f].step) /\ w[f].step = "exit"
    <3>1. ecu'.open = 0
      BY <1>w, <2>4, ServedMoves
    <3> QED BY <3>1, FlashConstants DEF OpenInv
  <2>5. CASE ecu' = Served(f, w[f].step) /\ w[f].step = "download"
    <3>1. ecu'.open = f
      BY <1>w, <2>5, ServedMoves
    <3>2. WillClose(w'[f])
      BY <2>1, <2>5 DEF WillClose
    <3> QED BY <3>1, <3>2 DEF OpenInv
  <2> QED BY <1>7, <2>2, <2>3, <2>4, <2>5
<1>8. ASSUME NEW f \in Flash, Request(f) PROVE OpenInv'
  <2>1. CASE Refused(f)
    BY <1>5, <2>1 DEF Refused, At
  <2>2. CASE Lost(f)
    BY <1>7, <2>2 DEF Lost, At
  <2>3. CASE Rejected(f)
    BY <1>7, <2>3 DEF Rejected, At
  <2>4. CASE Answered(f)
    <3>1. CASE ecu' = Served(f, w[f].step)
      <4>1. PICK answer : Sent(f, answer) /\ w[f].pc = "send"
        BY <2>4 DEF Answered, At
      <4> QED BY <1>7, <3>1, <4>1
    <3>2. CASE ecu' = ecu /\ w[f].step = "result" /\ Sent(f, "busy")
      BY <1>7, <2>4, <3>2 DEF Answered, At
    <3> QED BY <2>4, <3>1, <3>2 DEF Answered
  <2> QED BY <1>8, <2>1, <2>2, <2>3, <2>4 DEF Request
<1>9. ASSUME NEW f \in Flash, Answer(f) PROVE OpenInv'
  <2> DEFINE r == [Proceeds(w[f]) EXCEPT !.answer = "none"]
  <2>1. w[f].pc = "answer" /\ w' = [w EXCEPT ![f] = r] /\ UNCHANGED ecu
    BY <1>9 DEF Answer, At
  <2>2. WillClose(w[f]) => WillClose(r)
    BY <1>w, <2>1, ProceedsFacts
  <2> HIDE DEF r
  <2>3. w'[f] = r /\ \A g \in Flash \ {f} : w'[g] = w[g]
    BY <1>w, <2>1
  <2> QED BY <2>1, <2>2, <2>3, OpenKept
<1>10. ASSUME NEW f \in Flash, TryExit(f) PROVE OpenInv'
  <2>1. PICK p \in {"settle", "retreat"} :
           /\ w' = [w EXCEPT ![f].pc = p, ![f].exitTried = p = "retreat"]
           /\ p = "settle" => ecu' = Served(f, "exit")
           /\ UNCHANGED ecu \/ ecu' = Served(f, "exit")
    BY <1>10 DEF TryExit
  <2>2. CASE ecu' = Served(f, "exit")
    <3>1. ecu'.open = 0
      BY <1>w, <2>2, ServedMoves
    <3> QED BY <3>1, FlashConstants DEF OpenInv
  <2>3. CASE p = "retreat" /\ UNCHANGED ecu
    <3>1. w'[f].exitTried = TRUE /\ \A g \in Flash \ {f} : w'[g] = w[g]
      BY <1>w, <2>1, <2>3 DEF FlashRecord
    <3>2. WillClose(w'[f])
      BY <3>1, Zenon DEF WillClose
    <3> QED BY <2>3, <3>1, <3>2, OpenKept
  <2> QED BY <2>1, <2>2, <2>3
<1>11. ASSUME NEW f \in Flash, Retreat(f) PROVE OpenInv'
  <2>1. ecu'.open \in {ecu.open, 0}
    BY <1>11, <1>w, EnteredFacts DEF Retreat
  <2>2. w[f].pc = "retreat" /\ w' = [w EXCEPT ![f].pc = "settle"]
    BY <1>11 DEF Retreat, At
  <2> QED BY <1>1, <2>1, <2>2
<1>12. ASSUME NEW f \in Flash, Settle(f) PROVE OpenInv'
  <2>1. w[f].pc = "settle" /\ w' = [w EXCEPT ![f] = Returned(@)] /\ UNCHANGED ecu
    BY <1>12 DEF Settle, At
  <2>2. w'[f].exitTried = w[f].exitTried /\ \A g \in Flash \ {f} : w'[g] = w[g]
    BY <1>w, <2>1 DEF Returned, Fresh
  <2>3. WillClose(w[f]) => WillClose(w'[f])
    BY <2>1, <2>2 DEF WillClose, InStep
  <2> QED BY <2>1, <2>2, <2>3, OpenKept
<1>13. ASSUME NEW f \in Flash, w' = [w EXCEPT ![f] = Cancelled(@)], UNCHANGED ecu
       PROVE  OpenInv'
  <2>1. /\ w'[f].pc = w[f].pc /\ w'[f].step = w[f].step /\ w'[f].answer = w[f].answer
        /\ w'[f].exitTried = w[f].exitTried /\ \A g \in Flash \ {f} : w'[g] = w[g]
    BY <1>w, <1>13 DEF Cancelled, FlashRecord
  <2>2. WillClose(w[f]) => WillClose(w'[f])
    BY <2>1 DEF WillClose, InStep
  <2> QED BY <1>13, <2>1, <2>2, OpenKept
<1>14. CASE FlashCancel
  BY <1>2, <1>13, <1>14 DEF FlashCancel
<1>15. ASSUME NEW f \in Flash, EngineCancel(f) PROVE OpenInv'
  BY <1>13, <1>15 DEF EngineCancel
<1>16. CASE CancelDisarms \/ Revoke \/ UNCHANGED flashVars
  BY <1>2, <1>16 DEF CancelDisarms, Revoke, flashVars
<1>17. CASE SessionTimeout
  <2>1. ecu'.open = 0
    BY <1>17, <1>w, EnteredFacts DEF SessionTimeout
  <2> QED BY <2>1, FlashConstants DEF OpenInv
<1>18. ASSUME NEW f \in Flash, Begin(f) PROVE OpenInv'
  <2>1. /\ w[f].pc = "start" /\ w'[f].pc = "claim" /\ w'[f].step = w[f].step
        /\ w'[f].exitTried = w[f].exitTried /\ UNCHANGED ecu
        /\ \A g \in Flash \ {f} : w'[g] = w[g]
    BY <1>18, <1>w DEF Begin, At, FlashRecord
  <2>2. WillClose(w[f]) => WillClose(w'[f])
    BY <2>1 DEF WillClose, InStep
  <2> QED BY <2>1, <2>2, OpenKept
<1> QED
  BY <1>3, <1>4, <1>6, <1>8, <1>9, <1>10, <1>11, <1>12, <1>14, <1>15, <1>16, <1>17, <1>18
     DEF FlashNext, Worker

RunningAt(r) == r.pc \in {"check", "send", "answer", "exit", "retreat", "settle"}

\* No flash begins to run, nothing is confirmed, and the image stays as it is.
LEMMA GoodKept ==
    ASSUME GoodInv, NEW f \in Flash, doubled' = doubled,
           ecu'.good = ecu.good, ecu'.bricked = ecu.bricked,
           \A g \in Flash \ {f} : w'[g] = w[g],
           RunningAt(w'[f]) => RunningAt(w[f]), Confirmed(w'[f]) => Confirmed(w[f])
    PROVE  GoodInv'
<1> SUFFICES ASSUME ~doubled'
             PROVE  /\ ~ecu'.bricked
                    /\ \A g, h \in Flash : RunningAt(w'[g]) /\ RunningAt(w'[h]) => g = h
                    /\ \A g \in Flash : Confirmed(w'[g]) => ecu'.good
  BY DEF GoodInv, Running, RunningAt
<1>1. /\ ~ecu.bricked
      /\ \A g, h \in Flash : RunningAt(w[g]) /\ RunningAt(w[h]) => g = h
      /\ \A g \in Flash : Confirmed(w[g]) => ecu.good
  BY DEF GoodInv, Running, RunningAt
<1>2. \A g \in Flash : /\ RunningAt(w'[g]) => RunningAt(w[g])
                       /\ Confirmed(w'[g]) => Confirmed(w[g])
  OBVIOUS
<1>3. ~ecu'.bricked
  BY <1>1, Zenon
<1>4. \A g \in Flash : Confirmed(w'[g]) => ecu'.good
  BY <1>1, <1>2, Zenon
<1> QED BY <1>1, <1>2, <1>3, <1>4

LEMMA GoodStep ==
    ASSUME FlashTypes, RecordInv, GoodInv, [FlashNext]_flashVars
    PROVE  GoodInv'
<1>w. /\ w \in [Flash -> FlashRecord] /\ ecu \in EcuState
      /\ \A f \in Flash : w[f] \in FlashRecord /\ Progress(w[f]) /\ LateInv(w[f])
  BY DEF FlashTypes, RecordInv
<1>1. ASSUME NEW f \in Flash, NEW place,
             place \in {"arming", "engine", "start", "refused", "settle", "cleanup", "report",
                        "alarm", "over"},
             place = "settle" => w[f].pc \in {"exit", "retreat"},
             w' = [w EXCEPT ![f].pc = place], doubled' = doubled,
             ecu'.good = ecu.good, ecu'.bricked = ecu.bricked
      PROVE  GoodInv'
  <2>1. w'[f].pc = place /\ \A g \in Flash \ {f} : w'[g] = w[g]
    BY <1>1, <1>w DEF FlashRecord
  <2>2. RunningAt(w'[f]) => RunningAt(w[f])
    BY <1>1, <2>1 DEF RunningAt
  <2>3. ~Confirmed(w'[f])
    BY <1>1, <2>1 DEF Confirmed
  <2> QED BY <1>1, <2>1, <2>2, <2>3, GoodKept
<1>2. CASE UNCHANGED <<w, doubled>> /\ ecu'.good = ecu.good /\ ecu'.bricked = ecu.bricked
  BY <1>2 DEF GoodInv, Running
<1>3. ASSUME NEW f \in Flash, \/ Accept(f) \/ Starter(f) \/ ClaimRefused(f)
                              \/ ReportRefused(f) \/ Cleanup(f) \/ ReportCleanup(f)
      PROVE  GoodInv'
  <2>1. /\ UNCHANGED <<ecu, doubled>>
        /\ \E place \in {"arming", "engine", "start", "refused", "cleanup", "report", "alarm",
                         "over"} :
              w' = [w EXCEPT ![f].pc = place]
    BY <1>3 DEF Accept, Starter, Arm, ArmRefused, MakeEngine, ClaimRefused, ReportRefused,
                Cleanup, ReportCleanup
  <2> QED BY <1>1, <2>1
<1>4. ASSUME NEW f \in Flash, Claim(f) PROVE GoodInv'
  <2>1. /\ UNCHANGED ecu /\ doubled' = (doubled \/ \E g \in Flash \ {f} : Running(g))
        /\ w[f].pc = "claim" /\ w'[f].step = w[f].step /\ w'[f].pc # "answer"
        /\ \A g \in Flash \ {f} : w'[g] = w[g]
    BY <1>4, <1>w DEF Claim, At, FlashRecord
  <2>2. ~Confirmed(w'[f])
    <3>1. w[f].step = "extend"
      BY <1>w, <2>1 DEF Progress
    <3> QED BY <2>1, <3>1 DEF Confirmed
  <2> SUFFICES ASSUME ~doubled'
               PROVE  /\ ~ecu'.bricked
                      /\ \A g, h \in Flash : Running(g)' /\ Running(h)' => g = h
                      /\ \A g \in Flash : Confirmed(w'[g]) => ecu'.good
    BY DEF GoodInv
  <2>3. ~doubled /\ \A g \in Flash \ {f} : ~Running(g)
    BY <2>1
  <2>4. \A g \in Flash \ {f} : ~Running(g)'
    BY <2>1, <2>3 DEF Running
  <2>5. \A g \in Flash : Confirmed(w'[g]) => g # f /\ Confirmed(w[g])
    BY <2>1, <2>2
  <2> QED BY <2>1, <2>3, <2>4, <2>5 DEF GoodInv
<1>5. ASSUME NEW f \in Flash, w[f].pc \in {"check", "send"},
             w' = [w EXCEPT ![f] = Failed(@)], UNCHANGED <<ecu, doubled>>
      PROVE  GoodInv'
  <2>1. w'[f] = Failed(w[f]) /\ \A g \in Flash \ {f} : w'[g] = w[g]
    BY <1>5, <1>w
  <2>2. w'[f].pc \in {"exit", "settle"}
    BY <1>5, <1>w, <2>1, FailedFacts DEF InStep
  <2>3. RunningAt(w[f]) /\ ~Confirmed(w'[f])
    BY <1>5, <2>2 DEF RunningAt, Confirmed
  <2> QED BY <1>5, <2>1, <2>3, GoodKept
<1>6. ASSUME NEW f \in Flash, Check(f) PROVE GoodInv'
  <2> DEFINE recheck == w[f].step = "block" /\ w[f].since >= Recheck
             r == [w[f] EXCEPT !.pc = "send", !.since = IF recheck THEN 0 ELSE @]
  <2>1. /\ w[f].pc = "check" /\ UNCHANGED <<ecu, doubled>>
        /\ \/ w' = [w EXCEPT ![f] = Failed(@)]
           \/ w' = [w EXCEPT ![f] = r]
    BY <1>6 DEF Check, At
  <2>2. CASE w' = [w EXCEPT ![f] = r]
    <3>1. /\ r.step = w[f].step /\ r.pc = "send"
          /\ w'[f] = r /\ \A g \in Flash \ {f} : w'[g] = w[g]
      BY <1>w, <2>2 DEF FlashRecord
    <3> HIDE DEF r
    <3>2. RunningAt(w[f]) /\ (Confirmed(w'[f]) => Confirmed(w[f]))
      BY <2>1, <3>1 DEF Confirmed, RunningAt
    <3> QED BY <2>1, <3>1, <3>2, GoodKept
  <2> QED BY <1>5, <2>1, <2>2
\* A request that is carried out: an image is confirmed only as it stands, and
\* a reset meets a confirmed one.
<1>7. ASSUME NEW f \in Flash, NEW answer, w[f].pc = "send", Sent(f, answer),
             doubled' = doubled, ecu' = Served(f, w[f].step),
             w[f].step = "result" /\ answer = "positive" => ecu.image = Whole(f)
      PROVE  GoodInv'
  <2>1. /\ w'[f].pc = "answer" /\ w'[f].answer = answer /\ w'[f].step = w[f].step
        /\ \A g \in Flash \ {f} : w'[g] = w[g]
    BY <1>7, <1>w DEF Sent, FlashRecord
  <2> SUFFICES ASSUME ~doubled'
               PROVE  /\ ~ecu'.bricked
                      /\ \A g, h \in Flash : RunningAt(w'[g]) /\ RunningAt(w'[h]) => g = h
                      /\ \A g \in Flash : Confirmed(w'[g]) => ecu'.good
    BY DEF GoodInv, Running, RunningAt
  <2>2. /\ ~ecu.bricked
        /\ \A g, h \in Flash : RunningAt(w[g]) /\ RunningAt(w[h]) => g = h
        /\ \A g \in Flash : Confirmed(w[g]) => ecu.good
    BY <1>7 DEF GoodInv, Running, RunningAt
  <2>3. RunningAt(w[f]) /\ \A g \in Flash : RunningAt(w'[g]) => RunningAt(w[g])
    BY <1>7, <2>1 DEF RunningAt
  <2>4. ~ecu'.bricked
    <3>1. CASE w[f].step = "reset"
      <4>1. ecu.good
        BY <1>7, <2>2, <3>1 DEF Confirmed
      <4>2. ecu'.bricked = (ecu.bricked \/ ~ecu.good)
        BY <1>7, <1>w, <3>1, ServedMoves
      <4> QED BY <2>2, <4>1, <4>2, Zenon
    <3>2. CASE w[f].step # "reset"
      <4>1. ecu'.bricked = ecu.bricked
        BY <1>7, <1>w, <3>2, ServedMoves
      <4> QED BY <2>2, <4>1, Zenon
    <3> QED BY <3>1, <3>2
  <2>5. ASSUME NEW g \in Flash, Confirmed(w'[g]) PROVE ecu'.good
    <3>1. g = f
      BY <2>1, <2>2, <2>3, <2>5 DEF Confirmed, RunningAt
    <3>2. w[f].step = "result" /\ answer = "positive"
      BY <2>1, <2>5, <3>1 DEF Confirmed
    <3>3. ecu'.good = (ecu.image = Whole(f))
      BY <1>7, <1>w, <3>2, ServedMoves
    <3> QED BY <1>7, <3>2, <3>3, Zenon
  <2> QED BY <2>2, <2>3, <2>4, <2>5
<1>8. ASSUME NEW f \in Flash, NEW answer, w[f].pc = "send", Sent(f, answer),
             UNCHANGED <<ecu, doubled>>, answer # "positive"
      PROVE  GoodInv'
  <2>1. /\ w'[f].pc = "answer" /\ w'[f].answer = answer
        /\ \A g \in Flash \ {f} : w'[g] = w[g]
    BY <1>8, <1>w DEF Sent, FlashRecord
  <2>2. RunningAt(w[f]) /\ ~Confirmed(w'[f])
    BY <1>8, <2>1 DEF Confirmed, RunningAt
  <2> QED BY <1>8, <2>1, <2>2, GoodKept
<1>9. ASSUME NEW f \in Flash, Request(f) PROVE GoodInv'
  <2>1. CASE Refused(f)
    BY <1>5, <2>1 DEF Refused, At
  <2>2. CASE Lost(f)
    BY <1>7, <1>8, <2>2 DEF Lost, At
  <2>3. CASE Rejected(f)
    BY <1>8, <2>3 DEF Rejected, At
  <2>4. CASE Answered(f)
    <3>1. CASE ecu' = Served(f, w[f].step)
               /\ Sent(f, IF w[f].step = "result" /\ ecu.image # Whole(f)
                          THEN "negative" ELSE "positive")
      BY <1>7, <2>4, <3>1 DEF Answered, At
    <3>2. CASE ecu' = ecu /\ Sent(f, "busy")
      BY <1>8, <2>4, <3>2 DEF Answered, At
    <3> QED BY <2>4, <3>1, <3>2 DEF Answered
  <2> QED BY <1>9, <2>1, <2>2, <2>3, <2>4 DEF Request
<1>10. ASSUME NEW f \in Flash, Answer(f) PROVE GoodInv'
  <2> DEFINE r == [Proceeds(w[f]) EXCEPT !.answer = "none"]
  <2>1. w[f].pc = "answer" /\ w' = [w EXCEPT ![f] = r] /\ UNCHANGED <<ecu, doubled>>
    BY <1>10 DEF Answer, At
  <2>2. Confirmed(r) => Confirmed(w[f])
    BY <1>w, <2>1, ProceedsFacts
  <2> HIDE DEF r
  <2>3. w'[f] = r /\ (\A g \in Flash \ {f} : w'[g] = w[g]) /\ RunningAt(w[f])
    BY <1>w, <2>1 DEF RunningAt
  <2> QED BY <2>1, <2>2, <2>3, GoodKept
<1>11. ASSUME NEW f \in Flash, TryExit(f) PROVE GoodInv'
  <2>1. PICK p \in {"settle", "retreat"} :
           /\ w' = [w EXCEPT ![f].pc = p, ![f].exitTried = p = "retreat"]
           /\ UNCHANGED ecu \/ ecu' = Served(f, "exit")
           /\ w[f].pc = "exit" /\ UNCHANGED doubled
    BY <1>11 DEF TryExit, At
  <2>2. ecu'.good = ecu.good /\ ecu'.bricked = ecu.bricked
    BY <1>w, <2>1, ServedMoves
  <2>3. w'[f].pc = p /\ \A g \in Flash \ {f} : w'[g] = w[g]
    BY <1>w, <2>1 DEF FlashRecord
  <2>4. RunningAt(w[f]) /\ ~Confirmed(w'[f])
    BY <2>1, <2>3 DEF RunningAt, Confirmed
  <2> QED BY <2>1, <2>2, <2>3, <2>4, GoodKept
<1>12. ASSUME NEW f \in Flash, Retreat(f) PROVE GoodInv'
  <2>1. ecu'.good = ecu.good /\ ecu'.bricked = ecu.bricked
    BY <1>12, <1>w, EnteredFacts DEF Retreat
  <2>2. w[f].pc = "retreat" /\ w' = [w EXCEPT ![f].pc = "settle"] /\ UNCHANGED doubled
    BY <1>12 DEF Retreat, At
  <2> QED BY <1>1, <2>1, <2>2
<1>13. ASSUME NEW f \in Flash, Settle(f) PROVE GoodInv'
  <2>1. w' = [w EXCEPT ![f] = Returned(@)] /\ UNCHANGED <<ecu, doubled>>
    BY <1>13 DEF Settle
  <2>2. w'[f].pc = "cleanup" /\ \A g \in Flash \ {f} : w'[g] = w[g]
    BY <1>w, <2>1 DEF Returned, Fresh
  <2>3. ~RunningAt(w'[f]) /\ ~Confirmed(w'[f])
    BY <2>2 DEF RunningAt, Confirmed
  <2> QED BY <2>1, <2>2, <2>3, GoodKept
<1>14. ASSUME NEW f \in Flash, w' = [w EXCEPT ![f] = Cancelled(@)], UNCHANGED <<ecu, doubled>>
       PROVE  GoodInv'
  <2>1. /\ w'[f].pc = w[f].pc /\ w'[f].step = w[f].step /\ w'[f].answer = w[f].answer
        /\ \A g \in Flash \ {f} : w'[g] = w[g]
    BY <1>w, <1>14 DEF Cancelled, FlashRecord
  <2>2. (RunningAt(w'[f]) => RunningAt(w[f])) /\ (Confirmed(w'[f]) => Confirmed(w[f]))
    BY <2>1 DEF RunningAt, Confirmed
  <2> QED BY <1>14, <2>1, <2>2, GoodKept
<1>15. CASE FlashCancel
  BY <1>2, <1>14, <1>15 DEF FlashCancel
<1>16. ASSUME NEW f \in Flash, EngineCancel(f) PROVE GoodInv'
  BY <1>14, <1>16 DEF EngineCancel
<1>17. CASE CancelDisarms \/ Revoke \/ UNCHANGED flashVars
  BY <1>2, <1>17 DEF CancelDisarms, Revoke, flashVars
<1>18. CASE SessionTimeout
  BY <1>2, <1>18, <1>w, EnteredFacts DEF SessionTimeout
<1>19. ASSUME NEW f \in Flash, Begin(f) PROVE GoodInv'
  <2>1. /\ w[f].pc = "start" /\ w'[f].pc = "claim" /\ w'[f].step = w[f].step
        /\ w'[f].exitTried = w[f].exitTried /\ UNCHANGED <<ecu, doubled>>
        /\ \A g \in Flash \ {f} : w'[g] = w[g]
    BY <1>19, <1>w DEF Begin, At, FlashRecord
  <2>2. ~RunningAt(w'[f]) /\ ~Confirmed(w'[f])
    BY <2>1 DEF RunningAt, Confirmed
  <2> QED BY <2>1, <2>2, GoodKept
<1> QED
  BY <1>3, <1>4, <1>6, <1>9, <1>10, <1>11, <1>12, <1>13, <1>15, <1>16, <1>17, <1>18, <1>19
     DEF FlashNext, Worker

FlashInv == FlashTypes /\ RecordInv /\ OpenInv /\ GoodInv

\* The inductive invariant of the flasher holds in every reachable state, for
\* any image, any steps left out and any overlap of flashes.
THEOREM FlashInvariant == FlashSpec => []FlashInv
<1>1. FlashInit => FlashInv
  BY FlashInitial DEF FlashInv
<1>2. FlashInv /\ [FlashNext]_flashVars => FlashInv'
  BY TypesStep, RecordStep, OpenStep, GoodStep DEF FlashInv
<1> QED BY <1>1, <1>2, PTL DEF FlashSpec

\* cancel() is honoured at the next check: nothing is written after it but the
\* write that had passed its check and not yet gone out when it came.
THEOREM CancelsAreHonoured == FlashSpec => []CancelHonoured
<1>1. FlashInv => CancelHonoured
  <2> SUFFICES ASSUME FlashInv, NEW f \in Flash
               PROVE  w[f].late =< IF w[f].inHand THEN 1 ELSE 0
    BY DEF CancelHonoured
  <2>1. w[f].late \in Nat /\ w[f].late =< 1 /\ (w[f].late = 1 => w[f].inHand)
    BY DEF FlashInv, FlashTypes, FlashRecord, RecordInv, LateInv
  <2> QED BY <2>1
<1> QED BY <1>1, FlashInvariant, PTL

\* An ECU is reset only with the image that its routine has confirmed, unless
\* two flashes ran at once.
THEOREM ResetsAreConfirmed == FlashSpec => []NoBlindReset
<1>1. FlashInv => NoBlindReset
  BY DEF FlashInv, GoodInv, NoBlindReset
<1> QED BY <1>1, FlashInvariant, PTL

\* Whatever failed, a flash that is over has closed its download or has tried
\* to with RequestTransferExit.
THEOREM DownloadsAreClosed == FlashSpec => []NoOpenTransfer
<1>1. FlashInv => NoOpenTransfer
  BY DEF FlashInv, OpenInv, WillClose, InStep, At, NoOpenTransfer
<1> QED BY <1>1, FlashInvariant, PTL

\* The flasher's variables keep their types.
THEOREM FlashTypeCorrect == FlashSpec => []FlashTypeOK
<1>1. FlashInv => FlashTypeOK
  BY DEF FlashInv, FlashTypes, FlashTypeOK, FlashRecord
<1> QED BY <1>1, FlashInvariant, PTL
=============================================================================
