---------------------------- MODULE EStopProofs ----------------------------
(***************************************************************************)
(* Proofs about EStop for every number of callers, keys and challenges: it *)
(* implements EStopLatch, no fence bump is lost, and the holder of an      *)
(* answer to the active challenge is never locked out.                     *)
(***************************************************************************)
EXTENDS EStop, FiniteSetTheorems, SequenceTheorems, TLAPS

\* What reset() may be handed is a submission whose signature somebody made.
LEMMA SubmissionsTyped ==
    ASSUME TypeOK, NEW t \in Submissions
    PROVE  t \in Submission /\ t.sig \in minted \cup {NoSig, Garbled}
<1>1. minted \in SUBSET Signature /\ now \in Nat
  BY DEF TypeOK
<1>2. CASE t \in SignedSubmissions
  BY <1>1, <1>2 DEF SignedSubmissions, Submission, Signature
<1>3. CASE t \in UnsignedSubmissions
  <2>1. \A ch \in {challenge} \ {NoChallenge} : ch \in Challenge
    BY DEF TypeOK
  <2> QED BY <1>1, <1>3, <2>1 DEF UnsignedSubmissions, Submission, Nothing, Challenge
<1> QED BY <1>2, <1>3 DEF Submissions

\* The cooldown is a number of ticks.
LEMMA BackoffTyped ==
    ASSUME NEW n \in Nat, n >= 2
    PROVE  Backoff(n) \in Nat
BY EStopAssumption DEF Backoff

\* The replay record stays a sequence of nonces.
LEMMA RecordedTyped ==
    ASSUME TypeOK, NEW n \in Nat
    PROVE  Recorded(n) \in Seq(Nat)
<1> DEFINE all == Append(consumed, n)
<1>1. all \in Seq(Nat) /\ Len(all) > 0
  BY DEF TypeOK
<1>2. Tail(all) \in Seq(Nat)
  <2>1. all # <<>>
    <3> HIDE DEF all
    <3> QED BY <1>1
  <2> QED BY <1>1, <2>1, HeadTailProperties
<1> QED BY <1>1, <1>2, Zenon DEF Recorded

\* The variables of EStop keep their types, and a caller only ever holds a
\* signature that the authority made.
THEOREM TypeCorrect == Spec => []TypeOK
<1>1. Init => TypeOK
  <2> SUFFICES ASSUME Init PROVE TypeOK
    OBVIOUS
  <2>1. engaged \in BOOLEAN /\ challenge = NoChallenge /\ minted = {} /\ consumed = <<>>
    BY Zenon DEF Init
  <2>2. /\ {epoch, fence, attempts, backoffUntil, provider, nonces, now} = {0}
        /\ cached = [key |-> 0, rev |-> 0, by |-> "reset"]
    BY DEF Init
  <2>3. /\ pc \in [Callers -> {"idle", "load", "swap", "verify", "bump", "rswap"}]
        /\ key \in [Callers -> Nat] /\ rev \in [Callers -> Nat]
    BY DEF Init
  <2>4. Nothing \in Submission /\ Nothing.sig = Garbled
    BY DEF Nothing, Submission
  <2>5. /\ tok \in [Callers -> Submission]
        /\ \A c \in Callers : tok[c].sig \in minted \cup {NoSig, Garbled}
    BY <2>4 DEF Init
  <2>6. /\ challenge \in Challenge \cup {NoChallenge} /\ minted \in SUBSET Signature
        /\ consumed \in Seq(Nat)
    BY <2>1
  <2>7. /\ {epoch, fence, attempts, backoffUntil, provider, nonces, now} \subseteq Nat
        /\ cached \in [key : Nat, rev : Nat, by : {"reset", "refresh"}]
    BY <2>2
  <2>8. /\ epoch \in Nat /\ fence \in Nat /\ attempts \in Nat /\ backoffUntil \in Nat
        /\ provider \in Nat /\ nonces \in Nat /\ now \in Nat
    BY <2>7
  <2> QED BY <2>1, <2>3, <2>5, <2>6, <2>7, <2>8, Zenon DEF TypeOK
<1>2. TypeOK /\ [Next]_vars => TypeOK'
  <2> SUFFICES ASSUME TypeOK, [Next]_vars PROVE TypeOK'
    OBVIOUS
  <2> USE DEF TypeOK
  <2>1. CASE Trigger
    <3>1. challenge' \in Challenge \cup {NoChallenge} /\ nonces' \in Nat
      BY <2>1 DEF Trigger, Issue, Fresh, Challenge
    <3> QED BY <2>1, <3>1 DEF Trigger, callVars
  <2>2. CASE Reissue
    BY <2>2 DEF Reissue, Issue, Fresh, Challenge, callVars
  <2>3. ASSUME NEW k \in 0..provider, Mint(k) PROVE TypeOK'
    <3>1. challenge' \in Challenge /\ nonces' \in Nat
      BY <2>3 DEF Mint, Issue, Fresh, Challenge, Lapsed
    <3>2. minted' \in SUBSET Signature /\ minted \subseteq minted'
      BY <2>3, <3>1 DEF Mint, Signature, Challenge
    <3> QED BY <2>3, <3>1, <3>2 DEF Mint, callVars
  <2>4. CASE Rotate \/ Tick
    <3>1. provider' \in Nat /\ now' \in Nat
      BY <2>4 DEF Rotate, Tick
    <3>2. UNCHANGED <<latchVars, cached, minted, nonces, callVars>>
      BY <2>4 DEF Rotate, Tick
    <3> QED BY <3>1, <3>2 DEF latchVars, callVars
  <2>5. ASSUME NEW c \in Callers, NEW t \in Submissions, ResetCall(c, t) PROVE TypeOK'
    BY <2>5, SubmissionsTyped DEF ResetCall, latchVars
  <2>6. ASSUME NEW c \in Callers, LoadSecret(c) \/ RefreshLoad(c) PROVE TypeOK'
    <3>1. CASE LoadSecret(c)
      BY <3>1 DEF LoadSecret, latchVars
    <3>2. CASE RefreshLoad(c)
      BY <3>2 DEF RefreshLoad, latchVars
    <3> QED BY <2>6, <3>1, <3>2
  <2>7. ASSUME NEW c \in Callers, SwapSecret(c) PROVE TypeOK'
    BY <2>7 DEF SwapSecret, latchVars
  <2>8. ASSUME NEW c \in Callers, Done(c)
        PROVE  /\ pc' \in [Callers -> {"idle", "load", "swap", "verify", "bump", "rswap"}]
               /\ tok' \in [Callers -> Submission]
               /\ key' \in [Callers -> Nat] /\ rev' \in [Callers -> Nat]
               /\ \A d \in Callers : tok'[d].sig \in minted \cup {NoSig, Garbled}
    BY <2>8 DEF Done, Nothing, Submission
  <2>9. ASSUME NEW c \in Callers, ResetNoOp(c) PROVE TypeOK'
    BY <2>8, <2>9 DEF ResetNoOp, latchVars
  <2>10. ASSUME NEW c \in Callers, RefreshSwap(c) PROVE TypeOK'
    BY <2>8, <2>10 DEF RefreshSwap, latchVars
  <2>11. ASSUME NEW c \in Callers, ResetDenied(c) PROVE TypeOK'
    <3>1. attempts' \in Nat /\ challenge' \in Challenge \cup {NoChallenge}
      BY <2>11 DEF ResetDenied
    <3>2. backoffUntil' \in Nat
      BY <2>11, <3>1, BackoffTyped DEF ResetDenied
    <3> QED BY <2>8, <2>11, <3>1, <3>2 DEF ResetDenied
  <2>12. ASSUME NEW c \in Callers, ResetAccepted(c) PROVE TypeOK'
    <3>1. challenge.nonce \in Nat
      BY <2>12 DEF ResetAccepted, Accepts, Challenge
    <3>2. consumed' \in Seq(Nat)
      BY <2>12, <3>1, RecordedTyped DEF ResetAccepted
    <3>3. engaged' \in BOOLEAN
      BY <2>12, Zenon DEF ResetAccepted
    <3>4. /\ epoch' = epoch + 1 /\ attempts' = 0 /\ backoffUntil' = 0
          /\ challenge' = NoChallenge
          /\ pc' = [pc EXCEPT ![c] = "bump"]
          /\ UNCHANGED <<fence, provider, cached, minted, nonces, now, tok, key, rev>>
      BY <2>12, Zenon DEF ResetAccepted
    <3> QED BY <3>2, <3>3, <3>4
  <2>13. ASSUME NEW c \in Callers, ResetBump(c) PROVE TypeOK'
    BY <2>8, <2>13 DEF ResetBump
  <2>14. CASE UNCHANGED vars
    BY <2>14 DEF vars, latchVars, callVars
  <2> QED
    BY <2>1, <2>2, <2>3, <2>4, <2>5, <2>6, <2>7, <2>9, <2>10, <2>11, <2>12, <2>13, <2>14
       DEF Next, ResetStep
<1> QED BY <1>1, <1>2, PTL DEF Spec
-----------------------------------------------------------------------------
(* The refinement *)

\* The generations the authority has signed for.
Authorised == {s.epoch : s \in minted}

\* While the E-Stop is engaged its challenge, if there is one, carries the
\* current epoch, and so does what the authority signs for it.
ChallengeInv == challenge # NoChallenge => challenge.epoch = epoch

\* Every challenge is issued for the epoch it can be answered in.
LEMMA ChallengeCurrent == Spec => []ChallengeInv
<1>1. Init => ChallengeInv
  BY DEF Init, ChallengeInv
<1>2. ChallengeInv /\ [Next]_vars => ChallengeInv'
  BY DEF ChallengeInv, Next, ResetStep, Trigger, Reissue, Mint, Issue, Fresh, Rotate, Tick,
     ResetCall, RefreshLoad, LoadSecret, SwapSecret, ResetNoOp, ResetDenied, ResetAccepted,
     ResetBump, RefreshSwap, vars, latchVars
<1> QED BY <1>1, <1>2, PTL DEF Spec

\* A reset is accepted on a signature somebody made for the current epoch.
LEMMA AcceptedIsAuthorised ==
    ASSUME TypeOK, NEW c \in Callers, Accepts(tok[c])
    PROVE  epoch \in Authorised
<1>1. /\ challenge \in Challenge
      /\ challenge.epoch = epoch
      /\ tok[c].sig = [key |-> cached.key, epoch |-> challenge.epoch, nonce |-> challenge.nonce,
                       at |-> challenge.at]
  BY DEF Accepts, Verifies, Matches, TypeOK
<1>2. tok[c].sig \in Signature /\ tok[c].sig.epoch = epoch
  BY <1>1 DEF TypeOK, Signature, Challenge
<1>3. tok[c].sig \in minted
  BY <1>2, SignatureAssumption DEF TypeOK
<1> QED BY <1>2, <1>3 DEF Authorised

\* EmergencyStopSystem implements the abstract latch: whatever triggers,
\* resets, reissued challenges and rotations overlap, the E-Stop opens only on
\* a signature for this engagement, and once for it.
THEOREM ImplementsLatch == Spec => ReleasedByAuthority
<1>1. Init => Latch!LInit
  <2>1. ASSUME Init PROVE engaged \in BOOLEAN /\ epoch = 0
    BY <2>1, Zenon DEF Init
  <2>2. ASSUME Init PROVE {s.epoch : s \in minted} = {}
    BY <2>2 DEF Init
  <2> QED BY <2>1, <2>2, Zenon DEF Latch!LInit
<1>2. TypeOK /\ ChallengeInv /\ [Next]_vars => [Latch!LNext]_(Latch!lvars)
  <2> SUFFICES ASSUME TypeOK, ChallengeInv, [Next]_vars
               PROVE  [Latch!LNext]_(Latch!lvars)
    OBVIOUS
  <2> USE DEF Latch!LNext, Latch!lvars
  <2>1. CASE Trigger
    BY <2>1, Zenon DEF Trigger, Latch!Close
  <2>2. ASSUME NEW k \in 0..provider, Mint(k) PROVE Latch!Authorise
    <3>1. challenge'.epoch = epoch
      BY <2>2 DEF Mint, Issue, Fresh, Lapsed, ChallengeInv
    <3>2. minted' = minted \cup {[key |-> k, epoch |-> epoch, nonce |-> challenge'.nonce,
                                  at |-> challenge'.at]}
      BY <2>2, <3>1 DEF Mint
    <3>3. {s.epoch : s \in minted'} = {s.epoch : s \in minted} \cup {epoch}
      <4> DEFINE new == [key |-> k, epoch |-> epoch, nonce |-> challenge'.nonce,
                         at |-> challenge'.at]
      <4>1. new.epoch = epoch /\ minted' = minted \cup {new}
        BY <3>2
      <4> HIDE DEF new
      <4> QED BY <4>1
    <3> QED BY <2>2, <3>3, Zenon DEF Mint, Latch!Authorise
  <2>3. ASSUME NEW c \in Callers, ResetAccepted(c) PROVE Latch!Open
    <3>1. epoch \in Authorised
      BY <2>3, AcceptedIsAuthorised DEF ResetAccepted
    <3> QED BY <2>3, <3>1, Zenon DEF ResetAccepted, Authorised, Latch!Open
  <2>4. CASE \/ Reissue \/ Rotate \/ Tick \/ UNCHANGED vars
             \/ \E c \in Callers :
                   \/ \E t \in Submissions : ResetCall(c, t)
                   \/ RefreshLoad(c) \/ LoadSecret(c) \/ SwapSecret(c) \/ ResetNoOp(c)
                   \/ ResetDenied(c) \/ ResetBump(c) \/ RefreshSwap(c)
    <3>1. UNCHANGED <<engaged, epoch, minted>>
      BY <2>4 DEF Reissue, Rotate, Tick, ResetCall, RefreshLoad, LoadSecret, SwapSecret,
         ResetNoOp, ResetDenied, ResetBump, RefreshSwap, vars, latchVars
    <3> QED BY <3>1, Zenon
  <2> QED BY <2>1, <2>2, <2>3, <2>4 DEF Next, ResetStep
<1> QED
  BY <1>1, <1>2, TypeCorrect, ChallengeCurrent, PTL
     DEF Spec, ReleasedByAuthority, Latch!LSpec
-----------------------------------------------------------------------------
(* Key rotation *)

\* Whatever rotations, resets and refreshes overlap, a key that reset() cached is
\* never labelled newer than it is, so every rotation is noticed.
THEOREM ResetNoticesRotation == Spec => []RotationNoticed
<1>1. Init => RotationInv
  BY DEF Init, RotationInv, RotationNoticed
<1>2. TypeOK /\ RotationInv /\ [Next]_vars => RotationInv'
  <2> SUFFICES ASSUME TypeOK, RotationInv, [Next]_vars PROVE RotationInv'
    OBVIOUS
  <2> USE DEF RotationInv, RotationNoticed, TypeOK
  <2>1. CASE Trigger \/ Reissue \/ (\E k \in 0..provider : Mint(k)) \/ Tick
    BY <2>1 DEF Trigger, Reissue, Mint, Tick, callVars
  <2>2. CASE Rotate
    BY <2>2 DEF Rotate, callVars
  <2>3. ASSUME NEW c \in Callers, NEW t \in Submissions, ResetCall(c, t) PROVE RotationInv'
    BY <2>3 DEF ResetCall
  <2>4. ASSUME NEW c \in Callers, LoadSecret(c) PROVE RotationInv'
    BY <2>4 DEF LoadSecret
  <2>5. ASSUME NEW c \in Callers, SwapSecret(c) PROVE RotationInv'
    BY <2>5 DEF SwapSecret
  <2>6. ASSUME NEW c \in Callers, RefreshLoad(c) \/ RefreshSwap(c) PROVE RotationInv'
    <3>1. CASE RefreshLoad(c)
      BY <3>1 DEF RefreshLoad
    <3>2. CASE RefreshSwap(c)
      BY <3>2 DEF RefreshSwap, Done
    <3> QED BY <2>6, <3>1, <3>2
  <2>7. ASSUME NEW c \in Callers,
               ResetNoOp(c) \/ ResetDenied(c) \/ ResetAccepted(c) \/ ResetBump(c)
        PROVE  RotationInv'
    <3>1. /\ UNCHANGED <<cached, provider>>
          /\ \/ Done(c)
             \/ pc' = [pc EXCEPT ![c] = "bump"] /\ UNCHANGED <<key, rev>>
      <4>1. CASE ResetNoOp(c)
        BY <4>1, Zenon DEF ResetNoOp
      <4>2. CASE ResetDenied(c)
        BY <4>2, Zenon DEF ResetDenied
      <4>3. CASE ResetAccepted(c)
        BY <4>3, Zenon DEF ResetAccepted
      <4>4. CASE ResetBump(c)
        BY <4>4, Zenon DEF ResetBump
      <4> QED BY <2>7, <4>1, <4>2, <4>3, <4>4
    <3> QED BY <3>1 DEF Done
  <2>8. CASE UNCHANGED vars
    BY <2>8 DEF vars, callVars
  <2> QED BY <2>1, <2>2, <2>3, <2>4, <2>5, <2>6, <2>7, <2>8 DEF Next, ResetStep
<1>3. RotationInv => RotationNoticed
  BY DEF RotationInv
<1> QED BY <1>1, <1>2, <1>3, TypeCorrect, PTL DEF Spec
-----------------------------------------------------------------------------
(* The fence *)

\* The callers that have opened the E-Stop and still owe the fence its bump.
Bumping == {c \in Callers : pc[c] = "bump"}

\* What FenceCountsTransitions rests on: only finitely many callers are between
\* the two halves of reset(), so that they can be counted.
FenceInv == IsFiniteSet(Bumping) /\ FenceCountsTransitions

\* A caller that leaves the second half of reset() owes one bump less, one that
\* enters it one more, and any other step of a caller changes nothing.
LEMMA BumpingMoves ==
    ASSUME TypeOK, NEW c \in Callers, NEW p, pc' = [pc EXCEPT ![c] = p]
    PROVE  Bumping' = IF p = "bump" THEN Bumping \cup {c} ELSE Bumping \ {c}
<1>1. \A d \in Callers : pc'[d] = IF d = c THEN p ELSE pc[d]
  BY DEF TypeOK
<1> QED BY <1>1 DEF Bumping

\* However triggers and the two halves of resets interleave, each engagement and
\* each reset has moved the fence or is about to: no bump is lost.
THEOREM NoBumpLost == Spec => []FenceCountsTransitions
<1> USE DEF FenceInv
<1>1. Init => FenceInv
  <2> SUFFICES ASSUME Init PROVE FenceInv
    OBVIOUS
  <2>1. Bumping = {} /\ engaged = FALSE /\ epoch = 0 /\ fence = 0
    BY DEF Init, Bumping
  <2> QED BY <2>1, FS_EmptySet DEF FenceCountsTransitions, Bumping
<1>2. TypeOK /\ FenceInv /\ [Next]_vars => FenceInv'
  <2> SUFFICES ASSUME TypeOK, FenceInv, [Next]_vars PROVE FenceInv'
    OBVIOUS
  <2>1. /\ epoch \in Nat /\ fence \in Nat /\ engaged \in BOOLEAN
        /\ IsFiniteSet(Bumping) /\ Cardinality(Bumping) \in Nat
        /\ fence + Cardinality(Bumping) >= 2 * epoch + (IF engaged THEN 1 ELSE 0)
    BY FS_CardinalityType DEF TypeOK, FenceCountsTransitions, Bumping
  <2>2. SUFFICES /\ IsFiniteSet(Bumping')
                 /\ fence' + Cardinality(Bumping')
                       >= 2 * epoch' + (IF engaged' THEN 1 ELSE 0)
    BY DEF FenceCountsTransitions, Bumping
  <2>3. CASE Trigger
    <3>1. Bumping' = Bumping /\ fence' = fence + 1 /\ epoch' = epoch
      BY <2>3 DEF Trigger, callVars, Bumping
    <3> QED BY <2>1, <3>1
  <2>4. ASSUME NEW c \in Callers, ResetAccepted(c)
        PROVE  IsFiniteSet(Bumping')
               /\ fence' + Cardinality(Bumping') >= 2 * epoch' + (IF engaged' THEN 1 ELSE 0)
    <3>1. /\ engaged = TRUE /\ engaged' = FALSE /\ epoch' = epoch + 1 /\ fence' = fence
          /\ pc[c] = "verify" /\ pc' = [pc EXCEPT ![c] = "bump"]
      BY <2>1, <2>4, Zenon DEF ResetAccepted
    <3>2. Bumping' = Bumping \cup {c} /\ c \notin Bumping
      BY <3>1, BumpingMoves DEF Bumping
    <3>3. IsFiniteSet(Bumping') /\ Cardinality(Bumping') = Cardinality(Bumping) + 1
      BY <2>1, <3>2, FS_AddElement
    <3> QED BY <2>1, <3>1, <3>3
  <2>5. ASSUME NEW c \in Callers, ResetBump(c)
        PROVE  IsFiniteSet(Bumping')
               /\ fence' + Cardinality(Bumping') >= 2 * epoch' + (IF engaged' THEN 1 ELSE 0)
    <3>1. /\ fence' = fence + 1 /\ UNCHANGED <<engaged, epoch>>
          /\ pc[c] = "bump" /\ pc' = [pc EXCEPT ![c] = "idle"]
      BY <2>5 DEF ResetBump, Done
    <3>2. Bumping' = Bumping \ {c} /\ c \in Bumping
      <4>1. Bumping' = IF "idle" = "bump" THEN Bumping \cup {c} ELSE Bumping \ {c}
        BY <2>1, <3>1, BumpingMoves
      <4>2. c \in Bumping
        BY <3>1 DEF Bumping
      <4> QED BY <4>1, <4>2
    <3>3. IsFiniteSet(Bumping') /\ Cardinality(Bumping') = Cardinality(Bumping) - 1
      BY <2>1, <3>2, FS_RemoveElement
    <3> QED BY <2>1, <3>1, <3>3
  <2>6. CASE \/ Reissue \/ Rotate \/ Tick \/ (\E k \in 0..provider : Mint(k))
             \/ UNCHANGED vars
    <3>1. UNCHANGED <<engaged, epoch, fence, pc>>
      BY <2>6 DEF Reissue, Rotate, Tick, Mint, vars, latchVars, callVars
    <3>2. Bumping' = Bumping
      BY <3>1 DEF Bumping
    <3> QED BY <2>1, <3>1, <3>2
  <2>7. ASSUME NEW c \in Callers,
               \/ \E t \in Submissions : ResetCall(c, t)
               \/ LoadSecret(c) \/ SwapSecret(c) \/ ResetNoOp(c) \/ ResetDenied(c)
               \/ RefreshLoad(c) \/ RefreshSwap(c)
        PROVE  IsFiniteSet(Bumping')
               /\ fence' + Cardinality(Bumping') >= 2 * epoch' + (IF engaged' THEN 1 ELSE 0)
    <3>1. /\ UNCHANGED <<engaged, epoch, fence>>
          /\ pc[c] # "bump"
          /\ \E p : p # "bump" /\ pc' = [pc EXCEPT ![c] = p]
      BY <2>7 DEF ResetCall, LoadSecret, SwapSecret, ResetNoOp, ResetDenied, RefreshLoad,
         RefreshSwap, Done, latchVars
    <3>2. Bumping' = Bumping \ {c} /\ c \notin Bumping
      BY <3>1, BumpingMoves DEF Bumping
    <3> QED BY <2>1, <3>1, <3>2
  <2> QED BY <2>3, <2>4, <2>5, <2>6, <2>7 DEF Next, ResetStep
<1>3. FenceInv => FenceCountsTransitions
  OBVIOUS
<1> QED BY <1>1, <1>2, <1>3, TypeCorrect, PTL DEF Spec
-----------------------------------------------------------------------------
(* The holder of an answer is let in *)

\* A nonce is drawn once: everything signed and everything consumed carries one
\* that was drawn, ...
NoncesDrawn ==
    /\ challenge # NoChallenge => challenge.nonce <= nonces
    /\ \A s \in minted : s.nonce <= nonces
    /\ \A n \in ToSet(consumed) : n <= nonces

\* ... so what is signed for the nonce of the active challenge is signed for all
\* of it, and the replay record does not hold it.
ActiveIsUnspent ==
    challenge # NoChallenge =>
        /\ challenge.nonce \notin ToSet(consumed)
        /\ \A s \in minted :
              s.nonce = challenge.nonce => s.epoch = challenge.epoch /\ s.at = challenge.at

CredentialInv == ChallengeInv /\ NoncesDrawn /\ ActiveIsUnspent

\* What the replay record holds after a nonce is recorded it held before, or is
\* that nonce.
LEMMA RecordedHolds ==
    ASSUME TypeOK, NEW n \in Nat
    PROVE  ToSet(Recorded(n)) \subseteq ToSet(consumed) \cup {n}
<1> DEFINE all == Append(consumed, n)
<1>1. /\ consumed \in Seq(Nat) /\ all \in Seq(Nat)
      /\ Len(all) = Len(consumed) + 1
      /\ \A i \in 1..Len(consumed) : all[i] = consumed[i]
      /\ all[Len(all)] = n
  BY DEF TypeOK
<1>2. \A i \in 1..Len(all) : all[i] \in ToSet(consumed) \cup {n}
  <2> TAKE i \in 1..Len(all)
  <2>1. Len(consumed) \in Nat
    BY <1>1
  <2>2. CASE i \in 1..Len(consumed)
    BY <1>1, <2>2 DEF ToSet
  <2>3. CASE i = Len(all)
    BY <1>1, <2>3
  <2> HIDE DEF all
  <2> QED BY <1>1, <2>1, <2>2, <2>3
<1>3. \A i \in 1..Len(Tail(all)) : Tail(all)[i] \in ToSet(consumed) \cup {n}
  <2>1. all # <<>>
    <3> HIDE DEF all
    <3> QED BY <1>1
  <2>2. Len(Tail(all)) = Len(all) - 1 /\ \A i \in 1..Len(all) - 1 : Tail(all)[i] = all[i + 1]
    BY <1>1, <2>1, HeadTailProperties
  <2> HIDE DEF all
  <2> QED BY <1>1, <1>2, <2>2
<1>4. CASE Recorded(n) = all
  <2> HIDE DEF all
  <2> QED BY <1>2, <1>4 DEF ToSet
<1>5. CASE Recorded(n) = Tail(all)
  <2> HIDE DEF all
  <2> QED BY <1>3, <1>5 DEF ToSet
<1> QED BY <1>4, <1>5, Zenon DEF Recorded

\* A caller with the authority's signature over the active challenge, under the
\* cached key and in its window, is let in: no failed attempts, no cooldown and no
\* replay record keeps it out.
THEOREM HolderIsLetIn == Spec => []CredentialNeverLockedOut
<1>1. Init => CredentialInv
  BY DEF Init, CredentialInv, ChallengeInv, NoncesDrawn, ActiveIsUnspent, ToSet
<1>2. TypeOK /\ CredentialInv /\ [Next]_vars => CredentialInv'
  <2> SUFFICES ASSUME TypeOK, CredentialInv, [Next]_vars PROVE CredentialInv'
    OBVIOUS
  <2> USE DEF CredentialInv, ChallengeInv, NoncesDrawn, ActiveIsUnspent
  <2>1. /\ nonces \in Nat /\ minted \in SUBSET Signature /\ consumed \in Seq(Nat)
        /\ challenge \in Challenge \cup {NoChallenge}
        /\ \A n \in ToSet(consumed) : n \in Nat
        /\ \A s \in minted : s.nonce \in Nat
        /\ challenge # NoChallenge => challenge.nonce \in Nat
    BY DEF TypeOK, Signature, Challenge, ToSet
  <2>2. ASSUME Issue PROVE
           /\ nonces' = nonces + 1 /\ nonces' \in Nat
           /\ challenge' = Fresh /\ challenge'.epoch = epoch /\ challenge'.nonce = nonces'
           /\ challenge'.nonce \notin ToSet(consumed)
           /\ \A n \in ToSet(consumed) : n <= nonces'
           /\ \A s \in minted : s.nonce <= nonces' /\ s.nonce # challenge'.nonce
    BY <2>1, <2>2 DEF Issue, Fresh
  <2>3. CASE Trigger
    <3>1. UNCHANGED <<epoch, consumed, minted>>
          /\ (Issue \/ UNCHANGED <<challenge, nonces>>)
      BY <2>3 DEF Trigger
    <3> QED BY <2>1, <2>2, <3>1
  <2>4. CASE Reissue
    <3>1. UNCHANGED <<epoch, consumed, minted>> /\ Issue
      BY <2>4 DEF Reissue
    <3> QED BY <2>1, <2>2, <3>1
  <2>5. ASSUME NEW k \in 0..provider, Mint(k) PROVE CredentialInv'
    <3> DEFINE new == [key |-> k, epoch |-> challenge'.epoch, nonce |-> challenge'.nonce,
                       at |-> challenge'.at]
    <3>1. /\ UNCHANGED <<epoch, consumed>> /\ minted' = minted \cup {new}
          /\ \/ Issue
             \/ challenge # NoChallenge /\ UNCHANGED <<challenge, nonces>>
      BY <2>5 DEF Mint, Lapsed
    <3>2. new.epoch = challenge'.epoch /\ new.nonce = challenge'.nonce /\ new.at = challenge'.at
      OBVIOUS
    <3> HIDE DEF new
    <3>3. CASE Issue
      BY <2>1, <2>2, <3>1, <3>2, <3>3
    <3>4. CASE challenge # NoChallenge /\ UNCHANGED <<challenge, nonces>>
      BY <2>1, <3>1, <3>2, <3>4
    <3> QED BY <3>1, <3>3, <3>4
  <2>6. ASSUME NEW c \in Callers, ResetAccepted(c) PROVE CredentialInv'
    <3>1. /\ challenge # NoChallenge /\ challenge' = NoChallenge
          /\ consumed' = Recorded(challenge.nonce)
          /\ UNCHANGED <<minted, nonces>>
      BY <2>6 DEF ResetAccepted, Accepts
    <3>2. ToSet(consumed') \subseteq ToSet(consumed) \cup {challenge.nonce}
      BY <2>1, <3>1, RecordedHolds
    <3> QED BY <2>1, <3>1, <3>2
  <2>7. ASSUME NEW c \in Callers, ResetDenied(c) PROVE CredentialInv'
    BY <2>1, <2>7 DEF ResetDenied
  <2>8. CASE \/ Rotate \/ Tick \/ UNCHANGED vars
             \/ \E c \in Callers :
                   \/ \E t \in Submissions : ResetCall(c, t)
                   \/ RefreshLoad(c) \/ LoadSecret(c) \/ SwapSecret(c) \/ ResetNoOp(c)
                   \/ ResetBump(c) \/ RefreshSwap(c)
    <3>1. UNCHANGED <<epoch, challenge, consumed, minted, nonces>>
      BY <2>8 DEF Rotate, Tick, ResetCall, RefreshLoad, LoadSecret, SwapSecret, ResetNoOp,
         ResetBump, RefreshSwap, vars, latchVars
    <3> QED BY <3>1
  <2> QED BY <2>3, <2>4, <2>5, <2>6, <2>7, <2>8 DEF Next, ResetStep
<1>3. TypeOK /\ CredentialInv => CredentialNeverLockedOut
  <2> SUFFICES ASSUME TypeOK, CredentialInv, engaged, challenge # NoChallenge,
                      InWindow(challenge.at),
                      NEW s \in minted, s.nonce = challenge.nonce, s.key = cached.key
               PROVE  Accepts([form |-> "token", epoch |-> s.epoch, nonce |-> s.nonce,
                               at |-> s.at, sig |-> s])
    BY DEF CredentialNeverLockedOut
  <2> DEFINE t == [form |-> "token", epoch |-> s.epoch, nonce |-> s.nonce,
                   at |-> s.at, sig |-> s]
  <2>1. /\ t.form = "token" /\ t.epoch = s.epoch /\ t.nonce = s.nonce /\ t.at = s.at
        /\ t.sig = s
    OBVIOUS
  <2>2. /\ challenge.nonce \notin ToSet(consumed)
        /\ s.epoch = challenge.epoch /\ s.at = challenge.at /\ challenge.epoch = epoch
    BY DEF CredentialInv, ChallengeInv, ActiveIsUnspent
  <2>3. s = [key |-> cached.key, epoch |-> challenge.epoch, nonce |-> challenge.nonce,
             at |-> challenge.at]
    BY <2>2 DEF TypeOK, Signature
  <2> HIDE DEF t
  <2>4. Parsed(t) = t
    BY <2>1 DEF Parsed
  <2>5. Matches(t) /\ Verifies(t) /\ InWindow(Parsed(t).at)
    BY <2>1, <2>2, <2>3, <2>4 DEF Matches, Verifies
  <2> QED BY <2>5 DEF Accepts, t
<1> QED BY <1>1, <1>2, <1>3, TypeCorrect, PTL DEF Spec
=============================================================================
