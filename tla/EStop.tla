------------------------------- MODULE EStop -------------------------------
(***************************************************************************)
(* EmergencyStopSystem and EStopResetAuthority: engagement, the challenge  *)
(* that every engagement issues, the signed token that answers it, and the *)
(* reset that checks the token while other threads trigger again, reissue  *)
(* the challenge or rotate the signing key.                                *)
(*                                                                         *)
(* A key is named by the provider revision that installed it.  A signature *)
(* is the record of what was signed, so it can be checked and not forged:  *)
(* the signatures that exist are the ones in minted.  Time is a counter    *)
(* that Tick advances; trigger(), reissue and the verification half of     *)
(* reset() are atomic because the code holds the E-Stop lock for them.     *)
(***************************************************************************)
EXTENDS Naturals, Sequences, FiniteSets, SequencesExt

CONSTANTS
    Callers,        \* threads that call reset() or refresh_secret()
    MaxAge,         \* max_token_age_s, in ticks
    BackoffCap,     \* RESET_BACKOFF_CAP_SEC, in ticks
    MaxConsumed,    \* MAX_CONSUMED_NONCES
    MaxTime, MaxNonces, MaxFence, MaxAttempts, MaxRevision,  \* bounds
    NoChallenge,    \* _active_challenge is None
    NoSig,          \* a well-formed signature that nobody's key made
    Garbled         \* a signature that is not 64 hex digits

ASSUME EStopAssumption ==
    /\ MaxAge \in Nat /\ BackoffCap \in Nat /\ MaxConsumed \in Nat \ {0}
    /\ {MaxTime, MaxNonces, MaxFence, MaxAttempts, MaxRevision} \subseteq Nat

VARIABLES
    engaged, epoch, fence, challenge,   \* _is_engaged, _epoch, _tx_fence, _active_challenge
    consumed,               \* _consumed_nonces, oldest first
    attempts, backoffUntil, \* _failed_reset_attempts, _reset_backoff_until_ns
    provider,               \* the provider's revision, and so its current key
    cached,                 \* _cached_secret and _cached_secret_version; who wrote them
    minted,                 \* the signatures the authority has made
    nonces, now,            \* nonces drawn so far; the monotonic clock
    pc, tok, key, rev       \* a caller's place and its locals

latchVars == <<engaged, epoch, fence, challenge, consumed, attempts, backoffUntil>>
callVars == <<pc, tok, key, rev>>
vars == <<latchVars, provider, cached, minted, nonces, now, callVars>>

Signature == [key : Nat, epoch : Nat, nonce : Nat, at : Nat]
Challenge == [epoch : Nat, nonce : Nat, at : Nat]

\* Neither a wrong signature nor a garbled one is somebody's signature.
ASSUME SignatureAssumption == NoSig \notin Signature /\ Garbled \notin Signature

\* What a caller hands to reset(): a structured token, a bare signature, or
\* something that does not parse.
Submission == [form : {"token", "raw", "junk"}, epoch : Nat, nonce : Nat, at : Nat,
               sig : Signature \cup {NoSig, Garbled}]

Nothing == [form |-> "junk", epoch |-> 0, nonce |-> 0, at |-> 0, sig |-> Garbled]

TypeOK ==
    /\ engaged \in BOOLEAN
    /\ epoch \in Nat /\ fence \in Nat
    /\ challenge \in Challenge \cup {NoChallenge}
    /\ consumed \in Seq(Nat)
    /\ attempts \in Nat /\ backoffUntil \in Nat
    /\ provider \in Nat
    /\ cached \in [key : Nat, rev : Nat, by : {"reset", "refresh"}]
    /\ minted \in SUBSET Signature
    /\ nonces \in Nat /\ now \in Nat
    /\ pc \in [Callers -> {"idle", "load", "swap", "verify", "bump", "rswap"}]
    /\ tok \in [Callers -> Submission]
    /\ key \in [Callers -> Nat] /\ rev \in [Callers -> Nat]
    /\ \A c \in Callers : tok[c].sig \in minted \cup {NoSig, Garbled}

Init ==
    /\ engaged = FALSE /\ epoch = 0 /\ fence = 0
    /\ challenge = NoChallenge
    /\ consumed = <<>>
    /\ attempts = 0 /\ backoffUntil = 0
    /\ provider = 0
    /\ cached = [key |-> 0, rev |-> 0, by |-> "reset"]
    /\ minted = {}
    /\ nonces = 0 /\ now = 0
    /\ pc = [c \in Callers |-> "idle"]
    /\ tok = [c \in Callers |-> Nothing]
    /\ key = [c \in Callers |-> 0] /\ rev = [c \in Callers |-> 0]
-----------------------------------------------------------------------------
(* Engagement and challenges *)

Fresh == [epoch |-> epoch, nonce |-> nonces + 1, at |-> now]

\* A challenge the code would replace: there is none, or it is too old.
Lapsed == challenge = NoChallenge \/ now - challenge.at > MaxAge

\* EStopChallenge(...) with a new os.urandom nonce becomes the active one.
Issue ==
    /\ nonces < MaxNonces
    /\ challenge' = Fresh
    /\ nonces' = nonces + 1

\* trigger(): latch, challenge and fence in one critical section.
Trigger ==
    /\ fence < MaxFence
    /\ engaged' = TRUE
    /\ fence' = fence + 1
    /\ IF ~engaged \/ Lapsed THEN Issue ELSE UNCHANGED <<challenge, nonces>>
    /\ UNCHANGED <<epoch, consumed, attempts, backoffUntil, provider, cached, minted, now,
                   callVars>>

\* reissue_challenge(), also when the active challenge is still good.
Reissue ==
    /\ engaged /\ Issue
    /\ UNCHANGED <<engaged, epoch, fence, consumed, attempts, backoffUntil, provider, cached,
                   minted, now, callVars>>

\* EStopResetAuthority.mint_reset_token: request_reset_challenge, which
\* replaces a lapsed challenge, and a signature with the authority's own key.
Mint(k) ==
    /\ engaged
    /\ IF Lapsed THEN Issue ELSE UNCHANGED <<challenge, nonces>>
    /\ minted' = minted \cup {[key |-> k, epoch |-> challenge'.epoch,
                               nonce |-> challenge'.nonce, at |-> challenge'.at]}
    /\ UNCHANGED <<engaged, epoch, fence, consumed, attempts, backoffUntil, provider, cached,
                   now, callVars>>
-----------------------------------------------------------------------------
(* reset() *)

\* The inputs: a minted token or its bare signature ...
SignedSubmissions ==
    {[form |-> f, epoch |-> s.epoch, nonce |-> s.nonce, at |-> s.at, sig |-> s] :
        f \in {"token", "raw"}, s \in minted}

\* ... and what a caller may present without one: text that does not parse, a
\* wrong signature for the active challenge, a token whose own timestamp lies
\* outside the window.
UnsignedSubmissions ==
    {Nothing, [Nothing EXCEPT !.form = "raw"]} \cup
    {[form |-> "token", epoch |-> ch.epoch, nonce |-> ch.nonce, at |-> a, sig |-> NoSig] :
        ch \in {challenge} \ {NoChallenge}, a \in {now, now + 1}}

Submissions == SignedSubmissions \cup UnsignedSubmissions

\* reset() first compares the provider's revision with the cached one.
ResetCall(c, t) ==
    /\ pc[c] = "idle" /\ attempts < MaxAttempts
    /\ tok' = [tok EXCEPT ![c] = t]
    /\ rev' = [rev EXCEPT ![c] = provider]
    /\ pc' = [pc EXCEPT ![c] = IF provider # cached.rev THEN "load" ELSE "verify"]
    /\ UNCHANGED <<latchVars, provider, cached, minted, nonces, now, key>>

\* _load_secret(), outside the lock.
LoadSecret(c) ==
    /\ pc[c] = "load"
    /\ key' = [key EXCEPT ![c] = provider]
    /\ pc' = [pc EXCEPT ![c] = "swap"]
    /\ UNCHANGED <<latchVars, provider, cached, minted, nonces, now, tok, rev>>

\* Mutant: the cache gets the new revision and keeps the old key.
SwapRevisionOnly(c) ==
    /\ pc[c] = "swap"
    /\ cached' = [key |-> cached.key, rev |-> rev[c], by |-> "reset"]
    /\ pc' = [pc EXCEPT ![c] = "verify"]
    /\ UNCHANGED <<latchVars, provider, minted, nonces, now, tok, key, rev>>

\* The cache is written with the revision that was read before the load.
SwapSecret(c) ==
    /\ pc[c] = "swap"
    /\ cached' = [key |-> key[c], rev |-> rev[c], by |-> "reset"]
    /\ pc' = [pc EXCEPT ![c] = "verify"]
    /\ UNCHANGED <<latchVars, provider, minted, nonces, now, tok, key, rev>>

\* A bare signature is read as an answer to whatever challenge is active.
Parsed(t) ==
    IF t.form = "raw"
      THEN [t EXCEPT !.epoch = challenge.epoch, !.nonce = challenge.nonce, !.at = challenge.at]
      ELSE t

\* The checks before the clock is consulted, in the code's order: parse,
\* replay, epoch, nonce.
Matches(t) ==
    /\ t.form # "junk"
    /\ challenge.nonce \notin ToSet(consumed)
    /\ Parsed(t).epoch = challenge.epoch /\ Parsed(t).epoch = epoch
    /\ Parsed(t).nonce = challenge.nonce

InWindow(at) == at <= now /\ now - at <= MaxAge

\* Mutant: a cooldown refuses every credential.
VerifiesOffCooldown(t) ==
    /\ now >= backoffUntil
    /\ t.sig = [key |-> cached.key, epoch |-> challenge.epoch, nonce |-> challenge.nonce,
                at |-> challenge.at]

\* The signature is one over the active challenge, with the cached key.  A
\* cooldown never refuses it: it only saves the HMAC of a garbled one.
Verifies(t) ==
    t.sig = [key |-> cached.key, epoch |-> challenge.epoch, nonce |-> challenge.nonce,
             at |-> challenge.at]

Accepts(t) ==
    /\ challenge # NoChallenge
    /\ Matches(t)
    /\ InWindow(challenge.at) /\ InWindow(Parsed(t).at)
    /\ Verifies(t)

\* A token that matches but is out of its window costs the challenge, too.
Expires(t) ==
    /\ challenge # NoChallenge
    /\ Matches(t)
    /\ ~(InWindow(challenge.at) /\ InWindow(Parsed(t).at))

\* RESET_BACKOFF_BASE_SEC doubled per failure after the second, capped.
Backoff(n) ==
    LET doubled == <<1, 2, 4, 8, 16, 32>>[IF n - 2 < 5 THEN n - 1 ELSE 6]
    IN  IF doubled < BackoffCap THEN doubled ELSE BackoffCap

\* The call returns and its locals are dead.
Done(c) ==
    /\ pc' = [pc EXCEPT ![c] = "idle"]
    /\ tok' = [tok EXCEPT ![c] = Nothing]
    /\ key' = [key EXCEPT ![c] = 0]
    /\ rev' = [rev EXCEPT ![c] = 0]

\* reset() on an E-Stop that is not engaged.
ResetNoOp(c) ==
    /\ pc[c] = "verify" /\ ~engaged
    /\ Done(c)
    /\ UNCHANGED <<latchVars, provider, cached, minted, nonces, now>>

\* _reset_failure, after whichever check failed.
ResetDenied(c) ==
    /\ pc[c] = "verify" /\ engaged /\ ~Accepts(tok[c])
    /\ challenge' = IF Expires(tok[c]) THEN NoChallenge ELSE challenge
    /\ attempts' = attempts + 1
    /\ backoffUntil' = IF attempts' >= 2 THEN now + Backoff(attempts') ELSE backoffUntil
    /\ Done(c)
    /\ UNCHANGED <<engaged, epoch, fence, consumed, provider, cached, minted, nonces, now>>

\* _record_consumed_nonce keeps the latest MaxConsumed nonces.
Recorded(n) ==
    LET all == Append(consumed, n)
    IN  IF Len(all) > MaxConsumed THEN Tail(all) ELSE all

\* Mutant: the epoch stays where it is.
ResetAcceptedSameEpoch(c) ==
    /\ pc[c] = "verify" /\ engaged /\ Accepts(tok[c])
    /\ consumed' = Recorded(challenge.nonce)
    /\ engaged' = FALSE
    /\ challenge' = NoChallenge
    /\ attempts' = 0 /\ backoffUntil' = 0
    /\ pc' = [pc EXCEPT ![c] = "bump"]
    /\ UNCHANGED <<epoch, fence, provider, cached, minted, nonces, now, tok, key, rev>>

\* The success path of reset(), still under the E-Stop lock.
ResetAccepted(c) ==
    /\ pc[c] = "verify" /\ engaged /\ Accepts(tok[c])
    /\ consumed' = Recorded(challenge.nonce)
    /\ engaged' = FALSE
    /\ challenge' = NoChallenge
    /\ epoch' = epoch + 1
    /\ attempts' = 0 /\ backoffUntil' = 0
    /\ pc' = [pc EXCEPT ![c] = "bump"]
    /\ UNCHANGED <<fence, provider, cached, minted, nonces, now, tok, key, rev>>

\* Mutant: the fence is left alone when somebody has triggered again.
ResetBumpIfClear(c) ==
    /\ pc[c] = "bump"
    /\ fence' = IF engaged THEN fence ELSE fence + 1
    /\ Done(c)
    /\ UNCHANGED <<engaged, epoch, challenge, consumed, attempts, backoffUntil, provider,
                   cached, minted, nonces, now>>

\* Phase 2: the fence moves under the send lock, whatever happened meanwhile.
ResetBump(c) ==
    /\ pc[c] = "bump"
    /\ fence' = fence + 1
    /\ Done(c)
    /\ UNCHANGED <<engaged, epoch, challenge, consumed, attempts, backoffUntil, provider,
                   cached, minted, nonces, now>>
-----------------------------------------------------------------------------
(* Key rotation *)

\* The provider stores a new key (out of band, as far as the E-Stop knows).
Rotate ==
    /\ provider < MaxRevision
    /\ provider' = provider + 1
    /\ UNCHANGED <<latchVars, cached, minted, nonces, now, callVars>>

\* refresh_secret() loads first ...
RefreshLoad(c) ==
    /\ pc[c] = "idle"
    /\ key' = [key EXCEPT ![c] = provider]
    /\ pc' = [pc EXCEPT ![c] = "rswap"]
    /\ UNCHANGED <<latchVars, provider, cached, minted, nonces, now, tok, rev>>

\* ... and asks for the revision afterwards, when it writes the cache.
RefreshSwap(c) ==
    /\ pc[c] = "rswap"
    /\ cached' = [key |-> key[c], rev |-> provider, by |-> "refresh"]
    /\ Done(c)
    /\ UNCHANGED <<latchVars, provider, minted, nonces, now>>

Tick ==
    /\ now < MaxTime
    /\ now' = now + 1
    /\ UNCHANGED <<latchVars, provider, cached, minted, nonces, callVars>>

ResetStep(c) ==
    \/ LoadSecret(c) \/ SwapSecret(c)
    \/ ResetNoOp(c) \/ ResetDenied(c) \/ ResetAccepted(c) \/ ResetBump(c)
    \/ RefreshSwap(c)

Next ==
    \/ Trigger \/ Reissue \/ Rotate \/ Tick
    \/ \E k \in 0..provider : Mint(k)
    \/ \E c \in Callers :
          \/ \E t \in Submissions : ResetCall(c, t)
          \/ RefreshLoad(c)
          \/ ResetStep(c)

Spec == Init /\ [][Next]_vars
-----------------------------------------------------------------------------
(* Properties *)

\* The E-Stop opens only on a signature made for this very engagement, and
\* only once for it, however resets, triggers, reissues and rotations overlap.
Latch == INSTANCE EStopLatch
            WITH latched <- engaged, generation <- epoch,
                 authorised <- {s.epoch : s \in minted}
ReleasedByAuthority == Latch!LSpec

\* Whoever holds an answer to the active challenge, signed with the key the
\* E-Stop has cached and still in its window, is let in: no number of failed
\* attempts by anybody, no cooldown and no replay record locks it out.
CredentialNeverLockedOut ==
    engaged /\ challenge # NoChallenge /\ InWindow(challenge.at) =>
        \A s \in minted :
            s.nonce = challenge.nonce /\ s.key = cached.key =>
                Accepts([form |-> "token", epoch |-> s.epoch, nonce |-> s.nonce,
                         at |-> s.at, sig |-> s])

\* Every engagement and every reset moves the fence, also when a trigger comes
\* between the two halves of a reset: no bump is lost.
FenceCountsTransitions ==
    fence + Cardinality({c \in Callers : pc[c] = "bump"})
        >= 2 * epoch + (IF engaged THEN 1 ELSE 0)

\* A key that reset() cached is never labelled with a revision newer than itself,
\* so a rotation that happened out of band is noticed by the next reset().  The
\* promise does not hold of refresh_secret(), which reads the revision last.
RotationNoticed == cached.by = "reset" => cached.rev <= cached.key

\* What RotationNoticed rests on: a reset in progress has read the revision no
\* later than the key.
RotationInv ==
    /\ RotationNoticed
    /\ \A c \in Callers :
          /\ pc[c] = "load" => rev[c] <= provider
          /\ pc[c] = "swap" => rev[c] <= key[c]
=============================================================================
