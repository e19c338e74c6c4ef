---------------------------- MODULE AddressClaim ----------------------------
(***************************************************************************)
(* AddressClaimEngine: J1939-81 dynamic address claiming, one engine per   *)
(* node of a bus, with the two callers desktop_app.py has for it: the UI   *)
(* thread that starts a claim and transmits it, and the RX thread that     *)
(* hands received frames to the engine and transmits its answers.          *)
(*                                                                         *)
(* The claim window is a threading.Timer that cannot be unqueued once it   *)
(* has expired: armed is the timer that still runs, queued the callbacks   *)
(* that wait for the engine's lock, each known by whether its generation   *)
(* is still the engine's.  Its deadline has passed then, so the comparison *)
(* with _claim_window_deadline_ns shows nothing more.  How long a window   *)
(* lasts against a frame's way to the other nodes is left open: a timer    *)
(* may expire at any time.                                                 *)
(*                                                                         *)
(* A NAME is the number of its node; the lower one has priority.  A        *)
(* reflected claim of the node's own NAME changes nothing and is left out. *)
(***************************************************************************)
EXTENDS Naturals, Sequences, FiniteSets

CONSTANTS
    Node,           \* the NAMEs on the bus
    Addr,           \* source addresses that can be claimed
    Fallback,       \* FALLBACK_ADDRESS_RANGE
    Capable,        \* nodes with arbitrary_address_capable
    Preferred,      \* preferred_address of each node
    Null,           \* NULL_ADDRESS
    RateLimit,      \* CLAIM_RATE_LIMIT_PER_SA
    NoFrame,
    MaxEvents, MaxLosses    \* bounds: claims started, requested or commanded;
                            \* frames not transmitted

ASSUME AddressAssumption ==
    /\ Node \subseteq Nat /\ Addr \subseteq Nat /\ Fallback \subseteq Addr
    /\ Capable \subseteq Node /\ Preferred \in [Node -> Addr]
    /\ Null \in Nat \ Addr
    /\ {RateLimit, MaxEvents, MaxLosses} \subseteq Nat

Frame == [sa : Addr \cup {Null}, name : Node]

ASSUME FrameAssumption == NoFrame \notin Frame

VARIABLES
    state, cur,     \* state, current_address
    pref,           \* preferred_address
    armed, queued,
    table,          \* the fallback addresses that _address_table holds
    rate,           \* _claim_rate: claims counted in the second, per address
    inbox,          \* received frames the RX thread has not taken yet
    reply,          \* an answer the RX thread is about to transmit
    sending,        \* the claim the UI thread is about to transmit
    events, losses,
    unheard         \* history: addresses a claim of which was not transmitted
                    \* or not looked at

bounds == <<events, losses>>
engine == <<state, cur, pref, armed, queued>>
vars == <<engine, table, rate, inbox, reply, sending, bounds, unheard>>

Init ==
    /\ state = [n \in Node |-> "UNINITIALIZED"]
    /\ pref = Preferred
    /\ cur = pref
    /\ armed = [n \in Node |-> FALSE]
    /\ queued = [n \in Node |-> {}]
    /\ table = [n \in Node |-> {}]
    /\ rate = [n \in Node |-> [a \in Addr \cup {Null} |-> 0]]
    /\ inbox = [n \in Node |-> <<>>]
    /\ reply = [n \in Node |-> NoFrame]
    /\ sending = [n \in Node |-> NoFrame]
    /\ events = 0 /\ losses = 0
    /\ unheard = {}

Claim(n, a) == [sa |-> a, name |-> n]

Broadcast(n, f) ==
    inbox' = [m \in Node |-> IF m = n THEN inbox[m] ELSE Append(inbox[m], f)]

\* Mutant: arming a timer leaves the generation as it is.
SameGeneration(callbacks) == callbacks

\* The claim is a new generation: what is queued already is stale.
Outdated(callbacks) == IF callbacks = {} THEN {} ELSE {"stale"}

CancelTimer(n) ==
    /\ armed' = [armed EXCEPT ![n] = FALSE]
    /\ queued' = [queued EXCEPT ![n] = Outdated(@)]

ArmTimer(n) ==
    /\ armed' = [armed EXCEPT ![n] = TRUE]
    /\ queued' = [queued EXCEPT ![n] = Outdated(@)]

Adopt(n, a, s) ==
    /\ cur' = [cur EXCEPT ![n] = a]
    /\ state' = [state EXCEPT ![n] = s]

-----------------------------------------------------------------------------
(* The UI thread: j1939_start_address_claim(), one at a time per node.     *)

Start(n, a) ==
    /\ events < MaxEvents /\ sending[n] = NoFrame
    /\ events' = events + 1
    /\ pref' = [pref EXCEPT ![n] = a]
    /\ Adopt(n, a, "CLAIMING")
    /\ ArmTimer(n)
    /\ sending' = [sending EXCEPT ![n] = Claim(n, a)]
    /\ UNCHANGED <<table, rate, inbox, reply, losses, unheard>>

\* send_sync() returned: the window is counted from here.
Transmitted(n) ==
    /\ sending[n] # NoFrame
    /\ Broadcast(n, sending[n])
    /\ sending' = [sending EXCEPT ![n] = NoFrame]
    /\ \/ state[n] = "CLAIMING" /\ ArmTimer(n)
       \/ state[n] # "CLAIMING" /\ UNCHANGED <<armed, queued>>
    /\ UNCHANGED <<state, cur, pref, table, rate, reply, bounds, unheard>>

\* send_sync() raised.
TransmissionFailed(n) ==
    /\ sending[n] # NoFrame
    /\ losses < MaxLosses /\ losses' = losses + 1
    /\ sending' = [sending EXCEPT ![n] = NoFrame]
    /\ unheard' = unheard \cup {sending[n].sa}
    /\ CancelTimer(n)
    /\ state' = [state EXCEPT ![n] = IF @ = "CLAIMING" THEN "UNINITIALIZED" ELSE @]
    /\ UNCHANGED <<cur, pref, table, rate, inbox, reply, events>>

-----------------------------------------------------------------------------
(* The timer.                                                              *)

TimerExpires(n) ==
    /\ armed[n]
    /\ armed' = [armed EXCEPT ![n] = FALSE]
    /\ queued' = [queued EXCEPT ![n] = @ \cup {"current"}]
    /\ UNCHANGED <<state, cur, pref, table, rate, inbox, reply, sending, bounds, unheard>>

\* _finalize_claim(), which is_address_claimed reports.
Finalize(n) ==
    state' = [state EXCEPT ![n] =
                IF @ = "CLAIMING" /\ cur[n] # Null THEN "CLAIMED" ELSE @]

\* _confirm_claimed_guarded() gets the lock.
Callback(n, generation) ==
    /\ generation \in queued[n]
    /\ queued' = [queued EXCEPT ![n] = @ \ {generation}]
    /\ IF generation = "current" THEN Finalize(n) ELSE UNCHANGED state
    /\ UNCHANGED <<cur, pref, armed, table, rate, inbox, reply, sending,
                   bounds, unheard>>

-----------------------------------------------------------------------------
(* The RX thread.  It transmits one answer before it takes the next frame. *)

Free(n) == Fallback \ table'[n]

\* Mutant: a node that holds its address takes no notice of a claim.
ContendedWhileClaiming(n, f) ==
    f.sa = cur[n] /\ f.sa # Null /\ state[n] = "CLAIMING"

Contended(n, f) == f.sa = cur[n] /\ f.sa # Null

NotContended(n, f) ==
    /\ ~Contended(n, f)
    /\ UNCHANGED <<engine, reply>>

Defend(n, f) ==
    /\ Contended(n, f) /\ n < f.name
    /\ ArmTimer(n)
    /\ reply' = [reply EXCEPT ![n] = Claim(n, cur[n])]
    /\ UNCHANGED <<state, cur, pref>>

\* A fallback claim is a fresh claim, with a window of its own.
FallBack(n, f) ==
    /\ Contended(n, f) /\ n > f.name
    /\ n \in Capable
    /\ \E a \in Free(n) :
          /\ \A b \in Free(n) : a <= b
          /\ Adopt(n, a, "CLAIMING")
          /\ reply' = [reply EXCEPT ![n] = Claim(n, a)]
    /\ ArmTimer(n)
    /\ UNCHANGED pref

CannotClaim(n, f) ==
    /\ Contended(n, f) /\ n > f.name
    /\ n \notin Capable \/ Free(n) = {}
    /\ Adopt(n, Null, "CANNOT_CLAIM")
    /\ CancelTimer(n)
    /\ reply' = [reply EXCEPT ![n] = Claim(n, Null)]
    /\ UNCHANGED pref

RateLimited(n, f) ==
    /\ rate[n][f.sa] = RateLimit
    /\ unheard' = unheard \cup {f.sa}
    /\ UNCHANGED <<engine, table, rate, reply>>

Recorded(n, f) ==
    /\ rate[n][f.sa] < RateLimit
    /\ rate' = [rate EXCEPT ![n][f.sa] = @ + 1]
    /\ table' = [table EXCEPT ![n] = @ \cup ({f.sa} \cap Fallback)]
    /\ NotContended(n, f) \/ Defend(n, f) \/ FallBack(n, f) \/ CannotClaim(n, f)
    /\ UNCHANGED unheard

Receive(n) ==
    /\ inbox[n] # <<>> /\ reply[n] = NoFrame
    /\ inbox' = [inbox EXCEPT ![n] = Tail(@)]
    /\ LET f == Head(inbox[n])
       IN RateLimited(n, f) \/ Recorded(n, f)
    /\ UNCHANGED <<sending, bounds>>

\* A Request PGN for the address claim, addressed to n or to all.
RequestFrame(n) ==
    /\ events < MaxEvents /\ reply[n] = NoFrame
    /\ events' = events + 1
    /\ \/ state[n] = "CLAIMED" /\ reply' = [reply EXCEPT ![n] = Claim(n, cur[n])]
       \/ state[n] = "CANNOT_CLAIM" /\ reply' = [reply EXCEPT ![n] = Claim(n, Null)]
       \/ state[n] \in {"UNINITIALIZED", "CLAIMING"} /\ UNCHANGED reply
    /\ UNCHANGED <<engine, table, rate, inbox, sending, losses, unheard>>

\* A Commanded Address for n's NAME: start_claiming() again, on the RX thread.
CommandedAddress(n, a) ==
    /\ events < MaxEvents /\ reply[n] = NoFrame
    /\ events' = events + 1
    /\ pref' = [pref EXCEPT ![n] = a]
    /\ Adopt(n, a, "CLAIMING")
    /\ ArmTimer(n)
    /\ reply' = [reply EXCEPT ![n] = Claim(n, a)]
    /\ UNCHANGED <<table, rate, inbox, sending, losses, unheard>>

Answer(n) ==
    /\ reply[n] # NoFrame
    /\ Broadcast(n, reply[n])
    /\ reply' = [reply EXCEPT ![n] = NoFrame]
    /\ UNCHANGED <<engine, table, rate, sending, bounds, unheard>>

\* The gateway rejects the answer: the RX thread only logs it.
AnswerRejected(n) ==
    /\ reply[n] # NoFrame
    /\ losses < MaxLosses /\ losses' = losses + 1
    /\ unheard' = unheard \cup {reply[n].sa}
    /\ reply' = [reply EXCEPT ![n] = NoFrame]
    /\ UNCHANGED <<engine, table, rate, inbox, sending, events>>

-----------------------------------------------------------------------------
(* Time: a claim rate window, and an entry's 60 s, which outlast a scan    *)
(* for a free address.                                                     *)

RateWindowPasses(n, a) ==
    /\ rate[n][a] > 0
    /\ rate' = [rate EXCEPT ![n][a] = 0]
    /\ UNCHANGED <<engine, table, inbox, reply, sending, bounds, unheard>>

EntryExpires(n, a) ==
    /\ a \in table[n] /\ state[n] # "CLAIMING"
    /\ table' = [table EXCEPT ![n] = @ \ {a}]
    /\ UNCHANGED <<engine, rate, inbox, reply, sending, bounds, unheard>>

Next == \E n \in Node :
    \/ Transmitted(n) \/ TransmissionFailed(n)
    \/ TimerExpires(n) \/ \E g \in {"current", "stale"} : Callback(n, g)
    \/ Receive(n) \/ RequestFrame(n) \/ Answer(n) \/ AnswerRejected(n)
    \/ \E a \in Addr : Start(n, a) \/ CommandedAddress(n, a)
    \/ \E a \in Addr \cup {Null} : RateWindowPasses(n, a)
    \/ \E a \in Fallback : EntryExpires(n, a)

\* The send returns or raises, the timer and its callback run, the RX thread
\* goes on.
Fairness == \A n \in Node :
    /\ WF_vars(Transmitted(n) \/ TransmissionFailed(n))
    /\ WF_vars(TimerExpires(n))
    /\ WF_vars(\E g \in {"current", "stale"} : Callback(n, g))
    /\ WF_vars(Receive(n))
    /\ WF_vars(Answer(n) \/ AnswerRejected(n))

Spec == Init /\ [][Next]_vars /\ Fairness

-----------------------------------------------------------------------------
TypeOK ==
    /\ state \in [Node -> {"UNINITIALIZED", "CLAIMING", "CLAIMED", "CANNOT_CLAIM"}]
    /\ cur \in [Node -> Addr \cup {Null}] /\ pref \in [Node -> Addr]
    /\ armed \in [Node -> BOOLEAN]
    /\ queued \in [Node -> SUBSET {"current", "stale"}]
    /\ table \in [Node -> SUBSET Fallback]
    /\ rate \in [Node -> [Addr \cup {Null} -> 0..RateLimit]]
    /\ inbox \in [Node -> Seq(Frame)]
    /\ reply \in [Node -> Frame \cup {NoFrame}]
    /\ sending \in [Node -> Frame \cup {NoFrame}]
    /\ events \in 0..MaxEvents /\ losses \in 0..MaxLosses
    /\ unheard \in SUBSET (Addr \cup {Null})

\* A claim of address a is on its way to somebody.
Pending(a) == \E n \in Node :
    \/ reply[n] # NoFrame /\ reply[n].sa = a
    \/ sending[n] # NoFrame /\ sending[n].sa = a
    \/ \E i \in DOMAIN inbox[n] : inbox[n][i].sa = a

Uses(n, a) == cur[n] = a /\ state[n] \in {"CLAIMING", "CLAIMED"}

\* Two nodes that use one address will learn of it: a claim of that address
\* is still on its way, unless one was never sent, or was dropped by the rate
\* limit (address_claim.py:494).
DuplicateIsPending ==
    \A n, m \in Node, a \in Addr :
        n # m /\ Uses(n, a) /\ Uses(m, a) => Pending(a) \/ a \in unheard

\* A node becomes CLAIMED only at the address it was claiming, after the
\* window of that very claim: never by a callback of an older claim
\* (address_claim.py:358), and it loses CLAIMED when it moves.
ClaimedAfterWindow ==
    [][\A n \in Node : state'[n] = "CLAIMED" =>
           /\ cur'[n] = cur[n]
           /\ (state[n] = "CLAIMED" \/ ~armed[n])]_vars

\* A claim does not stay open forever: whatever contends with it, the node
\* ends up with an address or without one.
ClaimSettles ==
    \A n \in Node : state[n] = "CLAIMING" ~> state[n] # "CLAIMING"
=============================================================================
