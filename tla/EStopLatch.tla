----------------------------- MODULE EStopLatch -----------------------------
(***************************************************************************)
(* What the E-Stop promises to everyone who only sees whether it is        *)
(* engaged: it may close at any time, and it opens once per authorisation  *)
(* given for this very engagement.                                         *)
(***************************************************************************)
EXTENDS Naturals

VARIABLES
    latched,    \* the E-Stop is engaged
    generation, \* how often it has been opened
    authorised  \* the generations somebody has signed a release for

lvars == <<latched, generation, authorised>>

LInit ==
    /\ latched \in BOOLEAN
    /\ generation = 0
    /\ authorised = {}

Close ==
    /\ latched' = TRUE
    /\ UNCHANGED <<generation, authorised>>

Authorise ==
    /\ latched
    /\ authorised' = authorised \cup {generation}
    /\ UNCHANGED <<latched, generation>>

Open ==
    /\ latched /\ generation \in authorised
    /\ latched' = FALSE
    /\ generation' = generation + 1
    /\ UNCHANGED authorised

LNext == Close \/ Authorise \/ Open

LSpec == LInit /\ [][LNext]_lvars
=============================================================================
