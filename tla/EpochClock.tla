----------------------------- MODULE EpochClock -----------------------------
(***************************************************************************)
(* What the policy epoch of the kernel promises to the caches built on it. *)
(*                                                                         *)
(* An entry (a ticket, a self-baked privilege) carries the epoch it was    *)
(* issued under and counts only while that epoch is current.  Epochs are   *)
(* published one after the other and never twice; the current one may be   *)
(* revoked at any time, after which nothing counts until the next          *)
(* publication.  The clock owes a flush of the older entries after each    *)
(* publication, and publishes nothing while it owes one.                   *)
(*                                                                         *)
(* TealSession implements this specification; TealTicketCache is built on  *)
(* top of it.                                                              *)
(***************************************************************************)
EXTENDS Naturals

CONSTANT
    MaxEpoch    \* the largest epoch number, U32_MAX in the code

ASSUME MaxEpochAssumption == MaxEpoch \in Nat \ {0}

VARIABLES
    lastEpoch,  \* the last epoch ever published, 0 before the first
    curEpoch,   \* the epoch in force, 0 while unsynchronised
    flushDue    \* entries of older epochs may still have to be flushed

clockVars == <<lastEpoch, curEpoch, flushDue>>

ClockTypeOK ==
    /\ lastEpoch \in 0 .. MaxEpoch
    /\ curEpoch \in 0 .. MaxEpoch
    /\ flushDue \in BOOLEAN

ClockInit ==
    /\ lastEpoch = 0
    /\ curEpoch = 0
    /\ flushDue = FALSE

\* The next number is published; what the cache holds is now of the past.
Publish ==
    /\ ~flushDue
    /\ lastEpoch < MaxEpoch
    /\ lastEpoch' = lastEpoch + 1
    /\ curEpoch' = lastEpoch'
    /\ flushDue' = TRUE

\* The session ends: nothing is current any more.
Revoke ==
    /\ curEpoch' = 0
    /\ flushDue' = TRUE
    /\ UNCHANGED lastEpoch

\* The older entries are gone.
FlushDone ==
    /\ flushDue
    /\ flushDue' = FALSE
    /\ UNCHANGED <<lastEpoch, curEpoch>>

ClockNext == Publish \/ Revoke \/ FlushDone

ClockSpec == ClockInit /\ [][ClockNext]_clockVars

=============================================================================
