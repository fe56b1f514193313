--------------------------- MODULE EpochHandover ----------------------------
(***************************************************************************)
(* How a new policy epoch gets from the kernel to teald, and what nobody   *)
(* may rely on meanwhile.  Tickets are made and sent for the epoch teald   *)
(* knows, and the kernel takes those of the epoch it has; so both must be  *)
(* one while the gate (ticket_transition) is open.  The kernel is the one  *)
(* that goes ahead, by one epoch, and teald follows before the gate opens. *)
(*                                                                         *)
(* TealdControl implements this with restarts of teald and lost            *)
(* acknowledgements, TealdApproval and TealdLedger without: this is what   *)
(* they have in common, and what each may take from the others.            *)
(***************************************************************************)
EXTENDS Naturals

CONSTANT
    MaxEpoch

VARIABLES
    known,      \* the epoch teald makes tickets for
    inForce,    \* the epoch of the kernel
    shut        \* no ticket is sent

handoverVars == <<known, inForce, shut>>

HandoverInit ==
    /\ inForce \in 0 .. MaxEpoch
    /\ known = inForce
    /\ shut \in BOOLEAN

\* Before the kernel is told, or because teald ended.
Shut == shut' = TRUE /\ UNCHANGED <<known, inForce>>

\* The kernel takes the next epoch.  teald learns of it later, or begins with
\* it, and may then be ready at once.
Advance ==
    /\ shut /\ known = inForce
    /\ inForce < MaxEpoch
    /\ inForce' = inForce + 1
    /\ \/ UNCHANGED <<known, shut>>
       \/ known' = inForce' /\ shut' \in BOOLEAN

\* teald publishes what the kernel has, or ends and forgets what it knew.
Follow == shut /\ known' = inForce /\ UNCHANGED <<inForce, shut>>

Reopen == shut /\ known = inForce /\ shut' = FALSE /\ UNCHANGED <<known, inForce>>

HandoverNext == Shut \/ Advance \/ Follow \/ Reopen

HandoverSpec == HandoverInit /\ [][HandoverNext]_handoverVars

\* What whoever makes a ticket, or judges by the epoch, relies on.
InStep == shut \/ known = inForce

=============================================================================
