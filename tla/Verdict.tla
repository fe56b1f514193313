------------------------------ MODULE Verdict -------------------------------
(***************************************************************************)
(* What the control lane promises to an operation that asks the daemon.    *)
(*                                                                         *)
(* A request gets at most one verdict and never another.  Its operation is *)
(* settled once: as the verdict says if there is one, either way while     *)
(* there is none.  A verdict may still arrive after that; it changes       *)
(* nothing.  An operation that was never put to the daemon is let through  *)
(* whatever happens to its request.                                        *)
(*                                                                         *)
(* TealControlLane implements this specification.                          *)
(***************************************************************************)
CONSTANT Id     \* requests, each made once

VARIABLES
    asked,      \* the requests that were put to the daemon
    verdict,    \* what was decided about each request
    outcome     \* what became of the operation that made it

verdictVars == <<asked, verdict, outcome>>

VerdictInit ==
    /\ asked = {}
    /\ verdict = [i \in Id |-> "none"]
    /\ outcome = [i \in Id |-> "open"]

Ask(i) ==
    /\ outcome[i] = "open"
    /\ asked' = asked \cup {i}
    /\ UNCHANGED <<verdict, outcome>>

\* One or more requests without a verdict get one.
Judge(I, v) ==
    /\ \A i \in I : verdict[i] = "none"
    /\ verdict' = [i \in Id |-> IF i \in I THEN v ELSE verdict[i]]
    /\ UNCHANGED <<asked, outcome>>

Settle(i, o) ==
    /\ outcome[i] = "open"
    /\ i \in asked => (verdict[i] = "none" \/ verdict[i] = o)
    /\ i \notin asked => o = "allow"
    /\ outcome' = [outcome EXCEPT ![i] = o]
    /\ UNCHANGED <<asked, verdict>>

VerdictNext ==
    \/ \E i \in Id : Ask(i) \/ \E o \in {"allow", "refuse"} : Settle(i, o)
    \/ \E I \in SUBSET Id, v \in {"allow", "refuse"} : Judge(I, v)

VerdictSpec == VerdictInit /\ [][VerdictNext]_verdictVars

=============================================================================
