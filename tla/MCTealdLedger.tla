--------------------------- MODULE MCTealdLedger ---------------------------
(* Two kinds of behaviours on channels of one place: one request and a      *)
(* ticket approved in advance among the commands; or, while no command      *)
(* runs, three requests, as many as it takes for the sender, the worker and *)
(* the receiver to wait for room all at once.                               *)
EXTENDS TealdLedger

CONSTANTS r1, r2, r3, g1

Requests == {r1, r2, r3}
OneGrant == {g1}
AllEffects == Effect

Crowded == \E r \in Requests \ {r1} : state[r] # "new"
Quiet == /\ epoch = 1 /\ transition = "none" /\ switches = 0
         /\ rule[1] \in {"pass", "approval"}

MCNext == Next /\ (Crowded' => Quiet')

MCSpec == Init /\ [][MCNext]_vars /\ Fairness

=============================================================================
