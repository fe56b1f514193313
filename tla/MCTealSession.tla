--------------------------- MODULE MCTealSession ----------------------------
(* Two processes, one of which opens two sockets and the other one.        *)
EXTENDS TealSession

CONSTANTS a1, a2, b1, procA, procB

TwoAndOne == {a1, a2, b1}
Processes == {procA, procB}
OwnerOf == [s \in Socket |-> IF s \in {a1, a2} THEN procA ELSE procB]

=============================================================================
