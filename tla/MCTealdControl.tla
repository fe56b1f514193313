--------------------------- MODULE MCTealdControl ---------------------------
(* Two approvers whose roles are both needed, and a policy that needs none. *)
EXTENDS TealdControl, TLC

CONSTANTS u1, u2, roleA, roleB, c1, c2

TwoUsers == {u1, u2}
TwoRoles == {roleA, roleB}
TwoConns == {c1, c2}

BothRoles == [holds |-> [u \in User |-> IF u = u1 THEN {roleA} ELSE {roleB}],
              may |-> {u1}, mpa |-> TRUE, threshold |-> 1,
              required |-> TwoRoles]
AtOnce == [BothRoles EXCEPT !.may = {u2}, !.mpa = FALSE]

TwoPolicies == {BothRoles, AtOnce}

=============================================================================
