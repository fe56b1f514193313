-------------------------- MODULE MCTealdApproval ---------------------------
(* Two approvers whose roles are both needed, and rules of the three kinds. *)
EXTENDS TealdApproval, TLC

CONSTANTS u1, u2, roleA, roleB, c1, c2, r1, r2

TwoUsers == {u1, u2}
TwoRoles == {roleA, roleB}
OneConn == {c1}
TwoConns == {c1, c2}
OneRequest == {r1}
TwoRequests == {r1, r2}

\* Both roles, which no user has alone.
BothRoles == [effect |-> "approval", ticket |-> TRUE, threshold |-> 1,
              required |-> TwoRoles,
              holds |-> [u \in User |-> IF u = u1 THEN {roleA} ELSE {roleB}]]
\* Two users of one role; no ticket.
TwoUsersOneRole == [BothRoles EXCEPT !.ticket = FALSE, !.threshold = 2,
                                     !.required = {roleA},
                                     !.holds = [u \in User |-> {roleA}]]
\* Either user alone.
OneUser == [TwoUsersOneRole EXCEPT !.ticket = TRUE, !.threshold = 1]
Allow == [BothRoles EXCEPT !.effect = "allow"]
Deny == [BothRoles EXCEPT !.effect = "deny"]

RulesByRole == {BothRoles, TwoUsersOneRole, Allow, Deny}
OneRule == {OneUser}

\* Connections are alike, and so are requests.
Alike == Permutations(Conn) \cup Permutations(Request)

=============================================================================
