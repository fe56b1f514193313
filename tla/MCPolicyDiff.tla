---------------------------- MODULE MCPolicyDiff ----------------------------
(* Updates that differ from the policy in force in one thing each.         *)
EXTENDS PolicyDiff, TLC

CONSTANTS u1, u2, admin, officer, alice

TwoUids == {u1, u2}
TwoRoles == {admin, officer}
OneName == {alice}
NameOf == alice :> u2

Paths == {"/a"}
Tree == "/a" :> {"/a"}
Nothing == <<>>
Ops == {"read", "rename"}

\* Date 1 is a Monday of week 1; a year has 53 weeks.
Day(date) == (date - 1) % 7
Week(date) == (((date - 1) \div 7) % 53) + 1

Anyone == [uid |-> None, user |-> None, roles |-> {}, program |-> None, script |-> None,
           applet |-> None, login |-> None]
Always(n) == [days |-> {}, start |-> 0, end |-> 1440, interval |-> n]
Rule(id) == [id |-> id, type |-> "standard", effect |-> "allow", subject |-> Anyone,
             times |-> <<Always(2)>>, object |-> [path |-> [kind |-> "exact", of |-> "/a"], newPath |-> None],
             ops |-> {"read"}, mpa |-> None, jit |-> None]

Current == [roles |-> [roles |-> <<admin, officer>>, strict |-> TRUE, defaults |-> {},
                       assignments |-> <<[uid |-> u1, user |-> None, roles |-> {admin}],
                                         [uid |-> None, user |-> alice, roles |-> {officer}]>>,
                       groups |-> <<>>,
                       logins |-> <<>>],
            files |-> <<[type |-> "server", effect |-> "deny", ttl |-> 600, ttlMax |-> 900,
                           rules |-> <<Rule("allow")>>]>>,
            mgmt  |-> [initiators |-> {admin}, enabled |-> FALSE, threshold |-> 1, approvers |-> {admin}]]

Updates == {
    Current,
    [Current EXCEPT !.files[1].effect = "allow"],
    [Current EXCEPT !.files[1].rules[1].subject.roles = {admin}],
    [Current EXCEPT !.mgmt.enabled = TRUE],
    [Current EXCEPT !.files[1].rules[1].times[1].interval = 1]}

AllRequests ==
    {[uid |-> u, program |-> None, script |-> None, applet |-> None, op |-> "read", path |-> "/a",
      newPath |-> None, tty |-> "cui", session |-> None] : u \in TwoUids}

\* A Monday of an odd week and one of an even week.
TwoMondays == {[date |-> d, minute |-> 600] : d \in {1, 8}}

=============================================================================
