--------------------------- MODULE MCPolicyEngine ---------------------------
(* Every choice of two rules in the first file and one in the second, out   *)
(* of a pool with each kind of condition; and some directories that break   *)
(* a rule of roles.json or management.json.                                 *)
EXTENDS PolicyEngine, TLC

CONSTANTS u1, u2, admin, officer, alice, ghost, wheel, sudo

TwoUids == {u1, u2}
TwoRoles == {admin, officer}
TwoNames == {alice, ghost}
OneGid == {wheel}
OneGroup == {sudo}
NameOf == alice :> u2 @@ ghost :> None

Paths == {"/a", "/a/x", "/b", "/p", "/s"}
Tree == [p \in Paths |-> IF p = "/a" THEN {"/a", "/a/x"} ELSE {p}]
Patterns == {"/a/*"}
Globs == [p \in Patterns |-> {"/a/x"}]
Ops == {"read", "rename"}
OneNet == {"lan"}
Lan == [n \in OneNet |-> {"inside"}]
Addresses == {"inside", "outside"}
Auths == {"password", "key"}
Applets == {"vi"}

\* Date 1 is a Monday of week 1; a year has 53 weeks.
Day(date) == (date - 1) % 7
Week(date) == (((date - 1) \div 7) % 53) + 1

Exact(p) == [kind |-> "exact", of |-> p]
Prefix(p) == [kind |-> "prefix", of |-> p]
Fits(p) == [kind |-> "glob", of |-> p]
Object(pm) == [path |-> pm, newPath |-> None]

Anyone == [uid |-> None, user |-> None, roles |-> {}, program |-> None, script |-> None,
           applet |-> None, login |-> None]
Bound == [source |-> "lan", auth |-> None, tty |-> FALSE, bind |-> TRUE]

Rule(id) == [id |-> id, type |-> "standard", effect |-> "allow", subject |-> Anyone, times |-> <<>>,
             object |-> Object(Exact("/a/x")), ops |-> {"read"}, mpa |-> None, jit |-> None]

\* Opens on Sundays of the odd weeks at 23:00, until 01:00.
Sunday == [days |-> {6}, start |-> 1380, end |-> 60, interval |-> 2]

Pool == {
    Rule("exact"),
    [Rule("twin") EXCEPT !.effect = "deny"],
    [Rule("prefix") EXCEPT !.object = Object(Prefix("/a")), !.ops = {}],
    [Rule("full") EXCEPT !.subject.program = Exact("/p"), !.subject.script = Exact("/s")],
    [Rule("ghost") EXCEPT !.object = Object(Fits("/a/*")), !.subject.user = ghost],
    [Rule("only") EXCEPT !.type = "subject_only", !.object = None,
                         !.subject.program = Prefix("/p"), !.ops = {}],
    [Rule("move") EXCEPT !.object.newPath = Prefix("/b"), !.ops = {"rename"}, !.subject.roles = {admin}],
    [Rule("login") EXCEPT !.object = Object(Prefix("/a")), !.subject.login = Bound],
    [Rule("night") EXCEPT !.times = <<Sunday>>, !.subject.user = alice],
    [Rule("day") EXCEPT !.times = <<[Sunday EXCEPT !.start = 0, !.end = 1440]>>],
    [Rule("gui") EXCEPT !.subject.login = [Bound EXCEPT !.source = None, !.auth = "password", !.tty = TRUE]],
    [Rule("bad") EXCEPT !.object = Object(Bad)],
    [Rule("exact") EXCEPT !.ops = None]}

Roles0 == [roles |-> <<admin, officer>>, strict |-> TRUE, defaults |-> {},
           assignments |-> <<[uid |-> u1, user |-> None, roles |-> {admin}],
                             [uid |-> None, user |-> alice, roles |-> {officer}],
                             [uid |-> None, user |-> ghost, roles |-> {admin}],
                             [uid |-> u2, user |-> None, roles |-> {admin}]>>,
           groups |-> <<[gid |-> wheel, group |-> None, roles |-> {admin}],
                        [gid |-> None, group |-> sudo, roles |-> {officer}],
                        [gid |-> wheel, group |-> None, roles |-> {officer}]>>,
           logins |-> <<[uid |-> u1, user |-> None, sources |-> {"lan"}]>>]
Mgmt0 == [initiators |-> {admin}, enabled |-> TRUE, threshold |-> 2, approvers |-> {admin}]

Policy(rules) == [type |-> "server", effect |-> "deny", ttl |-> 600, ttlMax |-> None, rules |-> rules]
Dir(first, second) == [roles |-> Roles0, files |-> <<Policy(first), Policy(second)>>, mgmt |-> Mgmt0]
Dir0 == Dir(<<Rule("exact")>>, <<>>)

Others == {
    [Dir0 EXCEPT !.roles.assignments[1].user = alice],
    [Dir0 EXCEPT !.roles.roles = <<admin>>],
    [Dir0 EXCEPT !.roles.roles = <<admin>>, !.roles.strict = FALSE],
    [Dir0 EXCEPT !.roles.groups[2].gid = wheel],
    [Dir0 EXCEPT !.roles.roles = <<admin>>, !.roles.assignments[2].roles = {admin}],
    [Dir0 EXCEPT !.roles.logins[1].sources = {Bad}],
    [Dir0 EXCEPT !.mgmt.threshold = 3],
    [Dir0 EXCEPT !.mgmt.approvers = {officer}],
    [Dir0 EXCEPT !.mgmt.approvers = {admin, officer}],
    [Dir0 EXCEPT !.files[1].ttlMax = 500],
    [Dir0 EXCEPT !.files[1].rules[1].jit = [enabled |-> TRUE, ttl |-> 0]],
    [Dir0 EXCEPT !.files = <<>>],
    [Dir0 EXCEPT !.files[2].type = "workstation"]}

AllDirectories == {Dir(<<r, s>>, <<t>>) : r, s, t \in Pool} \cup Others

Session(u, from) == [uid |-> u, source |-> from, auth |-> "key"]
AllRequests ==
    {[uid |-> who[1], program |-> by[1], script |-> by[2], applet |-> None, op |-> what[1],
      path |-> what[2], newPath |-> what[3], tty |-> "cui", session |-> who[2]] :
        who \in {<<u1, Session(u1, "inside")>>, <<u1, Session(u1, "outside")>>, <<u2, None>>},
        by \in {<<None, None>>, <<"/p", None>>, <<"/p", "/s">>},
        what \in {<<"read", "/a/x", None>>, <<"read", "/a", None>>, <<"rename", "/a/x", "/b">>,
                  <<"read", "/b", None>>}}

\* Around the midnights that end the first, the second and the last Sunday.
AllInstants == {[date |-> d, minute |-> m] : d \in {7, 8, 14, 15, 371, 372}, m \in {30, 1400}}

Ids == {r.id : r \in Pool}

=============================================================================
