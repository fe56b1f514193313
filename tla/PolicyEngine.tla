---------------------------- MODULE PolicyEngine ----------------------------
(***************************************************************************)
(* From the files of a policy directory to the decision about a request:   *)
(* teal_policy_engine (compile.rs, ir.rs, matchers.rs, eval.rs,            *)
(* management.rs) and what teald does around it (policy.rs, bundle.rs,     *)
(* roles.rs, decide.rs).                                                   *)
(*                                                                         *)
(* A directory is loaded item by item, as the loops of the compiler do:    *)
(* the assignments, group assignments and login contexts of roles.json,    *)
(* the policy files in the order of bundle.json, management.json.  Any     *)
(* error gives the load up and leaves what is in force.  Judging a request *)
(* changes nothing and is an operator, Evaluate.                           *)
(*                                                                         *)
(* Names are values; descriptions, reasons and warnings are left out.      *)
(***************************************************************************)
EXTENDS Integers, Sequences, FiniteSets

CONSTANTS
    Uid, Role, Path, Pattern, Applet, Op, Net, Address, Auth, RuleId,
    Name,           \* user names
    Gid, Group,     \* groups by number, and by name
    Rename,         \* FILE_RENAME, one of Op
    None,           \* a field that is absent or blank
    Bad,            \* a text that does not parse
    UidOf,          \* getpwnam: a uid of each name, or None
    Under,          \* Path::starts_with: the paths at or below each path
    Glob,           \* globset: the paths that fit each pattern
    Hosts,          \* ipnetwork: the addresses in each network
    WeekDay(_),     \* chrono: the weekday of a date,
    IsoWeek(_),     \* ... and its ISO week
    Directories,    \* directories that may be loaded
    Requests,       \* requests asked about
    Instants,       \* ... and when
    MaxLoads        \* bound on the loads

VARIABLES
    force,          \* the bundle in force, None before the first
    dir,            \* the directory being loaded
    pc,             \* the item that comes next
    done,           \* items of the stage that are done
    core,           \* CompiledRolesCore so far
    policy,         \* CompiledPolicy so far
    mgmt,           \* CompiledManagement
    loads

vars == <<force, dir, pc, done, core, policy, mgmt, loads>>

-----------------------------------------------------------------------------
(* The files as serde reads them.                                          *)

RawPath == [kind : {"exact", "prefix"}, of : Path]
           \cup [kind : {"glob"}, of : Pattern]

RawLogin == [source : Net \cup {None, Bad}, auth : Auth \cup {None},
             tty : BOOLEAN, bind : BOOLEAN]

RawSubject == [uid : Uid \cup {None}, user : Name \cup {None},
               roles : SUBSET Role,
               program : RawPath \cup {None, Bad},
               script : RawPath \cup {None, Bad},
               applet : Applet \cup {None},
               login : RawLogin \cup {None}]

Minute == 0 .. 1440
TimeConstraint == [days : SUBSET (0 .. 6), start : 0 .. 1439, end : Minute, interval : Nat]

RawRule == [id : RuleId, type : {"standard", "subject_only"},
            effect : {"allow", "deny", "need_approval", "audit_only"},
            subject : RawSubject,
            times : Seq(TimeConstraint),
            object : [path : RawPath \cup {None, Bad}, newPath : RawPath \cup {None, Bad}] \cup {None},
            ops : (SUBSET Op) \cup {None},
            mpa : [threshold : Nat, roles : SUBSET Role] \cup {None},
            jit : [enabled : BOOLEAN, ttl : Nat \cup {None}] \cup {None}]     \* pre_approval

RawPolicy == [type : {"server", "workstation"}, effect : {"allow", "deny"},
              ttl : Nat, ttlMax : Nat \cup {None},     \* pre_approval_defaults
              rules : Seq(RawRule)]

RawRoles == [roles : Seq(Role), strict : BOOLEAN,       \* deny_if_role_unknown
             defaults : SUBSET Role,
             assignments : Seq([uid : Uid \cup {None}, user : Name \cup {None}, roles : SUBSET Role]),
             groups : Seq([gid : Gid \cup {None}, group : Group \cup {None}, roles : SUBSET Role]),
             logins : Seq([uid : Uid \cup {None}, user : Name \cup {None},
                           sources : SUBSET (Net \cup {Bad})])]

\* One control stands for those of the four commands.
RawManagement == [initiators : SUBSET Role, enabled : BOOLEAN, threshold : Nat, approvers : SUBSET Role]

Directory == [roles : RawRoles, files : Seq(RawPolicy), mgmt : RawManagement]

\* AccessContext without the roles of the uid.
Request == [uid : Uid, program : Path \cup {None}, script : Path \cup {None},
            applet : Applet \cup {None}, op : Op, path : Path, newPath : Path \cup {None},
            tty : {"cui", "gui", "none"},
            session : [uid : Uid, source : Address \cup {None, Bad}, auth : Auth \cup {None}] \cup {None}]

Instant == [date : Nat \ {0}, minute : 0 .. 1439]

ASSUME PolicyAssumption ==
    /\ UidOf \in [Name -> Uid \cup {None}]
    /\ Under \in [Path -> SUBSET Path]
    /\ \A p \in Path : p \in Under[p]
    /\ Glob \in [Pattern -> SUBSET Path]
    /\ Hosts \in [Net -> SUBSET Address]
    /\ Rename \in Op
    /\ IsFiniteSet(Uid)
    /\ Directories \subseteq Directory
    /\ Requests \subseteq Request
    /\ Instants \subseteq Instant
    /\ MaxLoads \in Nat
    /\ None \notin Uid \cup Gid \cup Group \cup Path \cup RawPath
    /\ Gid \cap Group = {}
    /\ None \notin Directories

-----------------------------------------------------------------------------
(* Matching: matchers.rs.                                                  *)

PathMatches(pm, path) ==
    \/ pm.kind = "exact"  /\ path = pm.of
    \/ pm.kind = "prefix" /\ path \in Under[pm.of]
    \/ pm.kind = "glob"   /\ path \in Glob[pm.of]

\* A condition that is there asks for a value that fits.
OptMatches(pm, path) == pm # None => path # None /\ PathMatches(pm, path)

\* The day a window opens decides, also after midnight.
OpensOn(c, date) ==
    /\ c.days = {} \/ WeekDay(date) \in c.days
    /\ (IsoWeek(date) - 1) % c.interval = 0

\* Faulty variant: the day of the request decides.
InWindow_Today(c, now) ==
    \/ c.start < c.end /\ now.minute \in c.start .. c.end - 1 /\ OpensOn(c, now.date)
    \/ c.start > c.end /\ (now.minute >= c.start \/ now.minute < c.end) /\ OpensOn(c, now.date)

InWindow(c, now) ==
    \/ c.start < c.end /\ now.minute \in c.start .. c.end - 1 /\ OpensOn(c, now.date)
    \/ c.start > c.end /\ now.minute >= c.start               /\ OpensOn(c, now.date)
    \/ c.start > c.end /\ now.minute < c.end                  /\ OpensOn(c, now.date - 1)

TimeMatches(times, now) ==
    times = <<>> \/ \E i \in DOMAIN times : InWindow(times[i], now)

\* is_ssh_source_allowed: a uid without an entry, and a local session, go free.
SourceAllowed(nets, session) ==
    nets[session.uid] # None /\ session.source # None
        => \E net \in nets[session.uid] : session.source \in Hosts[net]

SessionFits(login, nets, session) ==
    /\ login.auth # None => session.auth = login.auth
    /\ login.source # None => session.source \in Hosts[login.source]
    /\ SourceAllowed(nets, session)

LoginMatches(login, nets, req, type) ==
    /\ login.tty => req.tty = "cui" \/ (type = "workstation" /\ req.tty = "gui")
    /\ login.bind =>
        \/ req.session # None /\ SessionFits(login, nets, req.session)
        \/ req.session = None /\ type = "workstation" /\ login.auth = None /\ login.source = None

SubjectMatches(m, roles, nets, req, type) ==
    /\ m.uid # None => req.uid = m.uid
    /\ m.roles = {} \/ m.roles \cap roles # {}
    /\ OptMatches(m.program, req.program)
    /\ OptMatches(m.script, req.script)
    /\ m.applet # None => req.applet = m.applet
    /\ m.login # None => LoginMatches(m.login, nets, req, type)

ObjectMatches(m, req) ==
    m # None => PathMatches(m.path, req.path) /\ OptMatches(m.newPath, req.newPath)

\* No list, and an empty one, stand for every operation.
OpMatches(ops, op) == ops \in {None, {}} \/ op \in ops

RuleMatches(rule, c, type, req, now) ==
    /\ ObjectMatches(rule.object, req)
    /\ OpMatches(rule.ops, req.op)
    /\ TimeMatches(rule.times, now)
    /\ SubjectMatches(rule.subject, c.uids[req.uid], c.nets, req, type)

-----------------------------------------------------------------------------
(* One rule and one file: compile.rs.                                      *)

\* opt_compile_path: a pattern that does not parse is dropped.
OptPath(raw) == IF raw = Bad THEN None ELSE raw

\* A name that resolves to no uid leaves the rule without one.
CompileSubject(s) ==
    [uid     |-> IF s.uid # None THEN s.uid ELSE IF s.user # None THEN UidOf[s.user] ELSE None,
     roles   |-> s.roles,
     program |-> OptPath(s.program),
     script  |-> OptPath(s.script),
     applet  |-> s.applet,
     login   |-> IF s.login = None THEN None ELSE [s.login EXCEPT !.source = OptPath(@)]]

\* A rule without a time to live has the file's.
CompilePreApproval(jit, ttl) ==
    [enabled |-> jit # None /\ jit.enabled,
     ttl     |-> IF jit = None \/ jit.ttl = None THEN ttl ELSE jit.ttl]

CompileRule(r, p, file) ==
    [id |-> r.id, file |-> file, type |-> r.type, effect |-> r.effect,
     subject |-> CompileSubject(r.subject), times |-> r.times, object |-> r.object, ops |-> r.ops,
     mpa |-> IF r.mpa # None /\ r.mpa.threshold = 0 /\ r.mpa.roles = {} THEN None ELSE r.mpa,
     jit |-> CompilePreApproval(r.jit, p.ttl)]

\* The schema lets exactly the rules about renaming have a new path; a rule
\* without "ops" counts as one.
SchemaAllows(r) ==
    r.object # None => ((r.ops = None \/ Rename \in r.ops) <=> r.object.newPath # None)

TimeCompiles(t) == t.interval # 0 /\ t.start # t.end

RuleCompiles(r) ==
    /\ r.object # None => r.object.path \notin {None, Bad} /\ r.object.newPath # Bad
    /\ r.jit # None /\ r.jit.ttl # None => r.jit.ttl >= 1
    /\ \A i \in DOMAIN r.times : TimeCompiles(r.times[i])

FileCompiles(p) ==
    /\ p.ttlMax # None => p.ttl <= p.ttlMax
    /\ \A i \in DOMAIN p.rules : SchemaAllows(p.rules[i]) /\ RuleCompiles(p.rules[i])
    /\ \A i, j \in DOMAIN p.rules : p.rules[i].id = p.rules[j].id => i = j

IsExact(pm) == pm # None /\ pm.kind = "exact"

\* calculate_specificity
Specificity(rule) ==
    IF rule.object = None \/ ~IsExact(rule.object.path) THEN 0
    ELSE IF IsExact(rule.subject.program) /\ IsExact(rule.subject.script) THEN 2 ELSE 1

\* Faulty variant: the rules stay in the order of the file.
Sorted_AsWritten(rules) == rules

\* The stable sort: the positions of a file's rules, in the order of the sort.
Sorted(rules) ==
    LET Before(i, j) == \/ Specificity(rules[i]) > Specificity(rules[j])
                        \/ Specificity(rules[i]) = Specificity(rules[j]) /\ i < j
    IN [n \in DOMAIN rules |->
           rules[CHOOSE i \in DOMAIN rules : Cardinality({j \in DOMAIN rules : Before(j, i)}) = n - 1]]

\* ManagedScopeIndex::from_rules
ObjectPaths(rule) ==
    IF rule.type = "subject_only" \/ rule.object = None THEN {}
    ELSE {rule.object.path, rule.object.newPath} \ {None}
ProgramPaths(rule) ==
    IF rule.type = "subject_only" THEN {rule.subject.program} \ {None} ELSE {}

FromRules(rules) ==
    [objects  |-> UNION {ObjectPaths(rules[i]) : i \in DOMAIN rules},
     programs |-> UNION {ProgramPaths(rules[i]) : i \in DOMAIN rules}]

\* Faulty variant: the programs of further files are forgotten.
ScopeUnion_Objects(a, b) ==
    [objects |-> a.objects \cup b.objects, programs |-> a.programs]

ScopeUnion(a, b) ==
    [objects |-> a.objects \cup b.objects, programs |-> a.programs \cup b.programs]

CompilePolicy(p, file) ==
    LET rules == Sorted([i \in DOMAIN p.rules |-> CompileRule(p.rules[i], p, file)])
    IN [type |-> p.type, effect |-> p.effect, ttl |-> p.ttl, ttlMax |-> p.ttlMax,
        rules |-> rules, scope |-> FromRules(rules)]

\* CompiledPolicy::merge: what the files do not share is the first one's.
Mergeable(acc, next) ==
    /\ acc.type = next.type
    /\ \A i \in DOMAIN acc.rules, j \in DOMAIN next.rules : acc.rules[i].id # next.rules[j].id

Merge(acc, next) ==
    [acc EXCEPT !.rules = acc.rules \o next.rules, !.scope = ScopeUnion(acc.scope, next.scope)]

-----------------------------------------------------------------------------
(* Judging a request: eval.rs.                                             *)

Managed(scope, req) ==
    \/ \E pm \in scope.objects : PathMatches(pm, req.path) \/ OptMatches(pm, req.newPath)
    \/ \E pm \in scope.programs : OptMatches(pm, req.program)

Pass == [kind |-> "pass", rule |-> None]
NoMatchManaged == [kind |-> "none", rule |-> None]
Matched(rule) == [kind |-> "matched", rule |-> rule]

Evaluate(b, req, now) ==
    LET rules == b.policy.rules
        hits == {i \in DOMAIN rules : RuleMatches(rules[i], b.core, b.policy.type, req, now)}
    IN IF ~Managed(b.policy.scope, req) THEN Pass
       ELSE IF hits = {} THEN NoMatchManaged
       ELSE Matched(rules[CHOOSE i \in hits : \A j \in hits : i <= j])

-----------------------------------------------------------------------------
(* The roles: compile_roles_v1.                                            *)

Known(roles) == {roles.roles[i] : i \in DOMAIN roles.roles}

\* resolve_roles
RolesResolve(refs, known, strict) == strict => refs \subseteq known

\* normalize_assignment_target: exactly one of the two.
TargetOK(a) == (a.uid = None) # (a.user = None)
Target(a) == IF a.uid # None THEN a.uid ELSE UidOf[a.user]

RolesStart(roles) ==
    /\ \A i, j \in DOMAIN roles.roles : roles.roles[i] = roles.roles[j] => i = j
    /\ RolesResolve(roles.defaults, Known(roles), TRUE)

\* Faulty variant: the last assignment of a uid counts.
Assigned_Last(uids, a, known) ==
    IF Target(a) = None THEN uids ELSE [uids EXCEPT ![Target(a)] = a.roles \cap known]

\* merge_role_set.  A user nobody knows, and a set that came out empty, are
\* skipped with a warning.
Assigned(uids, a, known) ==
    IF Target(a) = None THEN uids ELSE [uids EXCEPT ![Target(a)] = @ \cup (a.roles \cap known)]

\* normalize_group_assignment_target
GroupTargetOK(g) == (g.gid = None) # (g.group = None)
GroupTarget(g) == IF g.gid # None THEN g.gid ELSE g.group

\* GroupRoleIndex: its two maps, of the gids and of the names, are one here.
GroupAssigned(groups, g, known) == [groups EXCEPT ![GroupTarget(g)] = @ \cup (g.roles \cap known)]

LoginOK(nets, l) ==
    /\ TargetOK(l) /\ Target(l) # None
    /\ nets[Target(l)] = None
    /\ Bad \notin l.sources

-----------------------------------------------------------------------------
(* management.json: compile_management.                                    *)

Holders(uids, role) == {u \in Uid : role \in uids[u]}
HoldersOf(uids, roles) == UNION {Holders(uids, r) : r \in roles}

\* Faulty variant: roles are counted for the people who hold them.
EnoughApprovers_Roles(m, uids) == m.threshold <= 1 + Cardinality(m.approvers)

\* Every role named has somebody, and there are enough approvers.
EnoughApprovers(m, uids) == m.threshold <= Cardinality(HoldersOf(uids, m.approvers))

ManagementCompiles(m, uids) ==
    /\ m.initiators # {}
    /\ \A r \in m.initiators : Holders(uids, r) # {}
    /\ m.enabled => /\ m.threshold \in 1 .. 32
                    /\ m.approvers # {}
                    /\ \A r \in m.approvers : Holders(uids, r) # {}
                    /\ EnoughApprovers(m, uids)

CompileManagement(m, uids) ==
    [initiators |-> HoldersOf(uids, m.initiators), enabled |-> m.enabled,
     threshold |-> m.threshold, approvers |-> m.approvers]

-----------------------------------------------------------------------------
(* What a bundle is made of: ir.rs.  No compiled path is Bad, no window is *)
(* empty and none repeats every zero weeks.                                *)

CompiledTime == {t \in TimeConstraint : TimeCompiles(t)}
CompiledLogin == [source : Net \cup {None}, auth : Auth \cup {None},
                  tty : BOOLEAN, bind : BOOLEAN]
CompiledSubject == [uid : Uid \cup {None}, roles : SUBSET Role,
                    program : RawPath \cup {None}, script : RawPath \cup {None},
                    applet : Applet \cup {None}, login : CompiledLogin \cup {None}]
CompiledObject == [path : RawPath, newPath : RawPath \cup {None}]
CompiledRule == [id : RuleId, file : Nat \ {0}, type : {"standard", "subject_only"},
                 effect : {"allow", "deny", "need_approval", "audit_only"},
                 subject : CompiledSubject, times : Seq(CompiledTime),
                 object : CompiledObject \cup {None}, ops : (SUBSET Op) \cup {None},
                 mpa : [threshold : Nat, roles : SUBSET Role] \cup {None},
                 jit : [enabled : BOOLEAN, ttl : Nat]]
Scope == [objects : SUBSET RawPath, programs : SUBSET RawPath]
CompiledPolicy == [type : {"server", "workstation"}, effect : {"allow", "deny"},
                   ttl : Nat, ttlMax : Nat \cup {None},
                   rules : Seq(CompiledRule), scope : Scope]
RolesCore == [uids : [Uid -> SUBSET Role], groups : [Gid \cup Group -> SUBSET Role],
              nets : [Uid -> (SUBSET Net) \cup {None}]]
CompiledManagement == [initiators : SUBSET Uid, enabled : BOOLEAN,
                       threshold : Nat, approvers : SUBSET Role]
Bundle == [from : Directories, policy : CompiledPolicy, core : RolesCore, mgmt : CompiledManagement]

ASSUME NoneIsNoPolicy == None \notin CompiledPolicy

-----------------------------------------------------------------------------
(* Loading a directory.                                                    *)

NoCore == [uids |-> [u \in Uid |-> {}], groups |-> [g \in Gid \cup Group |-> {}],
           nets |-> [u \in Uid |-> None]]

Idle == pc = "idle" /\ dir = None /\ done = 0 /\ core = NoCore /\ policy = None /\ mgmt = None

Init == Idle /\ force = None /\ loads = 0

\* load_bundle_from_dir, load_roles: the catalogue and the defaults.
Load(d) ==
    /\ pc = "idle" /\ loads < MaxLoads
    /\ RolesStart(d.roles)
    /\ dir' = d /\ pc' = "assign" /\ loads' = loads + 1
    /\ UNCHANGED <<force, done, core, policy, mgmt>>

\* The item that comes next.
Assignment == dir.roles.assignments[done + 1]
GroupAssignment == dir.roles.groups[done + 1]
LoginContext == dir.roles.logins[done + 1]
File == dir.files[done + 1]
Compiled == CompilePolicy(File, done + 1)

AssignOK(a) == TargetOK(a) /\ RolesResolve(a.roles, Known(dir.roles), dir.roles.strict)
GroupOK(g) == GroupTargetOK(g) /\ RolesResolve(g.roles, Known(dir.roles), dir.roles.strict)
FileOK == FileCompiles(File) /\ (policy # None => Mergeable(policy, Compiled))

Stage(s) == pc = s /\ UNCHANGED <<force, dir, loads>>

Assign ==
    /\ Stage("assign") /\ done < Len(dir.roles.assignments)
    /\ AssignOK(Assignment)
    /\ core' = [core EXCEPT !.uids = Assigned(@, Assignment, Known(dir.roles))]
    /\ done' = done + 1
    /\ UNCHANGED <<pc, policy, mgmt>>

AssignDone ==
    /\ Stage("assign") /\ done = Len(dir.roles.assignments)
    /\ pc' = "group" /\ done' = 0
    /\ UNCHANGED <<core, policy, mgmt>>

\* compile_group_assignments, which says itself that nothing uses the index.
AssignGroup ==
    /\ Stage("group") /\ done < Len(dir.roles.groups)
    /\ GroupOK(GroupAssignment)
    /\ core' = [core EXCEPT !.groups = GroupAssigned(@, GroupAssignment, Known(dir.roles))]
    /\ done' = done + 1
    /\ UNCHANGED <<pc, policy, mgmt>>

GroupsDone ==
    /\ Stage("group") /\ done = Len(dir.roles.groups)
    /\ pc' = "login" /\ done' = 0
    /\ UNCHANGED <<core, policy, mgmt>>

Login ==
    /\ Stage("login") /\ done < Len(dir.roles.logins)
    /\ LoginOK(core.nets, LoginContext)
    /\ core' = [core EXCEPT !.nets[Target(LoginContext)] = LoginContext.sources]
    /\ done' = done + 1
    /\ UNCHANGED <<pc, policy, mgmt>>

LoginDone ==
    /\ Stage("login") /\ done = Len(dir.roles.logins)
    /\ pc' = "files" /\ done' = 0
    /\ UNCHANGED <<core, policy, mgmt>>

\* load_policies_listed_in_bundle
LoadFile ==
    /\ Stage("files") /\ done < Len(dir.files)
    /\ FileOK
    /\ policy' = IF policy = None THEN Compiled ELSE Merge(policy, Compiled)
    /\ done' = done + 1
    /\ UNCHANGED <<pc, core, mgmt>>

\* A bundle that lists no file is an error.
FilesDone ==
    /\ Stage("files") /\ done = Len(dir.files) /\ policy # None
    /\ pc' = "management" /\ done' = 0
    /\ UNCHANGED <<core, policy, mgmt>>

LoadManagement ==
    /\ Stage("management")
    /\ ManagementCompiles(dir.mgmt, core.uids)
    /\ mgmt' = CompileManagement(dir.mgmt, core.uids)
    /\ pc' = "ready"
    /\ UNCHANGED <<done, core, policy>>

Step == Assign \/ AssignDone \/ AssignGroup \/ GroupsDone \/ Login \/ LoginDone
        \/ LoadFile \/ FilesDone \/ LoadManagement

Reset == dir' = None /\ pc' = "idle" /\ done' = 0 /\ core' = NoCore /\ policy' = None /\ mgmt' = None

\* The first error is the load's.
Fail ==
    /\ \/ pc = "assign" /\ done < Len(dir.roles.assignments) /\ ~AssignOK(Assignment)
       \/ pc = "group" /\ done < Len(dir.roles.groups) /\ ~GroupOK(GroupAssignment)
       \/ pc = "login" /\ done < Len(dir.roles.logins) /\ ~LoginOK(core.nets, LoginContext)
       \/ pc = "files" /\ done < Len(dir.files) /\ ~FileOK
       \/ pc = "files" /\ done = Len(dir.files) /\ policy = None
       \/ pc = "management" /\ ~ManagementCompiles(dir.mgmt, core.uids)
    /\ Reset
    /\ UNCHANGED <<force, loads>>

\* init_bundle_at_epoch, update_bundle
Publish ==
    /\ pc = "ready"
    /\ force' = [from |-> dir, policy |-> policy, core |-> core, mgmt |-> mgmt]
    /\ Reset
    /\ UNCHANGED loads

\* teal-cli diff, and an update that is not approved.
Discard ==
    /\ pc = "ready"
    /\ Reset
    /\ UNCHANGED <<force, loads>>

Next == (\E d \in Directories : Load(d)) \/ Step \/ Fail \/ Publish \/ Discard

Spec == Init /\ [][Next]_vars

-----------------------------------------------------------------------------
(* What is promised of the bundle in force.                                *)

\* A rule as its author placed it: the file, and the place in it.
Places(d) == UNION {{<<f, i>> : i \in DOMAIN d.files[f].rules} : f \in DOMAIN d.files}
RuleAt(d, p) == CompileRule(d.files[p[1]].rules[p[2]], d.files[p[1]], p[1])

\* The rules of the directory that say something of a request.
Fitting(b, req, now) ==
    {p \in Places(b.from) : RuleMatches(RuleAt(b.from, p), b.core, b.policy.type, req, now)}

\* Files in the order of the bundle; in a file the more specific rule, and
\* then the one that is written first.
Precedes(d, p, q) ==
    \/ p[1] < q[1]
    \/ p[1] = q[1] /\ Specificity(RuleAt(d, p)) > Specificity(RuleAt(d, q))
    \/ p[1] = q[1] /\ Specificity(RuleAt(d, p)) = Specificity(RuleAt(d, q)) /\ p[2] < q[2]

\* A request is decided by the rule that comes first by the documented
\* priority, among all the rules of all the files that fit it, and by the
\* default only when none fits.  [sort_by, CompiledPolicy::merge, evaluate]
DecisionByPriority ==
    force # None =>
        \A req \in Requests, now \in Instants :
            LET fits == Fitting(force, req, now)
                decision == Evaluate(force, req, now)
            IN /\ decision = NoMatchManaged => fits = {}
               /\ decision.kind = "matched" =>
                      \E p \in fits : /\ decision.rule = RuleAt(force.from, p)
                                      /\ \A q \in fits \ {p} : Precedes(force.from, p, q)

\* Can be found by the path or the program of a request.
Findable(rule) == IF rule.type = "subject_only" THEN rule.subject.program # None ELSE rule.object # None

\* The quick test of the scope never lets a request pass that one of the
\* rules fits.  [ManagedScopeIndex::from_rules, union, is_request_managed]
ScopeCovers ==
    force # None =>
        \A req \in Requests, now \in Instants, i \in DOMAIN force.policy.rules :
            /\ Findable(force.policy.rules[i])
            /\ RuleMatches(force.policy.rules[i], force.core, force.policy.type, req, now)
            => Managed(force.policy.scope, req)

\* Minutes since the first midnight, and how long a window is open.
Clock(now) == now.date * 1440 + now.minute
Length(c) == IF c.start < c.end THEN c.end - c.start ELSE c.end + 1440 - c.start

\* A window is the stretch of time that starts at its start on a day it is
\* for, whatever midnight, week or year it runs across.
\* [match_time_constraints_at]
WindowsAsWritten ==
    force # None =>
        \A i \in DOMAIN force.policy.rules, now \in Instants :
            \A n \in DOMAIN force.policy.rules[i].times :
                LET c == force.policy.rules[i].times[n]
                IN InWindow(c, now) <=>
                       \E date \in now.date - 2 .. now.date + 1 :
                           /\ OpensOn(c, date)
                           /\ Clock(now) \in date * 1440 + c.start .. date * 1440 + c.start + Length(c) - 1

\* A uid has the roles of all the assignments that mean it, by uid or by
\* name, as far as the catalogue knows them; it has none by a group or by
\* the defaults, which are compiled and then asked by nobody.  A group has
\* in the index what the group assignments say.  With deny_if_role_unknown
\* no entry in force, of a user or of a group, names an unknown role.
\* [compile_assignments, compile_group_assignments, merge_role_set,
\* resolve_roles]
RolesAsAssigned ==
    force # None =>
        LET roles == force.from.roles
        IN /\ \A u \in Uid, r \in Role :
                  r \in force.core.uids[u] <=>
                      /\ r \in Known(roles)
                      /\ \E i \in DOMAIN roles.assignments :
                             /\ u = Target(roles.assignments[i])
                             /\ r \in roles.assignments[i].roles
           /\ \A g \in Gid \cup Group, r \in Role :
                  r \in force.core.groups[g] <=>
                      /\ r \in Known(roles)
                      /\ \E i \in DOMAIN roles.groups :
                             /\ g = GroupTarget(roles.groups[i])
                             /\ r \in roles.groups[i].roles
           /\ roles.strict =>
                  /\ \A i \in DOMAIN roles.assignments : roles.assignments[i].roles \subseteq Known(roles)
                  /\ \A i \in DOMAIN roles.groups : roles.groups[i].roles \subseteq Known(roles)

\* When everybody approves who may, the quorum of a command is met: no
\* management gets in force that nobody can start, stop or update any more.
\* [compile_mpa, insert_approver, MpaState::is_fulfilled]
QuorumReachable ==
    force # None /\ force.mgmt.enabled =>
        LET may == HoldersOf(force.core.uids, force.mgmt.approvers)
        IN /\ force.mgmt.threshold <= Cardinality(may)
           /\ force.mgmt.approvers \subseteq UNION {force.core.uids[u] : u \in may}

=============================================================================
