------------------------- MODULE PolicyEngine_proofs -------------------------
(***************************************************************************)
(* Proofs about PolicyEngine, for any directories, requests and instants.  *)
(*                                                                         *)
(* PInv says what the items loaded so far have made of the directory: the  *)
(* roles are those of the assignments that are done, the rules of the      *)
(* policy are those of the files that are done, each at its place in the   *)
(* documented order, and the scope holds the paths of all of them.  No     *)
(* induction over a directory is needed: a step adds one item.             *)
(***************************************************************************)
EXTENDS PolicyEngine, FiniteSetTheorems, WellFoundedInduction, TLAPS

-----------------------------------------------------------------------------
(* Types. *)

Loading == {"assign", "group", "login", "files", "management", "ready"}

TypeOK ==
    /\ force \in Bundle \cup {None}
    /\ dir \in Directories \cup {None}
    /\ pc \in Loading \cup {"idle"}
    /\ done \in Nat
    /\ core \in RolesCore
    /\ policy \in CompiledPolicy \cup {None}
    /\ mgmt \in CompiledManagement \cup {None}
    /\ loads \in 0 .. MaxLoads

-----------------------------------------------------------------------------
(* The strengthening. *)

\* The roles of the first n assignments.
RolesOf(d, n, uids) ==
    \A u \in Uid, r \in Role :
        r \in uids[u] <=> /\ r \in Known(d.roles)
                          /\ \E i \in DOMAIN d.roles.assignments :
                                 /\ i <= n
                                 /\ u = Target(d.roles.assignments[i])
                                 /\ r \in d.roles.assignments[i].roles

\* The index of the first n group assignments.
GroupsOf(d, n, groups) ==
    \A g \in Gid \cup Group, r \in Role :
        r \in groups[g] <=> /\ r \in Known(d.roles)
                            /\ \E i \in DOMAIN d.roles.groups :
                                   /\ i <= n
                                   /\ g = GroupTarget(d.roles.groups[i])
                                   /\ r \in d.roles.groups[i].roles

\* The first n entries name no unknown role, if none may.
AllKnown(d, entries, n) ==
    d.roles.strict =>
        \A i \in DOMAIN entries : i <= n => entries[i].roles \subseteq Known(d.roles)

AssignedBy(d, n, c) == RolesOf(d, n, c.uids) /\ AllKnown(d, d.roles.assignments, n)
GroupedBy(d, n, c) == GroupsOf(d, n, c.groups) /\ AllKnown(d, d.roles.groups, n)
AllAssigned(d, c) == AssignedBy(d, Len(d.roles.assignments), c)
AllGrouped(d, c) == GroupedBy(d, Len(d.roles.groups), c)

\* The places at, in order, have the rules of the first n files.
InOrder(d, n, rules, at) ==
    /\ at \in [DOMAIN rules -> Places(d)]
    /\ \A k \in DOMAIN rules : at[k][1] <= n /\ rules[k] = RuleAt(d, at[k])
    /\ \A p \in Places(d) : p[1] <= n => \E k \in DOMAIN rules : at[k] = p
    /\ \A k, l \in DOMAIN rules : k < l => Precedes(d, at[k], at[l])

Indexed(p) ==
    \A i \in DOMAIN p.rules : /\ ObjectPaths(p.rules[i]) \subseteq p.scope.objects
                              /\ ProgramPaths(p.rules[i]) \subseteq p.scope.programs

PolicyOf(d, n, p) ==
    p # None =>
        Indexed(p) /\ \E at \in [DOMAIN p.rules -> Places(d)] : InOrder(d, n, p.rules, at)

Reachable(m, uids) ==
    m.enabled => LET may == HoldersOf(uids, m.approvers)
                 IN /\ m.threshold <= Cardinality(may)
                    /\ m.approvers \subseteq UNION {uids[u] : u \in may}

\* A bundle that came through.
Sound(d, c, p, m) ==
    /\ AllAssigned(d, c) /\ AllGrouped(d, c)
    /\ PolicyOf(d, Len(d.files), p)
    /\ Reachable(m, c.uids)

PInv ==
    /\ TypeOK
    /\ pc # "idle" => dir \in Directories
    /\ pc = "idle" => core = NoCore /\ done = 0
    /\ pc = "assign" => /\ done <= Len(dir.roles.assignments)
                        /\ AssignedBy(dir, done, core)
                        /\ GroupedBy(dir, 0, core)
    /\ pc = "group" => /\ done <= Len(dir.roles.groups)
                       /\ AllAssigned(dir, core)
                       /\ GroupedBy(dir, done, core)
    /\ pc \in {"login", "files", "management", "ready"}
           => AllAssigned(dir, core) /\ AllGrouped(dir, core)
    /\ pc \in {"idle", "assign", "group", "login"} => policy = None
    /\ pc = "files" => /\ done <= Len(dir.files)
                       /\ policy = None <=> done = 0
                       /\ PolicyOf(dir, done, policy)
    /\ pc \in {"management", "ready"}
           => policy \in CompiledPolicy /\ PolicyOf(dir, Len(dir.files), policy)
    /\ pc = "ready" => mgmt \in CompiledManagement /\ Reachable(mgmt, core.uids)
    /\ force # None => Sound(force.from, force.core, force.policy, force.mgmt)

-----------------------------------------------------------------------------
(* The order of a file's rules. *)

Before(rules, i, j) ==
    \/ Specificity(rules[i]) > Specificity(rules[j])
    \/ Specificity(rules[i]) = Specificity(rules[j]) /\ i < j

Earlier(rules, i) == {j \in DOMAIN rules : Before(rules, j, i)}
Rank(rules, i) == Cardinality(Earlier(rules, i))

LEMMA SpecificityIsNumber == \A rule : Specificity(rule) \in Int
BY DEF Specificity

\* Before is a strict total order.
LEMMA BeforeIsOrder ==
    ASSUME NEW n \in Nat, NEW rules, DOMAIN rules = 1 .. n
    PROVE  /\ \A i \in 1 .. n : ~Before(rules, i, i)
           /\ \A i, j \in 1 .. n : i # j => Before(rules, i, j) \/ Before(rules, j, i)
           /\ \A i, j, k \in 1 .. n : Before(rules, i, j) /\ Before(rules, j, k) => Before(rules, i, k)
<1>1. \A i \in 1 .. n : Specificity(rules[i]) \in Int
  BY SpecificityIsNumber
<1>2. QED BY <1>1 DEF Before

LEMMA RankGrows ==
    ASSUME NEW n \in Nat, NEW rules, DOMAIN rules = 1 .. n,
           NEW i \in 1 .. n, NEW j \in 1 .. n, Before(rules, i, j)
    PROVE  Rank(rules, i) < Rank(rules, j)
<1>1. Earlier(rules, i) \subseteq Earlier(rules, j) /\ i \in Earlier(rules, j) /\ i \notin Earlier(rules, i)
  BY BeforeIsOrder DEF Earlier
<1>2. IsFiniteSet(1 .. n) /\ Earlier(rules, j) \subseteq 1 .. n
  BY FS_Interval DEF Earlier
<1>3. IsFiniteSet(Earlier(rules, j))
  BY <1>2, FS_Subset
<1>4. /\ IsFiniteSet(Earlier(rules, i))
      /\ Cardinality(Earlier(rules, i)) <= Cardinality(Earlier(rules, j))
      /\ Cardinality(Earlier(rules, i)) # Cardinality(Earlier(rules, j))
  BY <1>1, <1>3, FS_Subset
<1>5. Cardinality(Earlier(rules, i)) \in Nat /\ Cardinality(Earlier(rules, j)) \in Nat
  BY <1>3, <1>4, FS_CardinalityType
<1>6. QED BY <1>4, <1>5 DEF Rank

LEMMA RankIsPlace ==
    ASSUME NEW n \in Nat, NEW rules, DOMAIN rules = 1 .. n
    PROVE  [i \in 1 .. n |-> Rank(rules, i)] \in Injection(1 .. n, 0 .. n - 1)
<1> DEFINE rank == [i \in 1 .. n |-> Rank(rules, i)]
<1>1. ASSUME NEW i \in 1 .. n PROVE Rank(rules, i) \in 0 .. n - 1
  <2>1. IsFiniteSet(1 .. n) /\ Cardinality(1 .. n) = n
    BY FS_Interval
  <2>2. IsFiniteSet((1 .. n) \ {i}) /\ Cardinality((1 .. n) \ {i}) = n - 1
    BY <2>1, FS_RemoveElement
  <2>3. Earlier(rules, i) \subseteq (1 .. n) \ {i}
    BY BeforeIsOrder DEF Earlier
  <2>4. IsFiniteSet(Earlier(rules, i)) /\ Cardinality(Earlier(rules, i)) <= n - 1
    BY <2>2, <2>3, FS_Subset
  <2>5. Cardinality(Earlier(rules, i)) \in Nat
    BY <2>4, FS_CardinalityType
  <2>6. QED BY <2>4, <2>5 DEF Rank
<1>2. ASSUME NEW i \in 1 .. n, NEW j \in 1 .. n, i # j PROVE Rank(rules, i) # Rank(rules, j)
  <2>1. Before(rules, i, j) \/ Before(rules, j, i)
    BY <1>2, BeforeIsOrder
  <2>2. Rank(rules, i) < Rank(rules, j) \/ Rank(rules, j) < Rank(rules, i)
    BY <2>1, RankGrows
  <2>3. Rank(rules, i) \in Int /\ Rank(rules, j) \in Int
    BY <1>1
  <2>4. QED BY <2>2, <2>3
<1>3. rank \in [1 .. n -> 0 .. n - 1]
  BY <1>1
<1>4. \A i, j \in 1 .. n : rank[i] = rank[j] => i = j
  BY <1>2
<1> HIDE DEF rank
<1>5. rank \in Injection(1 .. n, 0 .. n - 1)
  BY <1>3, <1>4 DEF Injection, IsInjective
<1>6. QED BY <1>5 DEF rank

\* Sorted takes every rule once, and in the order of Before.
LEMMA SortedIsInOrder ==
    ASSUME NEW n \in Nat, NEW rules, DOMAIN rules = 1 .. n
    PROVE  \E by \in [1 .. n -> 1 .. n] :
               /\ Sorted(rules) = [k \in 1 .. n |-> rules[by[k]]]
               /\ \A i \in 1 .. n : \E k \in 1 .. n : by[k] = i
               /\ \A k, l \in 1 .. n : k < l => Before(rules, by[k], by[l])
<1> DEFINE rank == [i \in 1 .. n |-> Rank(rules, i)]
           by == [k \in 1 .. n |-> CHOOSE i \in 1 .. n : Rank(rules, i) = k - 1]
<1>1. rank \in Injection(1 .. n, 0 .. n - 1)
  BY RankIsPlace
<1>2. rank \in Surjection(1 .. n, 0 .. n - 1)
  <2>1. Cardinality(1 .. n) = n
    BY FS_Interval
  <2>2. n - 1 \in Int /\ (n - 1) - 0 + 1 = n /\ (0 > n - 1 => n = 0)
    OBVIOUS
  <2>3. IsFiniteSet(0 .. n - 1) /\ Cardinality(0 .. n - 1) = n
    BY <2>2, FS_Interval
  <2> HIDE DEF rank
  <2>4. QED BY <1>1, <2>1, <2>3, FS_Injection
<1>3. ASSUME NEW k \in 1 .. n PROVE by[k] \in 1 .. n /\ Rank(rules, by[k]) = k - 1
  <2>1. k - 1 \in 0 .. n - 1
    OBVIOUS
  <2>2. \E i \in 1 .. n : rank[i] = k - 1
    <3> HIDE DEF rank
    <3>1. QED BY <1>2, <2>1 DEF Surjection
  <2>3. \E i \in 1 .. n : Rank(rules, i) = k - 1
    BY <2>2
  <2>4. QED BY <2>3
<1>4. ASSUME NEW i \in 1 .. n, NEW j \in 1 .. n, Rank(rules, i) = Rank(rules, j) PROVE i = j
  <2>1. rank[i] = rank[j]
    BY <1>4
  <2> HIDE DEF rank
  <2>2. QED BY <1>1, <2>1 DEF Injection, IsInjective
<1>5. by \in [1 .. n -> 1 .. n]
  BY <1>3
<1>6. Sorted(rules) = [k \in 1 .. n |-> rules[by[k]]]
  BY DEF Sorted, Rank, Earlier, Before
<1>7. ASSUME NEW i \in 1 .. n PROVE \E k \in 1 .. n : by[k] = i
  <2>1. Rank(rules, i) \in 0 .. n - 1 /\ Rank(rules, i) = rank[i]
    <3>1. rank[i] \in 0 .. n - 1
      <4> HIDE DEF rank
      <4>1. QED BY <1>1 DEF Injection
    <3>2. QED BY <3>1
  <2> HIDE DEF by
  <2>2. Rank(rules, i) + 1 \in 1 .. n /\ (Rank(rules, i) + 1) - 1 = Rank(rules, i)
    BY <2>1
  <2>3. Rank(rules, by[Rank(rules, i) + 1]) = Rank(rules, i) /\ by[Rank(rules, i) + 1] \in 1 .. n
    BY <1>3, <2>2
  <2>4. QED BY <1>4, <2>2, <2>3
<1>8. ASSUME NEW k \in 1 .. n, NEW l \in 1 .. n, k < l PROVE Before(rules, by[k], by[l])
  <2> HIDE DEF by
  <2>1. /\ by[k] \in 1 .. n /\ by[l] \in 1 .. n
        /\ Rank(rules, by[k]) = k - 1 /\ Rank(rules, by[l]) = l - 1
    BY <1>3
  <2>2. by[k] # by[l]
    BY <1>8, <2>1
  <2>3. ~Before(rules, by[l], by[k])
    BY <1>8, <2>1, RankGrows
  <2>4. QED BY <2>1, <2>2, <2>3, BeforeIsOrder
<1> HIDE DEF by
<1>9. QED BY <1>5, <1>6, <1>7, <1>8

-----------------------------------------------------------------------------
(* One rule. *)

LEMMA FileTyped ==
    ASSUME NEW d \in Directories, NEW f \in DOMAIN d.files
    PROVE  d.files[f] \in RawPolicy /\ f \in Nat \ {0}
<1>1. d \in Directory
  BY PolicyAssumption
<1>2. d.files \in Seq(RawPolicy)
  BY <1>1 DEF Directory
<1>3. QED BY <1>2

LEMMA OptPathTyped == ASSUME NEW x \in RawPath \cup {None, Bad} PROVE OptPath(x) \in RawPath \cup {None}
BY DEF OptPath

LEMMA SubjectTyped ==
    ASSUME NEW s \in RawSubject
    PROVE  CompileSubject(s) \in CompiledSubject
<1>1. /\ s.uid \in Uid \cup {None} /\ s.user \in Name \cup {None} /\ s.roles \in SUBSET Role
      /\ s.program \in RawPath \cup {None, Bad} /\ s.script \in RawPath \cup {None, Bad}
      /\ s.applet \in Applet \cup {None} /\ s.login \in RawLogin \cup {None}
  BY DEF RawSubject
<1>2. (IF s.uid # None THEN s.uid ELSE IF s.user # None THEN UidOf[s.user] ELSE None) \in Uid \cup {None}
  BY <1>1, PolicyAssumption
<1>3. OptPath(s.program) \in RawPath \cup {None} /\ OptPath(s.script) \in RawPath \cup {None}
  BY <1>1, OptPathTyped
<1>4. (IF s.login = None THEN None ELSE [s.login EXCEPT !.source = OptPath(@)]) \in CompiledLogin \cup {None}
  <2>1. ASSUME s.login # None PROVE [s.login EXCEPT !.source = OptPath(@)] \in CompiledLogin
    <3>1. s.login \in RawLogin
      BY <1>1, <2>1
    <3>2. QED BY <3>1 DEF RawLogin, CompiledLogin, OptPath
  <2>2. QED BY <2>1
<1>5. QED BY <1>1, <1>2, <1>3, <1>4 DEF CompileSubject, CompiledSubject

LEMMA ObjectTyped ==
    ASSUME NEW r \in RawRule, RuleCompiles(r)
    PROVE  r.object \in CompiledObject \cup {None}
<1>1. r.object \in [path : RawPath \cup {None, Bad}, newPath : RawPath \cup {None, Bad}] \cup {None}
  BY DEF RawRule
<1>2. r.object # None => r.object.path \notin {None, Bad} /\ r.object.newPath # Bad
  BY DEF RuleCompiles
<1>3. QED BY <1>1, <1>2 DEF CompiledObject

LEMMA TimesTyped ==
    ASSUME NEW r \in RawRule, RuleCompiles(r)
    PROVE  r.times \in Seq(CompiledTime)
<1>1. r.times \in Seq(TimeConstraint)
  BY DEF RawRule
<1>2. \A i \in DOMAIN r.times : TimeCompiles(r.times[i])
  BY DEF RuleCompiles
<1> HIDE DEF TimeConstraint
<1>3. \A i \in DOMAIN r.times : r.times[i] \in CompiledTime
  BY <1>1, <1>2 DEF CompiledTime
<1>4. Len(r.times) \in Nat /\ r.times = [i \in 1 .. Len(r.times) |-> r.times[i]]
  BY <1>1
<1>5. QED BY <1>3, <1>4

LEMMA RuleTyped ==
    ASSUME NEW r \in RawRule, RuleCompiles(r), NEW p \in RawPolicy, NEW f \in Nat \ {0}
    PROVE  CompileRule(r, p, f) \in CompiledRule
<1>1. CompileSubject(r.subject) \in CompiledSubject
  <2>1. r.subject \in RawSubject
    BY DEF RawRule
  <2>2. QED BY <2>1, SubjectTyped
<1>2. r.object \in CompiledObject \cup {None} /\ r.times \in Seq(CompiledTime)
  BY ObjectTyped, TimesTyped
<1>3. (IF r.mpa # None /\ r.mpa.threshold = 0 /\ r.mpa.roles = {} THEN None ELSE r.mpa)
          \in [threshold : Nat, roles : SUBSET Role] \cup {None}
  <2>1. r.mpa \in [threshold : Nat, roles : SUBSET Role] \cup {None}
    BY DEF RawRule
  <2>2. QED BY <2>1
<1>4. CompilePreApproval(r.jit, p.ttl) \in [enabled : BOOLEAN, ttl : Nat]
  <2>1. r.jit \in [enabled : BOOLEAN, ttl : Nat \cup {None}] \cup {None} /\ p.ttl \in Nat
    BY DEF RawRule, RawPolicy
  <2>2. (IF r.jit = None \/ r.jit.ttl = None THEN p.ttl ELSE r.jit.ttl) \in Nat
    BY <2>1
  <2>3. (r.jit # None /\ r.jit.enabled) \in BOOLEAN
    OBVIOUS
  <2>4. QED BY <2>2, <2>3 DEF CompilePreApproval
<1>5. /\ r.id \in RuleId /\ r.type \in {"standard", "subject_only"}
      /\ r.effect \in {"allow", "deny", "need_approval", "audit_only"}
      /\ r.ops \in (SUBSET Op) \cup {None}
  BY DEF RawRule
<1> DEFINE mpa == IF r.mpa # None /\ r.mpa.threshold = 0 /\ r.mpa.roles = {} THEN None ELSE r.mpa
<1>6. mpa \in [threshold : Nat, roles : SUBSET Role] \cup {None}
  BY <1>3
<1> HIDE DEF mpa
<1>7. CompileRule(r, p, f) =
        [id |-> r.id, file |-> f, type |-> r.type, effect |-> r.effect,
         subject |-> CompileSubject(r.subject), times |-> r.times, object |-> r.object, ops |-> r.ops,
         mpa |-> mpa, jit |-> CompilePreApproval(r.jit, p.ttl)]
  BY DEF CompileRule, mpa
<1>8. QED BY <1>1, <1>2, <1>4, <1>5, <1>6, <1>7 DEF CompiledRule

LEMMA PlacesTyped ==
    ASSUME NEW d \in Directories, NEW p \in Places(d)
    PROVE  /\ p[1] \in DOMAIN d.files /\ p[1] \in Nat \ {0}
           /\ p[2] \in DOMAIN d.files[p[1]].rules /\ p[2] \in Nat \ {0}
           /\ p = <<p[1], p[2]>>
<1>1. PICK f \in DOMAIN d.files : p \in {<<f, i>> : i \in DOMAIN d.files[f].rules}
  BY DEF Places
<1>2. PICK i \in DOMAIN d.files[f].rules : p = <<f, i>>
  BY <1>1
<1>3. d.files[f] \in RawPolicy /\ f \in Nat \ {0}
  BY FileTyped
<1>4. d.files[f].rules \in Seq(RawRule)
  BY <1>3 DEF RawPolicy
<1>5. i \in Nat \ {0}
  BY <1>4
<1>6. QED BY <1>2, <1>3, <1>5

-----------------------------------------------------------------------------
(* One file. *)

\* The rules of one file, as they are before the sort.
Rules(p, f) == [i \in DOMAIN p.rules |-> CompileRule(p.rules[i], p, f)]

LEMMA RulesTyped ==
    ASSUME NEW p \in RawPolicy, FileCompiles(p), NEW f \in Nat \ {0}
    PROVE  /\ Len(p.rules) \in Nat /\ DOMAIN p.rules = 1 .. Len(p.rules)
           /\ DOMAIN Rules(p, f) = 1 .. Len(p.rules)
           /\ \A i \in 1 .. Len(p.rules) : Rules(p, f)[i] \in CompiledRule
<1>1. p.rules \in Seq(RawRule)
  BY DEF RawPolicy
<1> HIDE DEF RawRule
<1>2. Len(p.rules) \in Nat /\ DOMAIN p.rules = 1 .. Len(p.rules)
      /\ \A i \in DOMAIN p.rules : p.rules[i] \in RawRule
  BY <1>1
<1>3. \A i \in DOMAIN p.rules : RuleCompiles(p.rules[i])
  BY DEF FileCompiles
<1>4. \A i \in DOMAIN p.rules : CompileRule(p.rules[i], p, f) \in CompiledRule
  BY <1>2, <1>3, RuleTyped
<1>5. QED BY <1>2, <1>4 DEF Rules

LEMMA FromRulesCovers ==
    ASSUME NEW rules
    PROVE  \A i \in DOMAIN rules : /\ ObjectPaths(rules[i]) \subseteq FromRules(rules).objects
                                   /\ ProgramPaths(rules[i]) \subseteq FromRules(rules).programs
BY DEF FromRules

LEMMA FromRulesTyped ==
    ASSUME NEW rules \in Seq(CompiledRule)
    PROVE  FromRules(rules) \in Scope
<1>1. \A i \in DOMAIN rules : rules[i] \in CompiledRule
  OBVIOUS
<1>2. \A i \in DOMAIN rules : ObjectPaths(rules[i]) \subseteq RawPath
  <2> SUFFICES ASSUME NEW r \in CompiledRule PROVE ObjectPaths(r) \subseteq RawPath
    BY <1>1
  <2>1. r.object \in CompiledObject \cup {None}
    BY DEF CompiledRule
  <2>2. QED BY <2>1 DEF ObjectPaths, CompiledObject
<1>3. \A i \in DOMAIN rules : ProgramPaths(rules[i]) \subseteq RawPath
  <2> SUFFICES ASSUME NEW r \in CompiledRule PROVE ProgramPaths(r) \subseteq RawPath
    BY <1>1
  <2>1. r.subject.program \in RawPath \cup {None}
    BY DEF CompiledRule, CompiledSubject
  <2>2. QED BY <2>1 DEF ProgramPaths
<1>4. QED BY <1>2, <1>3 DEF FromRules, Scope

LEMMA CompilePolicyTyped ==
    ASSUME NEW p \in RawPolicy, FileCompiles(p), NEW f \in Nat \ {0}
    PROVE  /\ CompilePolicy(p, f) \in CompiledPolicy
           /\ CompilePolicy(p, f).rules = Sorted(Rules(p, f))
           /\ Indexed(CompilePolicy(p, f))
<1> DEFINE n == Len(p.rules)
           rules == Rules(p, f)
<1>1. n \in Nat /\ DOMAIN rules = 1 .. n /\ \A i \in 1 .. n : rules[i] \in CompiledRule
  BY RulesTyped
<1> HIDE DEF n, rules
<1>2. PICK by \in [1 .. n -> 1 .. n] :
          /\ Sorted(rules) = [k \in 1 .. n |-> rules[by[k]]]
          /\ \A i \in 1 .. n : \E k \in 1 .. n : by[k] = i
          /\ \A k, l \in 1 .. n : k < l => Before(rules, by[k], by[l])
  BY <1>1, SortedIsInOrder
<1>3. Sorted(rules) \in Seq(CompiledRule)
  <2>1. \A k \in 1 .. n : rules[by[k]] \in CompiledRule
    BY <1>1, <1>2
  <2> HIDE DEF CompiledRule
  <2>2. QED BY <1>1, <1>2, <2>1
<1>4. FromRules(Sorted(rules)) \in Scope
  BY <1>3, FromRulesTyped
<1>5. /\ p.type \in {"server", "workstation"} /\ p.effect \in {"allow", "deny"}
      /\ p.ttl \in Nat /\ p.ttlMax \in Nat \cup {None}
  BY DEF RawPolicy
<1>6. CompilePolicy(p, f) = [type |-> p.type, effect |-> p.effect, ttl |-> p.ttl, ttlMax |-> p.ttlMax,
                             rules |-> Sorted(rules), scope |-> FromRules(Sorted(rules))]
  BY DEF CompilePolicy, rules, Rules
<1>7. CompilePolicy(p, f) \in CompiledPolicy
  BY <1>3, <1>4, <1>5, <1>6 DEF CompiledPolicy
<1>8. Indexed(CompilePolicy(p, f))
  BY <1>6, FromRulesCovers DEF Indexed
<1>9. QED BY <1>6, <1>7, <1>8 DEF rules

\* The places at, in order, have the rules of the file f.
FileInOrder(d, f, rules, at) ==
    /\ at \in [DOMAIN rules -> Places(d)]
    /\ \A k \in DOMAIN rules : at[k][1] = f /\ rules[k] = RuleAt(d, at[k])
    /\ \A p \in Places(d) : p[1] = f => \E k \in DOMAIN rules : at[k] = p
    /\ \A k, l \in DOMAIN rules : k < l => Precedes(d, at[k], at[l])

LEMMA CompilePolicyInOrder ==
    ASSUME NEW d \in Directories, NEW f \in DOMAIN d.files, FileCompiles(d.files[f])
    PROVE  \E at : FileInOrder(d, f, CompilePolicy(d.files[f], f).rules, at)
<1> DEFINE p == d.files[f]
           n == Len(p.rules)
           rules == Rules(p, f)
<1>1. p \in RawPolicy /\ f \in Nat \ {0}
  BY FileTyped
<1>2. n \in Nat /\ DOMAIN p.rules = 1 .. n /\ DOMAIN rules = 1 .. n
  BY <1>1, RulesTyped
<1>3. CompilePolicy(p, f).rules = Sorted(rules)
  BY <1>1, CompilePolicyTyped
<1>4. \A i \in 1 .. n : <<f, i>> \in Places(d) /\ RuleAt(d, <<f, i>>) = rules[i]
  BY <1>2 DEF Places, RuleAt, Rules
<1>5. \A i, j \in 1 .. n : Before(rules, i, j) => Precedes(d, <<f, i>>, <<f, j>>)
  BY <1>4 DEF Before, Precedes
<1>6. \A q \in Places(d) : q[1] = f => \E i \in 1 .. n : q = <<f, i>>
  BY <1>2, PlacesTyped
<1> HIDE DEF rules, n
<1>7. PICK by \in [1 .. n -> 1 .. n] :
          /\ Sorted(rules) = [k \in 1 .. n |-> rules[by[k]]]
          /\ \A i \in 1 .. n : \E k \in 1 .. n : by[k] = i
          /\ \A k, l \in 1 .. n : k < l => Before(rules, by[k], by[l])
  BY <1>2, SortedIsInOrder
<1> DEFINE at == [k \in 1 .. n |-> <<f, by[k]>>]
           sorted == Sorted(rules)
<1>8. DOMAIN sorted = 1 .. n /\ \A k \in 1 .. n : by[k] \in 1 .. n /\ sorted[k] = rules[by[k]]
  BY <1>7
<1>9. at \in [1 .. n -> Places(d)]
  BY <1>4, <1>7
<1>10. \A k \in 1 .. n : at[k] = <<f, by[k]>>
  OBVIOUS
<1> HIDE DEF at, sorted, p
<1>11. ASSUME NEW k \in 1 .. n PROVE at[k][1] = f /\ sorted[k] = RuleAt(d, at[k])
  <2>1. by[k] \in 1 .. n /\ at[k] = <<f, by[k]>> /\ sorted[k] = rules[by[k]]
    BY <1>8, <1>10
  <2>2. QED BY <1>4, <2>1
<1>12. ASSUME NEW q \in Places(d), q[1] = f PROVE \E k \in 1 .. n : at[k] = q
  <2>1. PICK i \in 1 .. n : q = <<f, i>>
    BY <1>6, <1>12
  <2>2. PICK k \in 1 .. n : by[k] = i
    BY <1>7
  <2>3. QED BY <1>10, <2>1, <2>2
<1>13. ASSUME NEW k \in 1 .. n, NEW l \in 1 .. n, k < l PROVE Precedes(d, at[k], at[l])
  <2>1. Before(rules, by[k], by[l]) /\ by[k] \in 1 .. n /\ by[l] \in 1 .. n
    BY <1>7, <1>8, <1>13
  <2>2. QED BY <1>5, <1>10, <2>1
<1>14. FileInOrder(d, f, sorted, at)
  BY <1>8, <1>9, <1>11, <1>12, <1>13 DEF FileInOrder
<1>15. QED BY <1>3, <1>14 DEF sorted, p

\* The first file makes the policy.
LEMMA FirstFileInOrder ==
    ASSUME NEW d \in Directories, 1 \in DOMAIN d.files, FileCompiles(d.files[1])
    PROVE  PolicyOf(d, 1, CompilePolicy(d.files[1], 1))
<1>1. d.files[1] \in RawPolicy
  BY FileTyped
<1>2. Indexed(CompilePolicy(d.files[1], 1))
  BY <1>1, CompilePolicyTyped
<1>3. PICK at : FileInOrder(d, 1, CompilePolicy(d.files[1], 1).rules, at)
  BY CompilePolicyInOrder
<1>4. \A q \in Places(d) : q[1] <= 1 => q[1] = 1
  BY PlacesTyped
<1>5. InOrder(d, 1, CompilePolicy(d.files[1], 1).rules, at)
  BY <1>3, <1>4 DEF FileInOrder, InOrder
<1>6. QED BY <1>2, <1>5 DEF PolicyOf, InOrder

\* A further file is put behind.
LEMMA FurtherFileInOrder ==
    ASSUME NEW d \in Directories, NEW n \in Nat, NEW m \in Nat, NEW k \in Nat,
           NEW rules, DOMAIN rules = 1 .. m, NEW more, DOMAIN more = 1 .. k,
           NEW all, DOMAIN all = 1 .. m + k,
           \A i \in 1 .. m : all[i] = rules[i],
           \A i \in 1 .. k : all[m + i] = more[i],
           NEW at, InOrder(d, n, rules, at),
           NEW to, FileInOrder(d, n + 1, more, to)
    PROVE  \E both : InOrder(d, n + 1, all, both)
<1> DEFINE both == [i \in 1 .. m + k |-> IF i <= m THEN at[i] ELSE to[i - m]]
<1>1. \A i \in 1 .. m + k : i \in 1 .. m \/ (~(i <= m) /\ i - m \in 1 .. k /\ i = m + (i - m))
  OBVIOUS
<1>2. \A i \in 1 .. m : i \in 1 .. m + k /\ i <= m
  OBVIOUS
<1>3. \A i \in 1 .. k : m + i \in 1 .. m + k /\ ~(m + i <= m) /\ (m + i) - m = i
  OBVIOUS
<1>4. /\ \A i \in 1 .. m : both[i] = at[i]
      /\ \A i \in 1 .. k : both[m + i] = to[i]
  BY <1>2, <1>3
<1>5. /\ at \in [1 .. m -> Places(d)]
      /\ \A i \in 1 .. m : at[i][1] <= n /\ rules[i] = RuleAt(d, at[i])
      /\ \A p \in Places(d) : p[1] <= n => \E i \in 1 .. m : at[i] = p
      /\ \A i, j \in 1 .. m : i < j => Precedes(d, at[i], at[j])
  BY DEF InOrder
<1>6. /\ to \in [1 .. k -> Places(d)]
      /\ \A i \in 1 .. k : to[i][1] = n + 1 /\ more[i] = RuleAt(d, to[i])
      /\ \A p \in Places(d) : p[1] = n + 1 => \E i \in 1 .. k : to[i] = p
      /\ \A i, j \in 1 .. k : i < j => Precedes(d, to[i], to[j])
  BY DEF FileInOrder
<1>7. both \in [1 .. m + k -> Places(d)]
  BY <1>1, <1>5, <1>6
<1> HIDE DEF both
<1>8. \A p \in Places(d) : p[1] \in Nat /\ (p[1] <= n + 1 <=> p[1] <= n \/ p[1] = n + 1)
  BY PlacesTyped
<1>9. \A i \in 1 .. m + k : both[i][1] <= n + 1 /\ all[i] = RuleAt(d, both[i])
  <2>1. \A i \in 1 .. m : both[i][1] <= n + 1 /\ all[i] = RuleAt(d, both[i])
    BY <1>4, <1>5, <1>8
  <2>2. ASSUME NEW i \in 1 .. k PROVE both[m + i][1] <= n + 1 /\ all[m + i] = RuleAt(d, both[m + i])
    <3>1. both[m + i] = to[i] /\ all[m + i] = more[i]
      BY <1>4
    <3>2. QED BY <1>6, <3>1
  <2>3. QED BY <1>1, <2>1, <2>2
<1>10. \A p \in Places(d) : p[1] <= n + 1 => \E i \in 1 .. m + k : both[i] = p
  <2> TAKE p \in Places(d)
  <2>1. CASE p[1] <= n
    BY <1>2, <1>4, <1>5, <2>1
  <2>2. CASE p[1] = n + 1
    <3>1. PICK i \in 1 .. k : to[i] = p
      BY <1>6, <2>2
    <3>2. QED BY <1>3, <1>4, <3>1
  <2>3. QED BY <1>8, <2>1, <2>2
<1>11. \A i, j \in 1 .. m + k : i < j => Precedes(d, both[i], both[j])
  <2> TAKE i, j \in 1 .. m + k
  <2> HAVE i < j
  <2>1. CASE j \in 1 .. m
    <3>1. i \in 1 .. m
      BY <2>1
    <3>2. QED BY <1>4, <1>5, <2>1, <3>1
  <2>2. CASE i \in 1 .. m /\ j \notin 1 .. m
    <3>1. j - m \in 1 .. k /\ both[j] = to[j - m] /\ both[i] = at[i]
      BY <1>1, <1>4, <2>2
    <3>2. both[i][1] <= n /\ both[j][1] = n + 1 /\ both[i] \in Places(d)
      BY <1>5, <1>6, <2>2, <3>1
    <3>3. both[i][1] < both[j][1]
      BY <1>8, <3>2
    <3>4. QED BY <3>3 DEF Precedes
  <2>3. CASE i \notin 1 .. m /\ j \notin 1 .. m
    <3>1. /\ i - m \in 1 .. k /\ j - m \in 1 .. k /\ i - m < j - m
          /\ both[i] = to[i - m] /\ both[j] = to[j - m]
      BY <1>1, <1>4, <2>3
    <3>2. QED BY <1>6, <3>1
  <2>4. QED BY <2>1, <2>2, <2>3
<1>12. InOrder(d, n + 1, all, both)
  BY <1>7, <1>9, <1>10, <1>11 DEF InOrder
<1>13. QED BY <1>12

LEMMA MergeTyped ==
    ASSUME NEW acc \in CompiledPolicy, NEW next \in CompiledPolicy
    PROVE  /\ Merge(acc, next) \in CompiledPolicy
           /\ Merge(acc, next).rules = acc.rules \o next.rules
           /\ Merge(acc, next).scope = ScopeUnion(acc.scope, next.scope)
<1>1. acc.rules \in Seq(CompiledRule) /\ next.rules \in Seq(CompiledRule)
      /\ acc.scope \in Scope /\ next.scope \in Scope
  BY DEF CompiledPolicy
<1>2. acc.rules \o next.rules \in Seq(CompiledRule)
  BY <1>1
<1>3. ScopeUnion(acc.scope, next.scope) \in Scope
  BY <1>1 DEF ScopeUnion, Scope
<1> HIDE DEF CompiledRule, Scope
<1>4. QED BY <1>2, <1>3 DEF Merge, CompiledPolicy

\* Merge puts the rules of the next file behind, and keeps all of the scope.
LEMMA MergeInOrder ==
    ASSUME NEW d \in Directories, NEW n \in Nat, n + 1 \in DOMAIN d.files,
           FileCompiles(d.files[n + 1]),
           NEW acc \in CompiledPolicy, acc # None, PolicyOf(d, n, acc)
    PROVE  PolicyOf(d, n + 1, Merge(acc, CompilePolicy(d.files[n + 1], n + 1)))
<1> DEFINE f == n + 1
           next == CompilePolicy(d.files[f], f)
           rules == acc.rules
           more == next.rules
           all == Merge(acc, next).rules
<1>1. d.files[f] \in RawPolicy /\ f \in Nat \ {0}
  BY FileTyped
<1>2. next \in CompiledPolicy /\ Indexed(next)
  BY <1>1, CompilePolicyTyped
<1>3. PICK to : FileInOrder(d, n + 1, more, to)
  BY CompilePolicyInOrder
<1>4. PICK at : InOrder(d, n, rules, at)
  BY DEF PolicyOf
<1> HIDE DEF f, next
<1>5. rules \in Seq(CompiledRule) /\ more \in Seq(CompiledRule)
  BY <1>2 DEF CompiledPolicy
<1>6. all = rules \o more /\ Merge(acc, next).scope = ScopeUnion(acc.scope, next.scope)
  BY <1>2, MergeTyped
<1> HIDE DEF rules, more, all, CompiledRule
<1>7. /\ Len(rules) \in Nat /\ DOMAIN rules = 1 .. Len(rules)
      /\ Len(more) \in Nat /\ DOMAIN more = 1 .. Len(more)
      /\ DOMAIN all = 1 .. Len(rules) + Len(more)
      /\ \A i \in 1 .. Len(rules) : all[i] = rules[i]
      /\ \A i \in 1 .. Len(more) : all[Len(rules) + i] = more[i]
  BY <1>5, <1>6
<1>8. \E both : InOrder(d, n + 1, all, both)
  BY <1>3, <1>4, <1>7, FurtherFileInOrder
<1>9. Indexed(Merge(acc, next))
  <2>1. Indexed(acc)
    BY DEF PolicyOf
  <2>2. \A i \in DOMAIN rules : /\ ObjectPaths(rules[i]) \subseteq acc.scope.objects
                                /\ ProgramPaths(rules[i]) \subseteq acc.scope.programs
    BY <2>1 DEF Indexed, rules
  <2>3. \A i \in DOMAIN more : /\ ObjectPaths(more[i]) \subseteq next.scope.objects
                               /\ ProgramPaths(more[i]) \subseteq next.scope.programs
    BY <1>2 DEF Indexed, more
  <2>4. \A i \in DOMAIN all : \/ \E j \in DOMAIN rules : all[i] = rules[j]
                              \/ \E j \in DOMAIN more : all[i] = more[j]
    <3> TAKE i \in DOMAIN all
    <3>1. i \in 1 .. Len(rules) \/ (i - Len(rules) \in 1 .. Len(more) /\ i = Len(rules) + (i - Len(rules)))
      BY <1>7
    <3>2. QED BY <1>7, <3>1
  <2>5. \A i \in DOMAIN all :
            /\ ObjectPaths(all[i]) \subseteq Merge(acc, next).scope.objects
            /\ ProgramPaths(all[i]) \subseteq Merge(acc, next).scope.programs
    BY <1>6, <2>2, <2>3, <2>4 DEF ScopeUnion
  <2>6. QED BY <2>5 DEF Indexed, all
<1>10. QED BY <1>8, <1>9 DEF PolicyOf, InOrder, all, next, f

-----------------------------------------------------------------------------
(* The roles. *)

LEMMA TargetTyped ==
    ASSUME NEW a, a.uid \in Uid \cup {None}, a.user \in Name \cup {None}, TargetOK(a)
    PROVE  Target(a) \in Uid \cup {None}
BY PolicyAssumption DEF Target, TargetOK

LEMMA RolesTyped ==
    ASSUME NEW d \in Directories
    PROVE  /\ Len(d.roles.assignments) \in Nat /\ Len(d.roles.logins) \in Nat
           /\ Len(d.roles.groups) \in Nat /\ DOMAIN d.roles.groups = 1 .. Len(d.roles.groups)
           /\ DOMAIN d.roles.assignments = 1 .. Len(d.roles.assignments)
           /\ \A i \in DOMAIN d.roles.groups :
                  /\ d.roles.groups[i].gid \in Gid \cup {None}
                  /\ d.roles.groups[i].group \in Group \cup {None}
                  /\ d.roles.groups[i].roles \subseteq Role
           /\ DOMAIN d.roles.logins = 1 .. Len(d.roles.logins)
           /\ \A i \in DOMAIN d.roles.assignments :
                  /\ d.roles.assignments[i].uid \in Uid \cup {None}
                  /\ d.roles.assignments[i].user \in Name \cup {None}
                  /\ d.roles.assignments[i].roles \subseteq Role
           /\ \A i \in DOMAIN d.roles.logins :
                  /\ d.roles.logins[i].uid \in Uid \cup {None}
                  /\ d.roles.logins[i].user \in Name \cup {None}
                  /\ d.roles.logins[i].sources \subseteq Net \cup {Bad}
           /\ Known(d.roles) \subseteq Role
<1>1. d \in Directory
  BY PolicyAssumption
<1>2. d.roles \in RawRoles
  BY <1>1 DEF Directory
<1> DEFINE A == [uid : Uid \cup {None}, user : Name \cup {None}, roles : SUBSET Role]
           L == [uid : Uid \cup {None}, user : Name \cup {None}, sources : SUBSET (Net \cup {Bad})]
           G == [gid : Gid \cup {None}, group : Group \cup {None}, roles : SUBSET Role]
<1>3. /\ d.roles.assignments \in Seq(A) /\ d.roles.logins \in Seq(L)
      /\ d.roles.groups \in Seq(G) /\ d.roles.roles \in Seq(Role)
  BY <1>2 DEF RawRoles
<1>4. \A a \in A : a.uid \in Uid \cup {None} /\ a.user \in Name \cup {None} /\ a.roles \subseteq Role
  OBVIOUS
<1>5. \A l \in L : /\ l.uid \in Uid \cup {None} /\ l.user \in Name \cup {None}
                   /\ l.sources \subseteq Net \cup {Bad}
  OBVIOUS
<1>6. \A g \in G : g.gid \in Gid \cup {None} /\ g.group \in Group \cup {None} /\ g.roles \subseteq Role
  OBVIOUS
<1> HIDE DEF A, L, G
<1>7. /\ Len(d.roles.groups) \in Nat /\ DOMAIN d.roles.groups = 1 .. Len(d.roles.groups)
      /\ \A i \in DOMAIN d.roles.groups : d.roles.groups[i] \in G
  BY <1>3
<1>8. /\ Len(d.roles.assignments) \in Nat /\ DOMAIN d.roles.assignments = 1 .. Len(d.roles.assignments)
      /\ \A i \in DOMAIN d.roles.assignments : d.roles.assignments[i] \in A
  BY <1>3
<1>9. /\ Len(d.roles.logins) \in Nat /\ DOMAIN d.roles.logins = 1 .. Len(d.roles.logins)
      /\ \A i \in DOMAIN d.roles.logins : d.roles.logins[i] \in L
  BY <1>3
<1>10. Known(d.roles) \subseteq Role
  BY <1>3 DEF Known
<1>11. QED BY <1>4, <1>5, <1>6, <1>7, <1>8, <1>9, <1>10

\* One more assignment, merged into what is there.
LEMMA AssignedRoles ==
    ASSUME NEW d \in Directories, NEW n \in Nat, n + 1 \in DOMAIN d.roles.assignments,
           NEW uids \in [Uid -> SUBSET Role], RolesOf(d, n, uids),
           TargetOK(d.roles.assignments[n + 1])
    PROVE  LET next == Assigned(uids, d.roles.assignments[n + 1], Known(d.roles))
           IN next \in [Uid -> SUBSET Role] /\ RolesOf(d, n + 1, next)
<1> DEFINE a == d.roles.assignments[n + 1]
           known == Known(d.roles)
           next == Assigned(uids, a, known)
<1>1. known \subseteq Role
  BY RolesTyped
<1>2. Target(a) \in Uid \cup {None}
  <2>1. a.uid \in Uid \cup {None} /\ a.user \in Name \cup {None}
    BY RolesTyped
  <2> HIDE DEF a
  <2>2. TargetOK(a)
    BY DEF a
  <2>3. QED BY <2>1, <2>2, TargetTyped
<1>3. None \notin Uid
  BY PolicyAssumption
<1>4. next \in [Uid -> SUBSET Role]
  <2> HIDE DEF a, known
  <2>1. QED BY <1>1, <1>2 DEF Assigned
<1>5. \A u \in Uid : next[u] = uids[u] \cup (IF u = Target(a) THEN a.roles \cap known ELSE {})
  <2> HIDE DEF a, known
  <2>1. QED BY <1>1, <1>2, <1>3 DEF Assigned
<1>6. \A i \in DOMAIN d.roles.assignments : i \in Nat /\ (i <= n + 1 <=> i <= n \/ i = n + 1)
  BY RolesTyped
<1> HIDE DEF next
<1>7. ASSUME NEW u \in Uid, NEW r \in Role
      PROVE  r \in next[u] <=>
                 /\ r \in known
                 /\ \E i \in DOMAIN d.roles.assignments :
                        /\ i <= n + 1
                        /\ u = Target(d.roles.assignments[i])
                        /\ r \in d.roles.assignments[i].roles
  <2>1. r \in uids[u] <=>
            /\ r \in known
            /\ \E i \in DOMAIN d.roles.assignments :
                   /\ i <= n
                   /\ u = Target(d.roles.assignments[i])
                   /\ r \in d.roles.assignments[i].roles
    BY DEF RolesOf
  <2>2. r \in next[u] <=> r \in uids[u] \/ (u = Target(a) /\ r \in a.roles /\ r \in known)
    BY <1>5
  <2> HIDE DEF known
  <2>3. QED BY <1>6, <2>1, <2>2
<1>8. RolesOf(d, n + 1, next)
  BY <1>7 DEF RolesOf
<1>9. QED BY <1>4, <1>8 DEF next

\* One more group assignment, merged into what is there.
LEMMA GroupedRoles ==
    ASSUME NEW d \in Directories, NEW n \in Nat, n + 1 \in DOMAIN d.roles.groups,
           NEW groups \in [Gid \cup Group -> SUBSET Role], GroupsOf(d, n, groups),
           GroupTargetOK(d.roles.groups[n + 1])
    PROVE  LET next == GroupAssigned(groups, d.roles.groups[n + 1], Known(d.roles))
           IN next \in [Gid \cup Group -> SUBSET Role] /\ GroupsOf(d, n + 1, next)
<1> DEFINE a == d.roles.groups[n + 1]
           known == Known(d.roles)
           next == GroupAssigned(groups, a, known)
<1>1. known \subseteq Role
  BY RolesTyped
<1>2. GroupTarget(a) \in Gid \cup Group
  <2>1. a.gid \in Gid \cup {None} /\ a.group \in Group \cup {None}
    BY RolesTyped
  <2>2. GroupTargetOK(a)
    OBVIOUS
  <2> HIDE DEF a
  <2>3. QED BY <2>1, <2>2 DEF GroupTargetOK, GroupTarget
<1>3. next \in [Gid \cup Group -> SUBSET Role]
  <2> HIDE DEF a, known
  <2>1. QED BY <1>1, <1>2 DEF GroupAssigned
<1>4. \A g \in Gid \cup Group :
          next[g] = groups[g] \cup (IF g = GroupTarget(a) THEN a.roles \cap known ELSE {})
  <2> HIDE DEF a, known
  <2>1. QED BY <1>1, <1>2 DEF GroupAssigned
<1>5. \A i \in DOMAIN d.roles.groups : i \in Nat /\ (i <= n + 1 <=> i <= n \/ i = n + 1)
  BY RolesTyped
<1> HIDE DEF next
<1>6. ASSUME NEW g \in Gid \cup Group, NEW r \in Role
      PROVE  r \in next[g] <=>
                 /\ r \in known
                 /\ \E i \in DOMAIN d.roles.groups :
                        /\ i <= n + 1
                        /\ g = GroupTarget(d.roles.groups[i])
                        /\ r \in d.roles.groups[i].roles
  <2>1. r \in groups[g] <=>
            /\ r \in known
            /\ \E i \in DOMAIN d.roles.groups :
                   /\ i <= n
                   /\ g = GroupTarget(d.roles.groups[i])
                   /\ r \in d.roles.groups[i].roles
    BY DEF GroupsOf
  <2>2. r \in next[g] <=> r \in groups[g] \/ (g = GroupTarget(a) /\ r \in a.roles /\ r \in known)
    BY <1>4
  <2> HIDE DEF known
  <2>3. QED BY <1>5, <2>1, <2>2
<1>7. GroupsOf(d, n + 1, next)
  BY <1>6 DEF GroupsOf
<1>8. QED BY <1>3, <1>7 DEF next

\* One more entry whose roles resolve.
LEMMA OneMoreKnown ==
    ASSUME NEW d, NEW entries, NEW n \in Nat, DOMAIN entries \subseteq Nat, AllKnown(d, entries, n),
           RolesResolve(entries[n + 1].roles, Known(d.roles), d.roles.strict)
    PROVE  AllKnown(d, entries, n + 1)
<1>1. \A i \in DOMAIN entries : i <= n + 1 => i <= n \/ i = n + 1
  OBVIOUS
<1>2. QED BY <1>1 DEF AllKnown, RolesResolve

\* No roles at all before the first assignment.
LEMMA NoRoles ==
    ASSUME NEW d \in Directories
    PROVE  AssignedBy(d, 0, NoCore) /\ GroupedBy(d, 0, NoCore)
<1>1. /\ \A i \in DOMAIN d.roles.assignments : ~(i <= 0)
      /\ \A i \in DOMAIN d.roles.groups : ~(i <= 0)
  BY RolesTyped
<1>2. QED BY <1>1 DEF AssignedBy, GroupedBy, RolesOf, GroupsOf, AllKnown, NoCore

LEMMA NoCoreTyped == NoCore \in RolesCore
BY DEF NoCore, RolesCore

-----------------------------------------------------------------------------
(* management.json. *)

LEMMA HoldersTyped ==
    ASSUME NEW uids, NEW roles
    PROVE  HoldersOf(uids, roles) \in SUBSET Uid /\ IsFiniteSet(HoldersOf(uids, roles))
<1>1. HoldersOf(uids, roles) \in SUBSET Uid
  BY DEF HoldersOf, Holders
<1>2. QED BY <1>1, PolicyAssumption, FS_Subset

LEMMA ManagementSound ==
    ASSUME NEW d \in Directories, NEW uids, ManagementCompiles(d.mgmt, uids)
    PROVE  /\ CompileManagement(d.mgmt, uids) \in CompiledManagement
           /\ Reachable(CompileManagement(d.mgmt, uids), uids)
<1>1. d.mgmt \in RawManagement
  <2>1. d \in Directory
    BY PolicyAssumption
  <2>2. QED BY <2>1 DEF Directory
<1> DEFINE m == CompileManagement(d.mgmt, uids)
<1>2. /\ m.enabled = d.mgmt.enabled /\ m.threshold = d.mgmt.threshold /\ m.approvers = d.mgmt.approvers
      /\ m \in CompiledManagement
  BY <1>1, HoldersTyped DEF CompileManagement, RawManagement,
     CompiledManagement
<1> HIDE DEF m
<1>3. ASSUME m.enabled
      PROVE  /\ m.threshold <= Cardinality(HoldersOf(uids, m.approvers))
             /\ m.approvers \subseteq UNION {uids[u] : u \in HoldersOf(uids, m.approvers)}
  <2>1. /\ \A r \in d.mgmt.approvers : Holders(uids, r) # {}
        /\ EnoughApprovers(d.mgmt, uids)
    BY <1>2, <1>3 DEF ManagementCompiles
  <2>2. \A r \in m.approvers : \E u \in HoldersOf(uids, m.approvers) : r \in uids[u]
    BY <1>2, <2>1 DEF HoldersOf, Holders
  <2>3. QED BY <1>2, <2>1, <2>2 DEF EnoughApprovers
<1>4. Reachable(m, uids)
  BY <1>3 DEF Reachable
<1>5. QED BY <1>2, <1>4 DEF m

-----------------------------------------------------------------------------
(* The invariant is inductive. *)

LEMMA FilesTyped ==
    ASSUME NEW d \in Directories
    PROVE  Len(d.files) \in Nat /\ DOMAIN d.files = 1 .. Len(d.files)
<1>1. d \in Directory
  BY PolicyAssumption
<1>2. d.files \in Seq(RawPolicy)
  BY <1>1 DEF Directory
<1> HIDE DEF RawPolicy
<1>3. QED BY <1>2

LEMMA InitHolds == Init => PInv
<1> SUFFICES ASSUME Init PROVE PInv
  OBVIOUS
<1>1. /\ force = None /\ dir = None /\ pc = "idle" /\ done = 0 /\ core = NoCore
      /\ policy = None /\ mgmt = None /\ loads = 0
  BY DEF Init, Idle
<1>2. TypeOK
  BY <1>1, NoCoreTyped, PolicyAssumption DEF TypeOK
<1>3. QED BY <1>1, <1>2 DEF PInv

\* The directory is one, while it is loaded.
LEMMA DirTyped == ASSUME PInv, pc # "idle" PROVE dir \in Directories
BY DEF PInv, TypeOK

LEMMA LoadHolds == ASSUME PInv, NEW d \in Directories, Load(d) PROVE PInv'
<1>1. /\ pc = "idle" /\ dir' = d /\ pc' = "assign" /\ loads' = loads + 1 /\ loads < MaxLoads
      /\ force' = force /\ done' = done /\ core' = core /\ policy' = policy /\ mgmt' = mgmt
  BY DEF Load
<1>2. TypeOK'
  BY <1>1, PolicyAssumption DEF PInv, TypeOK, Loading
<1>3. done = 0 /\ core = NoCore /\ policy = None
  BY <1>1 DEF PInv
<1>4. AssignedBy(d, 0, NoCore) /\ GroupedBy(d, 0, NoCore) /\ 0 <= Len(d.roles.assignments)
  BY NoRoles, RolesTyped
<1>5. d # None
  BY PolicyAssumption
<1>6. QED BY <1>1, <1>2, <1>3, <1>4, <1>5 DEF PInv

LEMMA AssignHolds == ASSUME PInv, Assign PROVE PInv'
<1> DEFINE a == dir.roles.assignments[done + 1]
<1>1. /\ pc = "assign" /\ done < Len(dir.roles.assignments) /\ AssignOK(Assignment)
      /\ core' = [core EXCEPT !.uids = Assigned(@, Assignment, Known(dir.roles))]
      /\ done' = done + 1
      /\ force' = force /\ dir' = dir /\ loads' = loads /\ pc' = pc /\ policy' = policy /\ mgmt' = mgmt
  BY DEF Assign, Stage
<1>2. /\ dir \in Directories /\ TypeOK /\ policy = None
      /\ RolesOf(dir, done, core.uids) /\ AllKnown(dir, dir.roles.assignments, done)
      /\ GroupedBy(dir, 0, core)
  BY <1>1, DirTyped DEF PInv, AssignedBy
<1>3. done \in Nat /\ core \in RolesCore
  BY <1>2 DEF TypeOK
<1>4. core.uids \in [Uid -> SUBSET Role]
  BY <1>3 DEF RolesCore
<1>5. /\ done + 1 \in DOMAIN dir.roles.assignments /\ done + 1 <= Len(dir.roles.assignments)
      /\ DOMAIN dir.roles.assignments \subseteq Nat
  BY <1>1, <1>2, <1>3, RolesTyped
<1>6. TargetOK(a) /\ RolesResolve(a.roles, Known(dir.roles), dir.roles.strict)
  BY <1>1 DEF AssignOK, Assignment
<1> DEFINE next == Assigned(core.uids, a, Known(dir.roles))
<1>7. next \in [Uid -> SUBSET Role] /\ RolesOf(dir, done + 1, next)
  BY <1>2, <1>3, <1>4, <1>5, <1>6, AssignedRoles
<1>8. AllKnown(dir, dir.roles.assignments, done + 1)
  BY <1>2, <1>3, <1>5, <1>6, OneMoreKnown
<1>9. core' = [core EXCEPT !.uids = next]
  BY <1>1 DEF Assignment
<1> HIDE DEF a, next
<1>10. core' \in RolesCore /\ core'.uids = next /\ core'.groups = core.groups
  BY <1>3, <1>7, <1>9 DEF RolesCore
<1>11. AssignedBy(dir, done + 1, core') /\ GroupedBy(dir, 0, core')
  BY <1>2, <1>7, <1>8, <1>10 DEF AssignedBy, GroupedBy
<1>12. TypeOK'
  BY <1>1, <1>2, <1>3, <1>10 DEF TypeOK
<1>13. QED BY <1>1, <1>2, <1>5, <1>11, <1>12 DEF PInv

LEMMA AssignDoneHolds == ASSUME PInv, AssignDone PROVE PInv'
<1>1. /\ pc = "assign" /\ done = Len(dir.roles.assignments) /\ pc' = "group" /\ done' = 0
      /\ force' = force /\ dir' = dir /\ loads' = loads
      /\ core' = core /\ policy' = policy /\ mgmt' = mgmt
  BY DEF AssignDone, Stage
<1>2. TypeOK' /\ dir \in Directories
  BY <1>1, DirTyped DEF PInv, TypeOK, Loading
<1>3. 0 <= Len(dir.roles.groups)
  BY <1>2, RolesTyped
<1>4. AllAssigned(dir, core)
  BY <1>1 DEF PInv, AllAssigned
<1>5. QED BY <1>1, <1>2, <1>3, <1>4 DEF PInv

LEMMA AssignGroupHolds == ASSUME PInv, AssignGroup PROVE PInv'
<1> DEFINE g == dir.roles.groups[done + 1]
<1>1. /\ pc = "group" /\ done < Len(dir.roles.groups) /\ GroupOK(GroupAssignment)
      /\ core' = [core EXCEPT !.groups = GroupAssigned(@, GroupAssignment, Known(dir.roles))]
      /\ done' = done + 1
      /\ force' = force /\ dir' = dir /\ loads' = loads /\ pc' = pc /\ policy' = policy /\ mgmt' = mgmt
  BY DEF AssignGroup, Stage
<1>2. /\ dir \in Directories /\ TypeOK /\ policy = None
      /\ GroupsOf(dir, done, core.groups) /\ AllKnown(dir, dir.roles.groups, done)
      /\ AllAssigned(dir, core)
  BY <1>1, DirTyped DEF PInv, GroupedBy
<1>3. done \in Nat /\ core \in RolesCore
  BY <1>2 DEF TypeOK
<1>4. core.groups \in [Gid \cup Group -> SUBSET Role]
  BY <1>3 DEF RolesCore
<1>5. /\ done + 1 \in DOMAIN dir.roles.groups /\ done + 1 <= Len(dir.roles.groups)
      /\ DOMAIN dir.roles.groups \subseteq Nat
  BY <1>1, <1>2, <1>3, RolesTyped
<1>6. GroupTargetOK(g) /\ RolesResolve(g.roles, Known(dir.roles), dir.roles.strict)
  BY <1>1 DEF GroupOK, GroupAssignment
<1> DEFINE next == GroupAssigned(core.groups, g, Known(dir.roles))
<1>7. next \in [Gid \cup Group -> SUBSET Role] /\ GroupsOf(dir, done + 1, next)
  BY <1>2, <1>3, <1>4, <1>5, <1>6, GroupedRoles
<1>8. AllKnown(dir, dir.roles.groups, done + 1)
  BY <1>2, <1>3, <1>5, <1>6, OneMoreKnown
<1>9. core' = [core EXCEPT !.groups = next]
  BY <1>1 DEF GroupAssignment
<1> HIDE DEF g, next
<1>10. core' \in RolesCore /\ core'.groups = next /\ core'.uids = core.uids
  BY <1>3, <1>7, <1>9 DEF RolesCore
<1>11. GroupedBy(dir, done + 1, core') /\ AllAssigned(dir, core')
  BY <1>2, <1>7, <1>8, <1>10 DEF AllAssigned, AssignedBy, GroupedBy
<1>12. TypeOK'
  BY <1>1, <1>2, <1>3, <1>10 DEF TypeOK
<1>13. QED BY <1>1, <1>2, <1>5, <1>11, <1>12 DEF PInv

LEMMA GroupsDoneHolds == ASSUME PInv, GroupsDone PROVE PInv'
<1>1. /\ pc = "group" /\ done = Len(dir.roles.groups) /\ pc' = "login" /\ done' = 0
      /\ force' = force /\ dir' = dir /\ loads' = loads
      /\ core' = core /\ policy' = policy /\ mgmt' = mgmt
  BY DEF GroupsDone, Stage
<1>2. TypeOK'
  BY <1>1 DEF PInv, TypeOK, Loading
<1>3. AllAssigned(dir, core) /\ AllGrouped(dir, core)
  BY <1>1 DEF PInv, AllGrouped
<1>4. QED BY <1>1, <1>2, <1>3 DEF PInv

LEMMA LoginHolds == ASSUME PInv, Login PROVE PInv'
<1> DEFINE l == dir.roles.logins[done + 1]
<1>1. /\ pc = "login" /\ done < Len(dir.roles.logins) /\ LoginOK(core.nets, LoginContext)
      /\ core' = [core EXCEPT !.nets[Target(LoginContext)] = LoginContext.sources]
      /\ done' = done + 1
      /\ force' = force /\ dir' = dir /\ loads' = loads /\ pc' = pc /\ policy' = policy /\ mgmt' = mgmt
  BY DEF Login, Stage
<1>2. dir \in Directories /\ TypeOK
  BY <1>1, DirTyped DEF PInv
<1>3. done \in Nat /\ core \in RolesCore
  BY <1>2 DEF TypeOK
<1>4. /\ l.uid \in Uid \cup {None} /\ l.user \in Name \cup {None} /\ l.sources \subseteq Net \cup {Bad}
  BY <1>1, <1>2, <1>3, RolesTyped
<1>5. TargetOK(l) /\ Target(l) # None /\ Bad \notin l.sources /\ l = LoginContext
  BY <1>1 DEF LoginOK, LoginContext
<1> HIDE DEF l
<1>6. Target(l) \in Uid /\ l.sources \in SUBSET Net
  BY <1>4, <1>5, TargetTyped
<1>7. core' \in RolesCore /\ core'.uids = core.uids /\ core'.groups = core.groups
  BY <1>1, <1>3, <1>5, <1>6 DEF RolesCore
<1>8. TypeOK'
  BY <1>1, <1>2, <1>3, <1>7 DEF TypeOK
<1>9. AllAssigned(dir, core') /\ AllGrouped(dir, core')
  BY <1>1, <1>7 DEF PInv, AllAssigned, AssignedBy, AllGrouped, GroupedBy
<1>10. QED BY <1>1, <1>8, <1>9 DEF PInv

LEMMA LoginDoneHolds == ASSUME PInv, LoginDone PROVE PInv'
<1>1. /\ pc = "login" /\ done = Len(dir.roles.logins) /\ pc' = "files" /\ done' = 0
      /\ force' = force /\ dir' = dir /\ loads' = loads
      /\ core' = core /\ policy' = policy /\ mgmt' = mgmt
  BY DEF LoginDone, Stage
<1>2. TypeOK' /\ dir \in Directories /\ policy = None
  BY <1>1, DirTyped DEF PInv, TypeOK, Loading
<1>3. 0 <= Len(dir.files)
  BY <1>2, FilesTyped
<1>4. PolicyOf(dir, 0, policy)
  BY <1>2 DEF PolicyOf
<1>5. QED BY <1>1, <1>2, <1>3, <1>4 DEF PInv

LEMMA LoadFileHolds == ASSUME PInv, LoadFile PROVE PInv'
<1>1. /\ pc = "files" /\ done < Len(dir.files) /\ FileOK
      /\ policy' = IF policy = None THEN Compiled ELSE Merge(policy, Compiled)
      /\ done' = done + 1
      /\ force' = force /\ dir' = dir /\ loads' = loads /\ pc' = pc /\ core' = core /\ mgmt' = mgmt
  BY DEF LoadFile, Stage
<1>2. /\ dir \in Directories /\ TypeOK /\ PolicyOf(dir, done, policy)
      /\ (policy = None <=> done = 0) /\ AllAssigned(dir, core) /\ AllGrouped(dir, core)
  BY <1>1, DirTyped DEF PInv
<1>3. done \in Nat /\ policy \in CompiledPolicy \cup {None}
  BY <1>2 DEF TypeOK
<1>4. done + 1 \in DOMAIN dir.files /\ done + 1 <= Len(dir.files)
  BY <1>1, <1>2, <1>3, FilesTyped
<1>5. FileCompiles(dir.files[done + 1]) /\ Compiled = CompilePolicy(dir.files[done + 1], done + 1)
  BY <1>1 DEF FileOK, File, Compiled
<1>6. Compiled \in CompiledPolicy
  BY <1>2, <1>4, <1>5, FileTyped, CompilePolicyTyped
<1>7. policy' \in CompiledPolicy /\ PolicyOf(dir, done + 1, policy')
  <2>1. CASE policy = None
    <3>1. done = 0 /\ done + 1 = 1
      BY <1>2, <2>1
    <3>2. PolicyOf(dir, 1, CompilePolicy(dir.files[1], 1))
      BY <1>2, <1>4, <1>5, <3>1, FirstFileInOrder
    <3>3. QED BY <1>1, <1>5, <1>6, <2>1, <3>1, <3>2
  <2>2. CASE policy # None
    <3>1. policy \in CompiledPolicy
      BY <1>3, <2>2
    <3>2. Merge(policy, Compiled) \in CompiledPolicy
      BY <1>6, <3>1, MergeTyped
    <3>3. PolicyOf(dir, done + 1, Merge(policy, Compiled))
      BY <1>2, <1>3, <1>4, <1>5, <2>2, <3>1, MergeInOrder
    <3>4. QED BY <1>1, <2>2, <3>2, <3>3
  <2>3. QED BY <2>1, <2>2
<1>8. policy' # None
  BY <1>7, NoneIsNoPolicy
<1>9. TypeOK'
  BY <1>1, <1>2, <1>3, <1>7 DEF TypeOK
<1>10. done' # 0
  BY <1>1, <1>3
<1>11. QED BY <1>1, <1>2, <1>4, <1>7, <1>8, <1>9, <1>10 DEF PInv

LEMMA FilesDoneHolds == ASSUME PInv, FilesDone PROVE PInv'
<1>1. /\ pc = "files" /\ done = Len(dir.files) /\ policy # None /\ pc' = "management" /\ done' = 0
      /\ force' = force /\ dir' = dir /\ loads' = loads
      /\ core' = core /\ policy' = policy /\ mgmt' = mgmt
  BY DEF FilesDone, Stage
<1>2. TypeOK'
  BY <1>1 DEF PInv, TypeOK, Loading
<1>3. policy \in CompiledPolicy
  BY <1>1 DEF PInv, TypeOK
<1>4. QED BY <1>1, <1>2, <1>3 DEF PInv

LEMMA LoadManagementHolds == ASSUME PInv, LoadManagement PROVE PInv'
<1>1. /\ pc = "management" /\ ManagementCompiles(dir.mgmt, core.uids)
      /\ mgmt' = CompileManagement(dir.mgmt, core.uids) /\ pc' = "ready"
      /\ force' = force /\ dir' = dir /\ loads' = loads
      /\ done' = done /\ core' = core /\ policy' = policy
  BY DEF LoadManagement, Stage
<1>2. dir \in Directories
  BY <1>1, DirTyped
<1>3. mgmt' \in CompiledManagement /\ Reachable(mgmt', core.uids)
  BY <1>1, <1>2, ManagementSound
<1>4. TypeOK'
  BY <1>1, <1>3 DEF PInv, TypeOK, Loading
<1>5. QED BY <1>1, <1>3, <1>4 DEF PInv

\* A load given up, or done with, leaves nothing behind but what is in force.
LEMMA ResetHolds ==
    ASSUME PInv, Reset, loads' = loads, force' \in Bundle \cup {None},
           force' # None => Sound(force'.from, force'.core, force'.policy, force'.mgmt)
    PROVE  PInv'
<1>1. dir' = None /\ pc' = "idle" /\ done' = 0 /\ core' = NoCore /\ policy' = None /\ mgmt' = None
  BY DEF Reset
<1>2. TypeOK'
  BY <1>1, NoCoreTyped DEF PInv, TypeOK
<1>3. QED BY <1>1, <1>2 DEF PInv

LEMMA GivenUpHolds == ASSUME PInv, Fail \/ Discard PROVE PInv'
<1>1. Reset /\ force' = force /\ loads' = loads
  BY DEF Fail, Discard
<1>2. force \in Bundle \cup {None} /\ (force # None => Sound(force.from, force.core, force.policy, force.mgmt))
  BY DEF PInv, TypeOK
<1>3. QED BY <1>1, <1>2, ResetHolds

LEMMA PublishHolds == ASSUME PInv, Publish PROVE PInv'
<1>1. pc = "ready" /\ force' = [from |-> dir, policy |-> policy, core |-> core, mgmt |-> mgmt]
      /\ Reset /\ loads' = loads
  BY DEF Publish
<1>2. /\ dir \in Directories /\ core \in RolesCore /\ policy \in CompiledPolicy
      /\ mgmt \in CompiledManagement
  BY <1>1 DEF PInv, TypeOK
<1>3. force' \in Bundle
  BY <1>1, <1>2 DEF Bundle
<1>4. Sound(dir, core, policy, mgmt)
  BY <1>1 DEF PInv, Sound
<1>5. Sound(force'.from, force'.core, force'.policy, force'.mgmt)
  BY <1>1, <1>4
<1>6. QED BY <1>1, <1>3, <1>5, ResetHolds

LEMMA StepHolds == PInv /\ [Next]_vars => PInv'
<1> SUFFICES ASSUME PInv, [Next]_vars PROVE PInv'
  OBVIOUS
<1>1. CASE \E d \in Directories : Load(d)
  BY <1>1, LoadHolds
<1>2. CASE Assign
  BY <1>2, AssignHolds
<1>3. CASE AssignDone
  BY <1>3, AssignDoneHolds
<1>4. CASE AssignGroup
  BY <1>4, AssignGroupHolds
<1>5. CASE GroupsDone
  BY <1>5, GroupsDoneHolds
<1>6. CASE Login
  BY <1>6, LoginHolds
<1>7. CASE LoginDone
  BY <1>7, LoginDoneHolds
<1>8. CASE LoadFile
  BY <1>8, LoadFileHolds
<1>9. CASE FilesDone
  BY <1>9, FilesDoneHolds
<1>10. CASE LoadManagement
  BY <1>10, LoadManagementHolds
<1>11. CASE Fail \/ Discard
  BY <1>11, GivenUpHolds
<1>12. CASE Publish
  BY <1>12, PublishHolds
<1>13. CASE UNCHANGED vars
  <2>1. /\ force' = force /\ dir' = dir /\ pc' = pc /\ done' = done /\ core' = core
        /\ policy' = policy /\ mgmt' = mgmt /\ loads' = loads
    BY <1>13 DEF vars
  <2>2. TypeOK'
    BY <2>1 DEF PInv, TypeOK
  <2>3. QED BY <2>1, <2>2 DEF PInv
<1>14. QED
  BY <1>1, <1>2, <1>3, <1>4, <1>5, <1>6, <1>7, <1>8, <1>9, <1>10, <1>11, <1>12,
     <1>13 DEF Next, Step

\* What the loops of the compiler have made of a directory, at every item,
\* and what is in force.  [compile_roles_v1, load_policies_listed_in_bundle,
\* compile_management, update_bundle]
THEOREM Invariance == Spec => []PInv
BY InitHolds, StepHolds, PTL DEF Spec

\* Everything compiled is of the types of ir.rs: no text that does not parse
\* is left in a rule, no window is empty.
THEOREM TypeCorrect == Spec => []TypeOK
<1>1. PInv => TypeOK
  BY DEF PInv
<1>2. QED BY <1>1, Invariance, PTL

-----------------------------------------------------------------------------
(* What is promised of the bundle in force. *)

LEMMA InForce ==
    ASSUME PInv, force # None
    PROVE  /\ force \in Bundle /\ force.from \in Directories /\ force.policy \in CompiledPolicy
           /\ force.core \in RolesCore /\ force.mgmt \in CompiledManagement
           /\ AllAssigned(force.from, force.core) /\ AllGrouped(force.from, force.core)
           /\ PolicyOf(force.from, Len(force.from.files), force.policy)
           /\ Reachable(force.mgmt, force.core.uids)
<1>1. force \in Bundle
  BY DEF PInv, TypeOK
<1>2. QED BY <1>1 DEF PInv, Sound, Bundle

\* Of some places, one comes first.
LEMMA FirstPlace ==
    ASSUME NEW S, S \subseteq Nat, S # {}
    PROVE  \E i \in S : \A j \in S : i <= j
<1>1. PICK i \in S : \A j \in S : ~(<<j, i>> \in OpToRel(<, Nat))
  BY NatLessThanWellFounded, WFMin
<1>2. \A j \in S : ~(j < i)
  BY <1>1 DEF OpToRel
<1>3. QED BY <1>2

\* The rule that decides, among those that fit: its place comes before the
\* places of the others.
LEMMA FirstHitComesFirst ==
    ASSUME NEW d \in Directories, NEW b, b.from = d, b.policy \in CompiledPolicy,
           NEW at, InOrder(d, Len(d.files), b.policy.rules, at),
           NEW req, NEW now
    PROVE  LET fits == Fitting(b, req, now)
               decision == Evaluate(b, req, now)
           IN /\ decision = NoMatchManaged => fits = {}
              /\ decision.kind = "matched" =>
                     \E p \in fits : /\ decision.rule = RuleAt(d, p)
                                     /\ \A q \in fits \ {p} : Precedes(d, p, q)
<1> DEFINE rules == b.policy.rules
           hits == {i \in DOMAIN rules : RuleMatches(rules[i], b.core, b.policy.type, req, now)}
           first == CHOOSE i \in hits : \A j \in hits : i <= j
           fits == Fitting(b, req, now)
           decision == Evaluate(b, req, now)
           Fits(p) == RuleMatches(RuleAt(d, p), b.core, b.policy.type, req, now)
<1>1. DOMAIN rules = 1 .. Len(rules) /\ Len(rules) \in Nat
  BY DEF CompiledPolicy
<1>2. /\ at \in [DOMAIN rules -> Places(d)]
      /\ \A k \in DOMAIN rules : rules[k] = RuleAt(d, at[k])
      /\ \A p \in Places(d) : \E k \in DOMAIN rules : at[k] = p
      /\ \A k, l \in DOMAIN rules : k < l => Precedes(d, at[k], at[l])
  <2>1. \A p \in Places(d) : p[1] <= Len(d.files)
    BY PlacesTyped, FilesTyped
  <2>2. QED BY <2>1 DEF InOrder
<1>3. decision = IF ~Managed(b.policy.scope, req) THEN Pass
                 ELSE IF hits = {} THEN NoMatchManaged
                 ELSE Matched(rules[first])
  BY DEF Evaluate
<1>4. fits = {p \in Places(d) : Fits(p)}
  BY DEF Fitting
<1> HIDE DEF decision, fits, rules
<1>5. \A k \in DOMAIN rules : k \in hits <=> Fits(at[k])
  BY <1>2
<1> HIDE DEF Fits
<1>6. \A p \in fits : \E k \in hits : at[k] = p
  BY <1>2, <1>4, <1>5
<1>7. hits \subseteq DOMAIN rules
  OBVIOUS
<1> HIDE DEF hits
<1>8. ASSUME decision = NoMatchManaged PROVE fits = {}
  <2>1. hits = {}
    BY <1>3, <1>8 DEF Pass, NoMatchManaged, Matched
  <2>2. QED BY <1>6, <2>1
<1>9. ASSUME decision.kind = "matched"
      PROVE  \E p \in fits : /\ decision.rule = RuleAt(d, p)
                             /\ \A q \in fits \ {p} : Precedes(d, p, q)
  <2>1. hits # {} /\ decision.rule = rules[first]
    BY <1>3, <1>9 DEF Pass, NoMatchManaged, Matched
  <2>2. hits \subseteq Nat
    BY <1>1, <1>7
  <2>3. first \in hits /\ \A j \in hits : first <= j
    BY <2>1, <2>2, FirstPlace
  <2> HIDE DEF first
  <2>4. at[first] \in fits /\ decision.rule = RuleAt(d, at[first])
    BY <1>2, <1>4, <1>5, <1>7, <2>1, <2>3
  <2>5. ASSUME NEW q \in fits \ {at[first]} PROVE Precedes(d, at[first], q)
    <3>1. PICK k \in hits : at[k] = q
      BY <1>6
    <3>2. k # first
      BY <2>5, <3>1
    <3>3. first < k
      BY <2>2, <2>3, <3>1, <3>2
    <3>4. QED BY <1>2, <1>7, <2>3, <3>1, <3>3
  <2>6. QED BY <2>4, <2>5
<1>10. QED BY <1>8, <1>9 DEF decision, fits

\* A request is decided by the rule that comes first by the documented
\* priority among all the rules of all the files that fit it.
\* [sort_by, CompiledPolicy::merge, evaluate]
THEOREM ByPriority == Spec => []DecisionByPriority
<1>1. PInv => DecisionByPriority
  <2> SUFFICES ASSUME PInv, force # None, NEW req \in Requests, NEW now \in Instants
               PROVE  LET fits == Fitting(force, req, now)
                          decision == Evaluate(force, req, now)
                      IN /\ decision = NoMatchManaged => fits = {}
                         /\ decision.kind = "matched" =>
                                \E p \in fits : /\ decision.rule = RuleAt(force.from, p)
                                                /\ \A q \in fits \ {p} : Precedes(force.from, p, q)
    BY DEF DecisionByPriority
  <2>1. force.from \in Directories /\ force.policy \in CompiledPolicy
    BY InForce
  <2>2. PICK at : InOrder(force.from, Len(force.from.files), force.policy.rules, at)
    BY InForce, NoneIsNoPolicy DEF PolicyOf
  <2>3. QED BY <2>1, <2>2, FirstHitComesFirst
<1>2. QED BY <1>1, Invariance, PTL

\* A rule that fits has a path of the scope that fits.
LEMMA FittingIsManaged ==
    ASSUME NEW rule \in CompiledRule, NEW scope, Findable(rule),
           ObjectPaths(rule) \subseteq scope.objects, ProgramPaths(rule) \subseteq scope.programs,
           NEW c, NEW type, NEW req, NEW now, RuleMatches(rule, c, type, req, now)
    PROVE  Managed(scope, req)
<1>1. CASE rule.type = "subject_only"
  <2>1. rule.subject.program \in scope.programs
    BY <1>1 DEF Findable, ProgramPaths
  <2>2. OptMatches(rule.subject.program, req.program)
    BY DEF RuleMatches, SubjectMatches
  <2>3. QED BY <2>1, <2>2 DEF Managed
<1>2. CASE rule.type # "subject_only"
  <2>1. rule.object # None /\ rule.object.path \in scope.objects \cup {None}
    BY <1>2 DEF Findable, ObjectPaths
  <2>2. PathMatches(rule.object.path, req.path)
    BY <2>1 DEF RuleMatches, ObjectMatches
  <2>3. rule.object.path # None
    BY <2>1, PolicyAssumption DEF CompiledRule, CompiledObject
  <2>4. QED BY <2>1, <2>2, <2>3 DEF Managed
<1>3. QED BY <1>1, <1>2

\* The quick test of the scope lets no request pass that a rule fits.
\* [ManagedScopeIndex::from_rules, union, is_request_managed]
THEOREM Covers == Spec => []ScopeCovers
<1>1. PInv => ScopeCovers
  <2> SUFFICES ASSUME PInv, force # None, NEW req \in Requests, NEW now \in Instants,
                      NEW i \in DOMAIN force.policy.rules,
                      Findable(force.policy.rules[i]),
                      RuleMatches(force.policy.rules[i], force.core, force.policy.type, req, now)
               PROVE  Managed(force.policy.scope, req)
    BY DEF ScopeCovers
  <2>1. force.policy \in CompiledPolicy /\ Indexed(force.policy)
    BY InForce, NoneIsNoPolicy DEF PolicyOf
  <2>2. force.policy.rules \in Seq(CompiledRule)
    BY <2>1 DEF CompiledPolicy
  <2>3. force.policy.rules[i] \in CompiledRule
    <3> HIDE DEF CompiledRule
    <3>1. QED BY <2>2
  <2>4. QED BY <2>1, <2>3, FittingIsManaged DEF Indexed
<1>2. QED BY <1>1, Invariance, PTL

\* The stretch of a window and the test on the two sides of midnight agree.
LEMMA WindowAsStretch ==
    ASSUME NEW c \in CompiledTime, NEW now \in Instant
    PROVE  InWindow(c, now) <=>
               \E date \in now.date - 2 .. now.date + 1 :
                   /\ OpensOn(c, date)
                   /\ Clock(now) \in date * 1440 + c.start .. date * 1440 + c.start + Length(c) - 1
<1> DEFINE s == c.start
           e == c.end
           day == now.date
           minute == now.minute
           In(date) == Clock(now) \in date * 1440 + s .. date * 1440 + s + Length(c) - 1
<1>1. s \in 0 .. 1439 /\ e \in 0 .. 1440 /\ s # e /\ day \in Nat /\ minute \in 0 .. 1439
  BY DEF CompiledTime, TimeConstraint, TimeCompiles, Minute, Instant
<1>2. Length(c) = IF s < e THEN e - s ELSE e + 1440 - s
  BY DEF Length
<1>3. Clock(now) = day * 1440 + minute
  BY DEF Clock
<1>4. InWindow(c, now) <=> \/ s < e /\ minute \in s .. e - 1 /\ OpensOn(c, day)
                           \/ s > e /\ minute >= s           /\ OpensOn(c, day)
                           \/ s > e /\ minute < e            /\ OpensOn(c, day - 1)
  BY DEF InWindow
<1> HIDE DEF s, e, day, minute
<1>5. day \in day - 2 .. day + 1 /\ day - 1 \in day - 2 .. day + 1
  BY <1>1
<1>6. CASE s < e
  <2>1. ~(s > e) /\ Length(c) = e - s
    BY <1>1, <1>2, <1>6
  <2>2. ASSUME NEW date \in day - 2 .. day + 1
        PROVE  In(date) <=> date = day /\ minute \in s .. e - 1
    <3>1. In(date) <=> day * 1440 + minute \in date * 1440 + s .. date * 1440 + s + (e - s) - 1
      BY <1>3, <2>1
    <3>2. day * 1440 + minute \in date * 1440 + s .. date * 1440 + s + (e - s) - 1
              <=> date = day /\ minute \in s .. e - 1
      BY <1>1, <1>6
    <3>3. QED BY <3>1, <3>2
  <2> HIDE DEF In
  <2>3. InWindow(c, now) <=> \E date \in day - 2 .. day + 1 : OpensOn(c, date) /\ In(date)
    BY <1>4, <1>5, <1>6, <2>1, <2>2
  <2>4. QED BY <2>3 DEF In, s, day
<1>7. CASE s > e
  <2>1. ~(s < e) /\ Length(c) = e + 1440 - s
    BY <1>1, <1>2, <1>7
  <2>2. ASSUME NEW date \in day - 2 .. day + 1
        PROVE  In(date) <=> \/ date = day /\ minute >= s
                            \/ date = day - 1 /\ minute < e
    <3>1. In(date) <=> day * 1440 + minute
                           \in date * 1440 + s .. date * 1440 + s + (e + 1440 - s) - 1
      BY <1>3, <2>1
    <3>2. day * 1440 + minute \in date * 1440 + s .. date * 1440 + s + (e + 1440 - s) - 1
              <=> \/ date = day /\ minute >= s
                  \/ date = day - 1 /\ minute < e
      BY <1>1, <1>7
    <3>3. QED BY <3>1, <3>2
  <2> HIDE DEF In
  <2>3. InWindow(c, now) <=> \E date \in day - 2 .. day + 1 : OpensOn(c, date) /\ In(date)
    <3>1. InWindow(c, now) <=> \/ minute >= s /\ OpensOn(c, day)
                               \/ minute < e /\ OpensOn(c, day - 1)
      BY <1>4, <1>7, <2>1
    <3>2. (\E date \in day - 2 .. day + 1 : OpensOn(c, date) /\ In(date))
              <=> \/ minute >= s /\ OpensOn(c, day)
                  \/ minute < e /\ OpensOn(c, day - 1)
      BY <1>5, <2>2
    <3>3. QED BY <3>1, <3>2
  <2>4. QED BY <2>3 DEF In, s, day
<1>8. QED BY <1>1, <1>6, <1>7

\* Each window of a rule in force is the stretch of time that its author
\* wrote, across whatever midnight.  [match_time_constraints_at]
THEOREM AsWritten == Spec => []WindowsAsWritten
<1>1. PInv => WindowsAsWritten
  <2> SUFFICES ASSUME PInv, force # None, NEW i \in DOMAIN force.policy.rules, NEW now \in Instants,
                      NEW n \in DOMAIN force.policy.rules[i].times
               PROVE  LET c == force.policy.rules[i].times[n]
                      IN InWindow(c, now) <=>
                             \E date \in now.date - 2 .. now.date + 1 :
                                 /\ OpensOn(c, date)
                                 /\ Clock(now) \in date * 1440 + c.start
                                                   .. date * 1440 + c.start + Length(c) - 1
    BY DEF WindowsAsWritten
  <2>1. force.policy.rules \in Seq(CompiledRule)
    BY InForce DEF CompiledPolicy
  <2>2. force.policy.rules[i] \in CompiledRule
    <3> HIDE DEF CompiledRule
    <3>1. QED BY <2>1
  <2>3. force.policy.rules[i].times \in Seq(CompiledTime)
    BY <2>2 DEF CompiledRule
  <2>4. force.policy.rules[i].times[n] \in CompiledTime
    <3> HIDE DEF CompiledTime
    <3>1. QED BY <2>3
  <2>5. now \in Instant
    BY PolicyAssumption
  <2>6. QED BY <2>4, <2>5, WindowAsStretch
<1>2. QED BY <1>1, Invariance, PTL

\* A uid in force has the roles of all the assignments that mean it, and
\* none by a group or by the defaults; a group has in the index what the
\* group assignments say; with deny_if_role_unknown no entry names an
\* unknown role.  [compile_assignments, compile_group_assignments,
\* merge_role_set, resolve_roles]
THEOREM AsAssigned == Spec => []RolesAsAssigned
<1>1. PInv => RolesAsAssigned
  <2> SUFFICES ASSUME PInv, force # None PROVE RolesAsAssigned
    BY DEF RolesAsAssigned
  <2> DEFINE roles == force.from.roles
             asgs == roles.assignments
             grps == roles.groups
  <2>1. /\ RolesOf(force.from, Len(asgs), force.core.uids) /\ AllKnown(force.from, asgs, Len(asgs))
        /\ GroupsOf(force.from, Len(grps), force.core.groups) /\ AllKnown(force.from, grps, Len(grps))
    BY InForce DEF AllAssigned, AssignedBy, AllGrouped, GroupedBy
  <2>2. (\A i \in DOMAIN asgs : i <= Len(asgs)) /\ \A i \in DOMAIN grps : i <= Len(grps)
    BY InForce, RolesTyped
  <2>3. \A u \in Uid, r \in Role :
            r \in force.core.uids[u] <=>
                /\ r \in Known(roles)
                /\ \E i \in DOMAIN asgs : u = Target(asgs[i]) /\ r \in asgs[i].roles
    BY <2>1, <2>2 DEF RolesOf
  <2>4. \A g \in Gid \cup Group, r \in Role :
            r \in force.core.groups[g] <=>
                /\ r \in Known(roles)
                /\ \E i \in DOMAIN grps : g = GroupTarget(grps[i]) /\ r \in grps[i].roles
    BY <2>1, <2>2 DEF GroupsOf
  <2>5. roles.strict =>
            /\ \A i \in DOMAIN asgs : asgs[i].roles \subseteq Known(roles)
            /\ \A i \in DOMAIN grps : grps[i].roles \subseteq Known(roles)
    BY <2>1, <2>2 DEF AllKnown
  <2>6. QED BY <2>3, <2>4, <2>5 DEF RolesAsAssigned
<1>2. QED BY <1>1, Invariance, PTL

\* The quorum of the commands in force can be met by the people who may
\* approve.  [compile_mpa, MpaState::is_fulfilled]
THEOREM Quorum == Spec => []QuorumReachable
<1>1. PInv => QuorumReachable
  BY InForce DEF Reachable, QuorumReachable
<1>2. QED BY <1>1, Invariance, PTL

=============================================================================
