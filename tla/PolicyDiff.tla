----------------------------- MODULE PolicyDiff -----------------------------
(***************************************************************************)
(* teal-cli diff: what the approvers of a POLICY_UPDATE are shown of it.   *)
(* src/teal-cli/src/cmd/diff: mod.rs, bundle_diff.rs, rule_diff.rs.        *)
(*                                                                         *)
(* The bundle in force is compared with the one that is ready to take its  *)
(* place.  Wording and the degrees of impact are left out: the question    *)
(* here is what is shown at all.                                           *)
(***************************************************************************)
EXTENDS PolicyEngine

-----------------------------------------------------------------------------
(* rule_diff.rs: compiled rules, found by their id.                        *)

\* is_time_constraints_equal
TimesEqual(a, b) ==
    /\ Len(a) = Len(b)
    /\ \A i \in DOMAIN a : /\ a[i].days = b[i].days
                           /\ a[i].start = b[i].start
                           /\ a[i].end = b[i].end

\* is_rule_equal, is_action_equal, is_mpa_equal, is_subject_equal,
\* is_login_ctx_equal, is_object_equal
RuleEqual(a, b) ==
    /\ TimesEqual(a.times, b.times)
    /\ [a EXCEPT !.times = <<>>, !.file = 0] = [b EXCEPT !.times = <<>>, !.file = 0]

RuleIds(rules) == {rules[i].id : i \in DOMAIN rules}

\* diff_rules
RuleDiffs(current, stage) ==
    {[id |-> id, kind |-> "removed"] : id \in RuleIds(current) \ RuleIds(stage)} \cup
    {[id |-> id, kind |-> "added"] : id \in RuleIds(stage) \ RuleIds(current)} \cup
    {[id |-> r.id, kind |-> "modified"] :
        r \in {stage[i] : i \in {j \in DOMAIN stage :
                 \E k \in DOMAIN current :
                     /\ current[k].id = stage[j].id
                     /\ current[k].file # stage[j].file \/ ~RuleEqual(current[k], stage[j])}}}

\* compare_global_configs
GlobalDiffs(current, stage) ==
    {key \in {"type", "effect", "ttl", "ttlMax"} : current[key] # stage[key]}

-----------------------------------------------------------------------------
(* bundle_diff.rs: the files as they are.                                  *)

\* compare_bundle, on the names of the files.
BundleDiffs(current, stage) ==
    (DOMAIN current.files \ DOMAIN stage.files) \cup (DOMAIN stage.files \ DOMAIN current.files)

\* to_map of compare_roles: the assignments that have a uid.
RolesByUid(roles, u) ==
    UNION {roles.assignments[i].roles : i \in {j \in DOMAIN roles.assignments : roles.assignments[j].uid = u}}

\* compare_roles
RolesDiffs(current, stage) ==
    [roles   |-> (Known(current) \ Known(stage)) \cup (Known(stage) \ Known(current)),
     uids    |-> {u \in Uid : RolesByUid(current, u) # RolesByUid(stage, u)},
     default |-> current.defaults # stage.defaults]

\* compare_management, compare_single_control
ManagementDiffers(current, stage) == current # stage

\* Nothing in the report but rules that are unchanged: execute_diff.
Silent(current, staged) ==
    /\ RuleDiffs(current.policy.rules, staged.policy.rules) = {}
    /\ GlobalDiffs(current.policy, staged.policy) = {}
    /\ BundleDiffs(current.from, staged.from) = {}
    /\ RolesDiffs(current.from.roles, staged.from.roles) = [roles |-> {}, uids |-> {}, default |-> FALSE]
    /\ ~ManagementDiffers(current.from.mgmt, staged.from.mgmt)

-----------------------------------------------------------------------------

Outcome(decision) == IF decision.kind = "matched" THEN decision.rule.effect ELSE decision.kind

\* An update of which the report shows no difference changes no decision.
\* [compare_full_config: extracts the differences of the three files at once;
\* is_rule_equal: whether two rules agree completely]
SilentDiffChangesNothing ==
    pc = "ready" /\ force # None =>
        LET staged == [from |-> dir, policy |-> policy, core |-> core, mgmt |-> mgmt]
        IN Silent(force, staged) =>
               \A req \in Requests, now \in Instants :
                   Outcome(Evaluate(force, req, now)) = Outcome(Evaluate(staged, req, now))

=============================================================================
