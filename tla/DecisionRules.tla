---------------------------- MODULE DecisionRules ----------------------------
(***************************************************************************)
(* The pure part of a server-side decision: the decision lattice           *)
(* (vigil-protocol), tool manifests and the composite risk score           *)
(* (vigil-core), remits (vigil-remit), provenance (vigil-trace) and the    *)
(* deterministic rule language (vigil-policy).                             *)
(*                                                                         *)
(* Names are abstract.  Glob and host matching is left out: where the code *)
(* compares a value with patterns, the model gives the value as the set of *)
(* patterns it matches.  Weights are integers, in ten-thousandths, the     *)
(* precision round_score keeps.  Reason codes, severities and previews are *)
(* left out: no decision reads them.                                       *)
(***************************************************************************)
EXTENDS Integers, FiniteSets, FiniteSetsExt, SequencesExt

None == "none"

Decisions == {"Allow", "AllowWithConstraints", "AllowWithRedaction", "RequireApproval",
              "Quarantine", "Deny", "TerminateSession"}

restrictiveness ==
    [Allow |-> 0, AllowWithConstraints |-> 1, AllowWithRedaction |-> 2, RequireApproval |-> 3,
     Quarantine |-> 4, Deny |-> 5, TerminateSession |-> 6]

combine(d, e) == IF restrictiveness[e] > restrictiveness[d] THEN e ELSE d

(* combine folded over a set: it is associative and commutative, so the    *)
(* result does not depend on the order the code meets the decisions in.    *)
Strictest(ds) == CHOOSE d \in ds : \A e \in ds : restrictiveness[e] <= restrictiveness[d]

permits_execution(d) == d \in {"Allow", "AllowWithConstraints", "AllowWithRedaction"}

-----------------------------------------------------------------------------
(* Impact tiers are 0..4.                                                  *)

floor_tier ==
    [Observational |-> 0, InternalRead |-> 1, InternalWrite |-> 2, ExternalRead |-> 1,
     ExternalWrite |-> 3, Execute |-> 3, PrivilegeChange |-> 4, Destructive |-> 4,
     Financial |-> 3]

SideEffects      == DOMAIN floor_tier
is_reversible(s) == s \in {"Observational", "InternalRead", "ExternalRead", "InternalWrite"}
is_egress(s)     == s \in {"ExternalWrite", "Financial"}

(* ToolManifest::conservative, what an unregistered resource gets.         *)
Conservative == [synthetic |-> TRUE, side_effect |-> "ExternalWrite", impact |-> 3,
                 approval |-> TRUE, approval_operations |-> {}]

lookup(manifests, resource) ==
    IF resource \in DOMAIN manifests THEN manifests[resource] ELSE Conservative

side_effect_of(m, a) == IF m.synthetic THEN a.intrinsic ELSE m.side_effect

(* A manifest may raise the tier above the side effect's floor and never   *)
(* sink below it; the pipeline applies the floor of the effect it settled  *)
(* on as well.                                                             *)
effective_tier(m)      == Max({m.impact, floor_tier[m.side_effect]})
pipeline_tier(m, a)    == Max({effective_tier(m), floor_tier[side_effect_of(m, a)]})
requires_approval(m, op) ==
    m.approval \/ op \in m.approval_operations \/ effective_tier(m) >= 3

-----------------------------------------------------------------------------
(* Remit: what an agent is for.                                            *)

remit_evaluate(r, a) ==
    IF a.resource \in r.forbidden_goals \/ a.operation \in r.forbidden_goals THEN "OutOfRemit"
    ELSE CASE a.kind = "file" ->
                  IF \A p \in a.paths : p \cap r.allowed_roots # {}
                  THEN "InRemit" ELSE "OutOfRemit"
           [] a.kind = "network" ->
                  IF a.host \cap r.allowed_destinations # {} THEN "InRemit" ELSE "OutOfRemit"
           [] a.kind = "delegation" /\ a.depth >= r.limits.max_delegation_depth -> "OutOfRemit"
           [] OTHER ->
                  IF \/ a.resource \notin DOMAIN r.tools
                     \/ a.operation \notin r.tools[a.resource].operations
                  THEN "OutOfRemit"
                  ELSE IF a.operation \in r.tools[a.resource].approval_required
                       THEN "RequiresApproval" ELSE "InRemit"

(* The pipeline's reading of the verdict, with the egress boundary that no *)
(* approval waives: leaving is the classes of data the action would carry  *)
(* outside.  A registry without the agent gives NoRemit.                   *)
remit_decision(remits, agent, a, leaving, allow_unregistered) ==
    IF agent \notin DOMAIN remits
    THEN IF allow_unregistered THEN "Allow" ELSE "Deny"
    ELSE LET r == remits[agent]
             v == remit_evaluate(r, a)
         IN  IF v = "OutOfRemit" \/ leaving \cap r.forbidden_egress # {}
             THEN "Deny"
             ELSE IF v = "RequiresApproval" THEN "RequireApproval" ELSE "Allow"

(* Model calls are counted apart from all others.                          *)
CallKinds == {"tool_calls", "model_calls"}
counted_as(a) == IF a.kind = "model_call" THEN "model_calls" ELSE "tool_calls"

(* Mutant: the last call of the budget is given out twice.                 *)
BudgetPermitsOneMore(b, limits, a, now) ==
    /\ \A c \in CallKinds : b.calls[c] <= limits.max_calls[c]
    /\ now - b.started_at < limits.max_session_minutes
    /\ b.repeats[a.id] < limits.max_repeated_actions

(* BudgetLedger::check and check_action, and charge.                       *)
budget_permits(b, limits, a, now) ==
    /\ \A c \in CallKinds : b.calls[c] < limits.max_calls[c]
    /\ now - b.started_at < limits.max_session_minutes
    /\ b.cost < limits.max_cost
    /\ b.repeats[a.id] < limits.max_repeated_actions
    /\ \/ a.host \subseteq b.domains
       \/ Cardinality(b.domains) < limits.max_external_domains

charge(b, a) == [b EXCEPT !.calls[counted_as(a)] = @ + 1,
                          !.cost = @ + a.cost,
                          !.domains = @ \cup a.host,
                          !.repeats[a.id] = @ + 1]

-----------------------------------------------------------------------------
(* Provenance.  Trust is the rank of trust.rs; 50 and above carries        *)
(* instruction authority.  Unknown trust behaves as the top rank wherever  *)
(* the code reads it (no rule and no weight fires).                        *)

Authority == 50
TopTrust  == 100

(* SessionTrace::ingest: trust sinks to the least of the parents', taints  *)
(* accumulate.  Values too short to track are dropped by track_value.      *)
ingested(nodes, content) ==
    LET parents == {nodes[i] : i \in content.derived_from \cap DOMAIN nodes}
    IN  [trust  |-> Min({content.trust} \cup {p.trust : p \in parents}),
         taints |-> content.taints \cup UNION {p.taints : p \in parents},
         values |-> {v \in content.values : v.trackable}]

(* analyze_action: what the adapter declared, and every node one of whose  *)
(* tracked values occurs in the action; with neither, the whole session is *)
(* assumed to have had its influence.                                      *)
analyze_action(nodes, declared, a) ==
    LET flowing      == {i \in DOMAIN nodes : \E v \in nodes[i].values : v.name \in DOMAIN a.carries}
        contributing == {nodes[i] : i \in (declared \cap DOMAIN nodes) \cup flowing}
        session      == {nodes[i] : i \in DOMAIN nodes}
        steering(ns) == \E n \in ns : "UntrustedInstruction" \in n.taints
        lowest(ns)   == Min({TopTrust} \cup {n.trust : n \in ns})
    IN  IF contributing = {}
        THEN [taints |-> IF steering(session) THEN {"UntrustedInstruction"} ELSE {},
              lowest_trust |-> lowest(session), influence |-> steering(session),
              evasive |-> FALSE]
        ELSE [taints |-> UNION {n.taints : n \in contributing},
              lowest_trust |-> lowest(contributing),
              influence |-> steering({n \in contributing : n.trust < Authority}),
              evasive |-> \E i \in flowing : \E v \in nodes[i].values :
                             v.name \in DOMAIN a.carries /\ a.carries[v.name] = "evasive"]

-----------------------------------------------------------------------------
(* Composite risk.                                                         *)

Whole           == 10000
ReviewThreshold == 6000

TaintWeight ==
    [Secret |-> 5000, Credential |-> 5000, AuthenticationData |-> 5000, FinancialData |-> 4500,
     Pii |-> 3500, ConfidentialData |-> 3000, UntrustedInstruction |-> 2500,
     UntrustedCode |-> 2500, ExecutableContent |-> 2500, SecurityPolicyContent |-> 2000,
     ApprovalData |-> 1500, ExternalUrl |-> 1000]

TierWeight == <<0, 900, 2400, 4500, 6000>>

(* The contributions, as a sequence: equal weights count each time.        *)
contributions(i) ==
    LET when(p, w) == IF p THEN <<w>> ELSE <<>>
    IN  <<TierWeight[i.tier + 1]>>
        \o when(~i.reversible, 3000)
        \o when(i.egress, 2500)
        \o when(i.lowest_trust < Authority, 70 * (Authority - i.lowest_trust))
        \o when(i.influence, 5500)
        \o [k \in DOMAIN SetToSeq(i.taints) |-> TaintWeight[SetToSeq(i.taints)[k]]]
        \o when(i.evasive, 4000)
        \o when(i.out_of_remit, 5000)
        \o when(i.retry, 4500)
        \o <<Min({1200 * i.distinct_denials, 5000}), Min({800 * i.depth, 3000})>>
        \o i.detectors

(* assess: each contribution claims its share of the headroom left below   *)
(* 1, then an approval takes 0.4 off.                                      *)
assess(i) ==
    LET c == contributions(i)
        headroom[n \in 0..Len(c)] ==
            IF n = 0 THEN Whole ELSE (headroom[n - 1] * (Whole - c[n])) \div Whole
        risk == Whole - headroom[Len(c)]
    IN  IF i.approved THEN (risk * 6000) \div Whole ELSE risk

warrants_review(i) == assess(i) >= ReviewThreshold

-----------------------------------------------------------------------------
(* The rule language.  A matcher is a function from the conditions it      *)
(* writes down to their arguments (an empty list writes nothing down), or  *)
(* match_all.                                                              *)

AnyOfConditions == {"action_kinds", "operations", "resources", "side_effects",
                    "destination_hosts", "taints_any", "data_classes_any", "principal_kinds",
                    "principal_roles_any", "environments"}
FlagConditions  == {"untrusted_instruction_influence", "principal_mfa", "approval_satisfied"}
FloorConditions == {"min_impact_tier", "delegation_depth_min", "prior_denials_min"}

condition_holds(c, v, req) ==
    CASE c \in AnyOfConditions -> v \cap req[c] # {}
      [] c \in FlagConditions  -> req[c] = v
      [] c \in FloorConditions -> req[c] >= v
      [] c = "influencing_trust_below" -> req.lowest_trust < v
      [] c = "taints_all"         -> v \subseteq req.taints_any
      \* an action with no identifiable host matches "not in"
      [] c = "destination_not_in" -> v \cap req.destination_hosts = {}
      [] c = "paths"              -> \E p \in req.paths : p \cap v # {}
      [] c = "paths_outside"      -> \E p \in req.paths : p \cap v = {}

matches(m, req) == m.match_all \/ \A c \in DOMAIN m.when : condition_holds(c, m.when[c], req)

(* PolicyBundle::validate.                                                 *)
valid_bundle(rules) ==
    /\ rules # {}
    /\ \A x, y \in rules : x.id = y.id => x = y
    /\ \A x \in rules : /\ x.match_all \/ DOMAIN x.when # {}
                        /\ ~(x.match_all /\ x.effect = "Allow")

(* PolicyBundle::evaluate: every enforced rule that matches has its say,   *)
(* the strictest wins; obligations and constraints of the losers stay.     *)
policy_evaluate(rules, default, req) ==
    LET matched == {x \in rules : ~x.audit_only /\ matches(x, req)}
    IN  [decision    |-> IF matched = {} THEN default ELSE Strictest({x.effect : x \in matched}),
         approvers   |-> UNION {x.approvers : x \in matched},
         constraints |-> UNION {x.constraints : x \in matched}]
=============================================================================
