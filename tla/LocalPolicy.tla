----------------------------- MODULE LocalPolicy -----------------------------
(***************************************************************************)
(* The local decision ladder of crates/vigil-local/src/policy.rs and the   *)
(* risk aggregation of risk.rs, as pure operators.                         *)
(*                                                                         *)
(* A path is abstracted to what the ladder tells apart: the protected      *)
(* category of the path as it is NAMED, whether it resolves, where it      *)
(* resolves to, and the protected category of what it RESOLVES to.  Reason *)
(* texts and policy names are left out; the detection label is kept        *)
(* because it is what loads risk.                                          *)
(***************************************************************************)
EXTENDS Integers, FiniteSets

(* RiskState, ordered by declaration in the source, so <= is the order.    *)
Normal      == 0
Elevated    == 1
Restricted  == 2
Contained   == 3
Quarantined == 4
RiskStates  == Normal..Quarantined

MaxRisk(a, b) == IF a >= b THEN a ELSE b

(* RiskState::revokes_leases.                                              *)
RevokesLeases(risk) == risk \in {Contained, Quarantined}

Profiles == {"observe", "developer-standard", "developer-restricted",
             "research", "untrusted-agent"}

ReadActions     == {"fs.list", "fs.metadata", "fs.read", "git.status", "git.read"}
MutationActions == {"fs.create", "fs.write", "fs.rename", "fs.delete"}
PathActions     == {"fs.list", "fs.metadata", "fs.read", "fs.execute", "process.exec"}
                     \cup MutationActions
GitActions      == {"git.status", "git.read", "git.stage", "git.commit", "git.push",
                    "git.force_push", "git.config", "git.remote_modify"}
SecretActions   == {"secret.metadata", "secret.use"}
AmbientActions  == {"secret.export", "system.persistence", "system.privileged"}
Actions         == PathActions \cup GitActions \cup SecretActions \cup AmbientActions
                     \cup {"network.connect"}

Outcomes == {"observe", "allow", "require_approval", "deny"}

(* DecisionOutcome::restrictiveness.                                       *)
Restrictiveness(outcome) ==
    CASE outcome = "observe"          -> 0
      [] outcome = "allow"            -> 1
      [] outcome = "require_approval" -> 2
      [] outcome = "deny"             -> 3

PermitsExecution(outcome) == outcome \in {"allow", "observe"}

NoLabel == "none"

(* Protected categories, and the label a denial of each carries            *)
(* (detection_for_category).  "none" is an unprotected path.               *)
Categories == {"none", "credentials", "persistence", "vigil_integrity", "local_ipc_escalation"}

DetectionForCategory(category) ==
    CASE category = "persistence"          -> "persistence_attempt"
      [] category = "vigil_integrity"      -> "security_control_modification"
      [] category = "local_ipc_escalation" -> "local_ipc_escalation"
      [] OTHER                             -> "credential_access"

(* A requested path: its named category, where it resolves, and the        *)
(* category of the object it resolves to (an alias may differ from its     *)
(* name).                                                                  *)
Paths == [named: Categories, resolves: {"inside", "outside", "fails"}, target: Categories]

Decision(outcome, label, resolved, risk) ==
    [outcome |-> outcome, label |-> label, resolved |-> resolved, risk_after |-> risk]

Deny(label, resolved)  == Decision("deny", label, resolved, Elevated)
Approve                == Decision("require_approval", NoLabel, TRUE, Elevated)
Allow                  == Decision("allow", NoLabel, TRUE, Normal)

(* The Git arm of the ladder: decided on the operation, not on a path.     *)
EvaluateGit(profile, action) ==
    CASE action \in {"git.status", "git.read", "git.stage"} -> Allow
      [] action = "git.commit"     -> IF profile = "untrusted-agent" THEN Approve ELSE Allow
      [] action = "git.push"       -> Approve
      [] action = "git.force_push" -> Deny("git_history_rewrite", TRUE)
      [] OTHER                     -> Deny("git_control_surface_change", TRUE)

(* Mutant: only the name of a path is checked, not what it resolves to.    *)
ResolvesProtectedByName(path) == FALSE

(* The second protected check of evaluate_base: the path resolved, and the *)
(* object behind it is protected whatever its name says.                   *)
ResolvesProtected(path) == path.resolves # "fails" /\ path.target # "none"

(* evaluate_base: the profile ladder, first match wins.                    *)
EvaluateBase(profile, action, path) ==
    LET pathBearing == action \in PathActions
        inside      == pathBearing /\ path.resolves = "inside"
    IN CASE action \in AmbientActions
              -> Decision("deny", NoLabel, TRUE, Restricted)
         [] pathBearing /\ path.named # "none"
              -> Deny(DetectionForCategory(path.named), TRUE)
         [] pathBearing /\ path.named = "none" /\ path.resolves = "fails"
              -> Deny(NoLabel, FALSE)
         [] pathBearing /\ path.named = "none" /\ ResolvesProtected(path)
              -> Deny(DetectionForCategory(path.target), TRUE)
         [] OTHER ->
              CASE profile = "observe"
                     -> Decision("observe", NoLabel, TRUE, Normal)
                [] profile # "observe" /\ action \in ReadActions /\ inside -> Allow
                [] profile # "observe" /\ action \in MutationActions /\ inside
                     -> IF profile = "untrusted-agent" /\ action = "fs.delete"
                        THEN Approve ELSE Allow
                [] profile # "observe" /\ action = "fs.execute" /\ inside
                     -> IF profile = "developer-standard" THEN Approve
                        ELSE Deny(NoLabel, TRUE)
                [] profile # "observe" /\ action \in GitActions
                     -> EvaluateGit(profile, action)
                [] profile # "observe" /\ action \in {"process.exec", "network.connect"} \cup SecretActions
                     -> Approve
                [] OTHER -> Deny(NoLabel, TRUE)

(* evaluate_process: the executable is abstracted to whether it resolves,  *)
(* whether it lies in the workspace, its class, and whether an argument    *)
(* holds a null byte.                                                      *)
ExecutableClasses == {"data", "shell", "interpreter", "network", "credential",
                      "persistence", "privilege", "administration", "unknown"}
Executables == [resolves: BOOLEAN, workspace: BOOLEAN, class: ExecutableClasses, nul: BOOLEAN]

ClassLabel(class) ==
    CASE class \in {"shell", "interpreter"} -> "unexpected_interpreter"
      [] class = "network"     -> "unmediated_network_utility"
      [] class = "credential"  -> "credential_utility_invocation"
      [] class = "persistence" -> "persistence_attempt"
      [] class = "privilege"   -> "privilege_attempt"
      [] OTHER                 -> "unexpected_executable"

EvaluateProcess(profile, exe) ==
    CASE ~exe.resolves -> Deny("unexpected_executable", FALSE)
      [] exe.resolves /\ profile = "observe" -> Decision("observe", NoLabel, TRUE, Normal)
      [] exe.resolves /\ profile # "observe" /\ exe.workspace -> Approve
      [] exe.resolves /\ profile # "observe" /\ ~exe.workspace /\ exe.class # "data"
           -> IF exe.class = "unknown"
              THEN Decision("require_approval", ClassLabel(exe.class), TRUE, Elevated)
              ELSE Deny(ClassLabel(exe.class), TRUE)
      [] OTHER -> IF exe.nul THEN Deny(NoLabel, TRUE) ELSE Allow

(* degrade_for_risk: the observe outcome is exempt, and the floor applies  *)
(* only where it is more restrictive than the outcome.                     *)
RiskFloor(action, outcome, risk) ==
    CASE risk = Normal -> outcome
      [] risk = Elevated ->
           IF action \in MutationActions THEN "require_approval"
           ELSE IF action \in SecretActions THEN "deny" ELSE outcome
      [] risk \in {Restricted, Contained} ->
           IF action \in ReadActions THEN outcome ELSE "deny"
      [] OTHER -> "deny"

DegradeForRisk(action, outcome, risk) ==
    LET floor == RiskFloor(action, outcome, risk)
    IN  IF outcome # "observe" /\ Restrictiveness(floor) > Restrictiveness(outcome)
        THEN floor ELSE outcome

(* apply_session_state: the lease upgrade, then risk degradation, then the *)
(* session's own risk as the floor of the reported risk.                   *)
LeaseUpgrade(outcome, leasePresent) ==
    IF leasePresent /\ outcome = "require_approval" THEN "allow" ELSE outcome

ApplySessionState(decision, action, risk, leasePresent) ==
    [decision EXCEPT
        !.outcome    = DegradeForRisk(action, LeaseUpgrade(@, leasePresent), risk),
        !.risk_after = MaxRisk(@, risk)]

(* RiskDimension.                                                          *)
RiskDimensions == {"credential_access", "exfiltration", "destructive_behavior", "persistence",
                   "privilege_escalation", "policy_evasion", "process_anomaly",
                   "network_anomaly", "capability_anomaly", "tool_anomaly",
                   "deception_interaction", "intent_execution_mismatch"}

(* aggregate_state over the per-dimension scores.                          *)
ElevatedAt    == 20
RestrictedAt  == 40
ContainedAt   == 60
QuarantinedAt == 80

AggregateState(scores) ==
    LET AtOrAbove(t) == Cardinality({d \in DOMAIN scores : scores[d] >= t})
    IN  IF AtOrAbove(QuarantinedAt) >= 1 THEN Quarantined
        ELSE IF AtOrAbove(ContainedAt) >= 1 \/ AtOrAbove(RestrictedAt) >= 2 THEN Contained
        ELSE IF AtOrAbove(RestrictedAt) >= 1 \/ AtOrAbove(ElevatedAt) >= 3 THEN Restricted
        ELSE IF AtOrAbove(ElevatedAt) >= 1 THEN Elevated
        ELSE Normal

(* The detection rules the modelled paths can fire, with the risk          *)
(* dimension, the weight and the severity the catalogue gives them.        *)
Rule(dimension, weight, severity) ==
    [dimension |-> dimension, weight |-> weight, severity |-> severity]

RuleForLabel(label) ==
    CASE label = "credential_access"             -> Rule("credential_access", 20, "high")
      [] label = "credential_utility_invocation" -> Rule("credential_access", 40, "high")
      [] label = "persistence_attempt"           -> Rule("persistence", 40, "high")
      [] label = "security_control_modification" -> Rule("policy_evasion", 80, "critical")
      [] label = "capability_escalation_probing" -> Rule("policy_evasion", 20, "medium")
      [] label = "clock_regression"              -> Rule("policy_evasion", 20, "medium")
      [] label = "approval_fatigue"              -> Rule("capability_anomaly", 20, "medium")
      [] label = "unexpected_interpreter"        -> Rule("process_anomaly", 20, "high")
      [] label = "unexpected_executable"         -> Rule("process_anomaly", 10, "medium")
      [] label = "executable_identity_changed"   -> Rule("process_anomaly", 60, "critical")
      [] label = "local_ipc_escalation"          -> Rule("privilege_escalation", 60, "critical")
      [] label = "privilege_attempt"             -> Rule("privilege_escalation", 40, "high")
      [] label = "unmediated_network_utility"    -> Rule("network_anomaly", 20, "medium")
      [] label = "budget_exhaustion"             -> Rule("destructive_behavior", 20, "medium")
      [] label = "git_history_rewrite"           -> Rule("destructive_behavior", 40, "high")
      [] label = "git_control_surface_change"    -> Rule("tool_anomaly", 40, "high")
      [] label = "mcp_tool_scope_escape"         -> Rule("tool_anomaly", 40, "high")
      [] label = "deception_resource_access"     -> Rule("deception_interaction", 60, "critical")
      [] label = "sensitive_read_then_egress"    -> Rule("exfiltration", 40, "high")
      [] label = "archive_before_egress"         -> Rule("exfiltration", 60, "high")
      [] label = "process_fan_out"               -> Rule("process_anomaly", 20, "medium")
      [] label = "capability_laundering"         -> Rule("capability_anomaly", 40, "high")
      [] label = "denied_operation_observed"     -> Rule("intent_execution_mismatch", 80, "critical")
      [] label = "intent_resource_mismatch"      -> Rule("intent_execution_mismatch", 40, "high")
      [] label = "undeclared_side_effect"        -> Rule("intent_execution_mismatch", 40, "high")
      [] label = "undeclared_child_process"      -> Rule("process_anomaly", 20, "high")
      [] label = "scope_expansion"               -> Rule("intent_execution_mismatch", 20, "medium")
=============================================================================
