------------------------------ MODULE MCServer ------------------------------
(***************************************************************************)
(* The server for TLC.  Core and the gateway: one agent with one session,  *)
(* a harmless call of a model, a mail that needs approval and that         *)
(* untrusted content forbids, and a caller that says it is another agent.  *)
(* The audit log has one process that appends to it, seals it, stops and   *)
(* resumes it.  Core's `audit` stands for a log that keeps what it took,   *)
(* so the two share no state here, and each is explored with the other     *)
(* still in its first state.                                               *)
(***************************************************************************)
EXTENDS Gateway, AuditLog, TLC

Symmetry == Permutations(Tasks) \cup Permutations(Redeemers)

Call(id, kind, operation, effect) ==
    [id |-> id, kind |-> kind, resource |-> id, operation |-> operation, intrinsic |-> effect,
     paths |-> {}, host |-> {}, depth |-> 0, strings |-> <<>>,
     carries |-> <<>>, target |-> id, arguments |-> {},
     cost |-> IF kind = "model_call" THEN 1 ELSE 0]

(* A text that poses as a system message and asks for secrets.             *)
Steering ==
    LET hit(p, f) == [phrase |-> p, family |-> f, aggressive |-> TRUE, stripped_length |-> 12,
                      plain |-> TRUE]
    IN  [indicators |-> {hit("as system", "RoleSpoofing"), hit("reveal", "SecretSolicitation")},
         signals |-> {}, data |-> {}, urls |-> {}]

MCActionOf == [model |-> Call("model", "model_call", "invoke", "Observational"),
               mail  |-> [Call("mail", "tool_call", "send", "ExternalWrite")
                            EXCEPT !.strings = <<Steering>>]]

Ask(action, proven) ==
    [caller |-> [kind |-> "Agent", tenant |-> "acme", agent |-> proven, verified |-> TRUE],
     tenant |-> "acme", principal_tenant |-> "acme", environment |-> "prod", agent |-> "bot",
     session |-> "s", principal |-> "eve", principal_kind |-> "human", roles |-> {}, mfa |-> TRUE,
     action |-> action, declared |-> {}, untrusted |-> <<>>]

ServerRequests == {Ask("model", "bot"), Ask("mail", "bot"), Ask("mail", "imp")}

Manifest(effect, impact) == [synthetic |-> FALSE, side_effect |-> effect, impact |-> impact,
                             approval |-> FALSE, approval_operations |-> {}]
MCManifests == [model |-> Manifest("Observational", 0), mail |-> Manifest("ExternalWrite", 3)]

Tool(operation, gated) == [operations |-> {operation}, approval_required |-> gated]
MCRemits == [bot |-> [version |-> "v1", forbidden_goals |-> {}, allowed_roots |-> {},
                      allowed_destinations |-> {}, forbidden_egress |-> {},
                      tools |-> [model |-> Tool("invoke", {}), mail |-> Tool("send", {"send"})],
                      limits |-> [max_calls |-> [tool_calls |-> 1, model_calls |-> 1],
                                  max_cost |-> 2, max_session_minutes |-> 10,
                                  max_repeated_actions |-> 5, max_external_domains |-> 1,
                                  max_delegation_depth |-> 1]]]

Rule(id, when, effect, approvers) ==
    [id |-> id, match_all |-> FALSE, when |-> when, effect |-> effect, audit_only |-> FALSE,
     approvers |-> approvers, constraints |-> {}]
By(role) == {[roles |-> {role}, ttl |-> 1]}
MCRules ==
    {Rule("allow-tools", [action_kinds |-> {"tool_call", "model_call"}], "Allow", {}),
     Rule("steered-mail", [resources |-> {"mail"}, untrusted_instruction_influence |-> TRUE],
          "Deny", {}),
     Rule("mail-review", [resources |-> {"mail"}], "RequireApproval", By("lead")),
     Rule("probing", [resources |-> {"mail"}, prior_denials_min |-> 2], "TerminateSession", {})}

MCDetectorFaults == {{}, {"injection"}}

MCContents == [page |-> [trust |-> 20, taints |-> {"UntrustedInstruction"}, values |-> {},
                         derived_from |-> {}]]

MCApprovers == {[id |-> "eve", tenant |-> "acme", roles |-> {"lead"}],
                [id |-> "ann", tenant |-> "acme", roles |-> {"lead"}]}

MCApproved == [tenant |-> "acme", agent |-> "bot", session |-> "s",
               requesting_principal |-> "eve", hash |-> action_hash(Ask("mail", "bot")),
               roles |-> {"lead"}, expires_at |-> 1, state |-> "Granted"]
MCGranted  == [id |-> 1, tenant |-> "acme", agent |-> "bot", session |-> "s",
               hash |-> MCApproved.hash, approver |-> "ann", expires_at |-> 1]

(* A Core with a mail approved, and one whose session has spent its budget. *)
Spent     == [NewSession(0) EXCEPT !.budget.calls.model_calls = 1]
MCOpening == {[sessions |-> <<>>, approvals |-> <<MCApproved>>, grants |-> {MCGranted}],
              [sessions |-> (<<"acme", "bot", "s">> :> Spent), approvals |-> <<>>,
               grants |-> {}]}

MCConfig == [protected |-> TRUE, require_workload_identity |-> TRUE,
             allow_unregistered_agents |-> FALSE, skip_detectors_on_deterministic_deny |-> TRUE,
             capability_ttl |-> 1, max_capability_ttl |-> 2, approval_ttl |-> 1, leeway |-> 0,
             default_approver_roles |-> {"lead"}, session_max_lifetime |-> 1]

MCInit == ServerInit /\ AuditInit

MCNext == \/ Next /\ AuditInit /\ UNCHANGED auditVars
          \/ AuditStep /\ ServerInit /\ approvals = <<>> /\ UNCHANGED vars

MCSpec == MCInit /\ [][MCNext]_<<vars, auditVars>>
=============================================================================
