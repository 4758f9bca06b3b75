---------------------------- MODULE CorePipeline ----------------------------
(***************************************************************************)
(* VIGIL Core: the HTTP handlers, the decision pipeline, the session store *)
(* and the approval service (crates/vigil-core), with the capability       *)
(* issuer (crates/vigil-capability).                                       *)
(*                                                                         *)
(* A decision is not atomic.  The pipeline takes the session lock once per *)
(* stage, the approval lock once or twice, and awaits the policy engine    *)
(* and the detectors; other requests run in between.  A task of the model  *)
(* is one HTTP request, and its pc names the lock section it enters next.  *)
(*                                                                         *)
(* Sessions and approvals are in memory and a restart forgets them; the    *)
(* signing seeds are configured, so tokens outlive the process.            *)
(***************************************************************************)
EXTENDS Detectors

CONSTANTS
    Tasks,          \* requests a Core can be working on at once
    Requests,       \* what callers send: who they are, who they say they are, what they ask
    ActionOf,       \* action id -> what the action is
    Manifests,      \* resource -> tool manifest
    Remits,         \* agent -> remit
    Rules,          \* the policy bundle
    DetectorFaults, \* the sets of detectors that may fail in one run
    Contents,       \* content id -> what an adapter may ingest
    Approvers,      \* authenticated humans
    Config,         \* CoreConfig
    Opening,        \* sessions, approvals and grants there may be when the behaviour starts
    MaxDecides,     \* bound: requests received
    MaxClock        \* bound: the clock

(* What the hash of an action commits to.                                  *)
action_hash(r) == <<r.tenant, r.environment, r.agent, r.session, r.principal, r.action>>

DefaultLimits == [max_calls |-> [tool_calls |-> 40, model_calls |-> 25], max_cost |-> 2,
                  max_session_minutes |-> 30, max_repeated_actions |-> 3,
                  max_external_domains |-> 3, max_delegation_depth |-> 2]
limits_of(agent) == IF agent \in DOMAIN Remits THEN Remits[agent].limits ELSE DefaultLimits

(* A session has spent no more than its limit when the behaviour starts.   *)
ASSUME CoreAssumption ==
    /\ valid_bundle(Rules) /\ \A x \in Rules : x.effect \in Decisions
    /\ IsFiniteSet(Tasks) /\ Tasks # {}
    /\ \A agent \in DOMAIN Remits, c \in CallKinds : Remits[agent].limits.max_calls[c] \in Nat
    /\ \A o \in Opening : \A key \in DOMAIN o.sessions :
         /\ "budget" \in DOMAIN o.sessions[key] /\ "calls" \in DOMAIN o.sessions[key].budget
         /\ DOMAIN o.sessions[key].budget.calls = CallKinds
         /\ \A c \in CallKinds :
               o.sessions[key].budget.calls[c] \in 0..limits_of(key[2]).max_calls[c]
    /\ \A f \in DetectorFaults : f \subseteq Range(Detectors)
    /\ Config.capability_ttl \in 1..Config.max_capability_ttl
    /\ \A o \in Opening : o.approvals \in Seq(Range(o.approvals))
    /\ \A o \in Opening : \A i \in DOMAIN o.approvals :
         LET a == o.approvals[i]
         IN  /\ "state" \in DOMAIN a /\ a.state \in {"Pending", "Granted"}
             /\ a.state = "Granted" <=> \E g \in o.grants : g.id = i
             /\ \E r \in Requests : a.hash = action_hash(r) /\ a.requesting_principal = r.principal
    /\ \A o \in Opening : \A g \in o.grants :
         /\ g.id \in DOMAIN o.approvals /\ g.hash = o.approvals[g.id].hash
         /\ g.approver # o.approvals[g.id].requesting_principal
    /\ MaxDecides \in Nat /\ MaxClock \in Nat

VARIABLES
    clock, received,
    sessions,   \* SessionStore: key -> state, for the sessions that exist
    approvals,  \* ApprovalService: a sequence, the index standing for the random id
    grants,     \* signed approval tokens handed out: records, never forged
    tasks,      \* the requests in flight
    tokens,     \* capabilities the issuer signed, in order
    audit,      \* decisions the audit chain accepted (AuditLog has their order)
    released    \* indices of tokens that reached a caller

coreVars == <<clock, received, sessions, approvals, grants, tasks, tokens, audit, released>>

-----------------------------------------------------------------------------
(* SessionKey: tenant, agent, instance and session; not the principal.     *)
SessionKey(r) == <<r.tenant, r.agent, r.session>>


(* The pinned remit version, the denial count and the recent decisions are *)
(* written and never read by a decision; they are left out.                *)
NewSession(now) ==
    [trace |-> <<>>, denied |-> {}, terminated |-> FALSE, started_at |-> now,
     budget |-> [calls |-> [c \in CallKinds |-> 0], cost |-> 0, started_at |-> now, domains |-> {},
                 repeats |-> [a \in DOMAIN ActionOf |-> 0]]]

(* with_session: f sees the session, created on first use.                 *)
state_of(key, now) == IF key \in DOMAIN sessions THEN sessions[key] ELSE NewSession(now)
with_session(key, st) == [k \in DOMAIN sessions \cup {key} |-> IF k = key THEN st ELSE sessions[k]]

record(st, hash, decision) ==
    IF permits_execution(decision) THEN st
    ELSE [st EXCEPT !.denied = @ \cup {hash},
                    !.terminated = @ \/ decision = "TerminateSession"]

-----------------------------------------------------------------------------
(* Admission. A request refused here changes nothing.                      *)
require_agent(r) == r.caller.kind = "Agent"

check_claims_match_proof(r) ==
    /\ r.tenant = r.caller.tenant
    /\ r.caller.agent # None => r.caller.agent = r.agent

check_identity(r) ==
    /\ Config.protected /\ Config.require_workload_identity => r.caller.verified
    /\ r.principal_tenant = r.tenant

admitted(r) == require_agent(r) /\ check_claims_match_proof(r) /\ check_identity(r)

Idle    == [pc |-> "idle"]
NoGrant == [id |-> 0]

Init ==
    /\ clock = 0 /\ received = 0
    /\ \E o \in Opening :
         sessions = o.sessions /\ approvals = o.approvals /\ grants = o.grants
    /\ tasks = [t \in Tasks |-> Idle]
    /\ tokens = <<>> /\ audit = {} /\ released = {}

(* A request is admitted, perhaps with an approval token its agent was     *)
(* given, and takes the snapshot every later stage works from: nothing     *)
(* shared is touched before it.  A request refused here changes nothing.   *)
Receive(t) ==
    /\ tasks[t].pc = "idle" /\ received < MaxDecides
    /\ received' = received + 1
    /\ \E r \in Requests, g \in grants \cup {NoGrant} :
         LET key == SessionKey(r)
             st  == state_of(key, clock)
         IN  /\ admitted(r)
             /\ sessions' = with_session(key, st)
             /\ tasks' = [tasks EXCEPT ![t] =
                   IF st.terminated
                   THEN [pc |-> "audit", req |-> r, decision |-> "TerminateSession", token |-> 0]
                   ELSE [pc |-> "analyze", req |-> r, grant |-> g, started |-> clock,
                         distinct_denials |-> Cardinality(st.denied),
                         retry |-> action_hash(r) \in st.denied]]
    /\ UNCHANGED <<clock, approvals, grants, tokens, audit, released>>

(* Stage 5: the provenance of the action.                                  *)
Analyze(t) ==
    /\ tasks[t].pc = "analyze"
    /\ LET r   == tasks[t].req
           key == SessionKey(r)
           st  == state_of(key, tasks[t].started)
       IN  /\ sessions' = with_session(key, st)
           /\ tasks' = [tasks EXCEPT ![t] = [x \in DOMAIN @ \cup {"trace"} |->
                 CASE x = "pc"    -> "budget"
                   [] x = "trace" -> analyze_action(st.trace, r.declared, ActionOf[r.action])
                   [] OTHER       -> @[x]]]
    /\ UNCHANGED <<clock, received, approvals, grants, tokens, audit, released>>

(* Stage 6: the budget is read here and charged only after the policy and  *)
(* the detectors have answered.                                            *)
CheckBudget(t) ==
    /\ tasks[t].pc = "budget"
    /\ LET r   == tasks[t].req
           key == SessionKey(r)
           st  == state_of(key, tasks[t].started)
           ok  == budget_permits(st.budget, limits_of(r.agent), ActionOf[r.action],
                                 tasks[t].started)
       IN  /\ sessions' = with_session(key, st)
           /\ tasks' = [tasks EXCEPT ![t] = [x \in DOMAIN @ \cup {"budget"} |->
                 CASE x = "pc"     -> "evaluate"
                   [] x = "budget" -> IF ok THEN "Allow" ELSE "Deny"
                   [] OTHER        -> @[x]]]
    /\ UNCHANGED <<clock, received, approvals, grants, tokens, audit, released>>

(* Mutant: a consumed approval still verifies.                             *)
VerifiesConsumed(g, r) ==
    /\ g # NoGrant
    /\ g.tenant = r.tenant /\ g.agent = r.agent /\ g.session = r.session
    /\ g.hash = action_hash(r)
    /\ clock < g.expires_at
    /\ g.id \in DOMAIN approvals
    /\ approvals[g.id].state \in {"Granted", "Consumed"}

(* ApprovalService::verify_and_consume.                                    *)
verifies(g, r) ==
    /\ g # NoGrant
    /\ g.tenant = r.tenant /\ g.agent = r.agent /\ g.session = r.session
    /\ g.hash = action_hash(r)
    /\ clock < g.expires_at
    /\ g.id \in DOMAIN approvals
    /\ approvals[g.id].state = "Granted"

-----------------------------------------------------------------------------
(* Stages 7 to 11, which read nothing but what the task already holds.     *)

facts(k) ==
    LET r == k.req
        a == ActionOf[r.action]
        m == lookup(Manifests, a.resource)
        c == classify_all(a.strings)
    IN  [action |-> a, manifest |-> m, side_effect |-> side_effect_of(m, a),
         tier |-> pipeline_tier(m, a), data_classes |-> c,
         taints |-> k.trace.taints \cup taints_of(c)]

PolicyRequest(k) ==
    LET f == facts(k)
    IN  [action_kinds |-> {f.action.kind}, operations |-> {f.action.operation},
         resources |-> {f.action.resource}, side_effects |-> {f.side_effect},
         destination_hosts |-> f.action.host, paths |-> f.action.paths,
         taints_any |-> f.taints, data_classes_any |-> f.data_classes,
         principal_kinds |-> {k.req.principal_kind}, principal_roles_any |-> k.req.roles,
         principal_mfa |-> k.req.mfa, environments |-> {k.req.environment},
         min_impact_tier |-> f.tier, lowest_trust |-> k.trace.lowest_trust,
         untrusted_instruction_influence |-> k.trace.influence,
         approval_satisfied |-> k.approval # 0,
         delegation_depth_min |-> f.action.depth, prior_denials_min |-> k.distinct_denials]

remit_of(k) ==
    LET f == facts(k)
    IN  remit_decision(Remits, k.req.agent, f.action,
                       IF is_egress(f.side_effect) THEN f.data_classes ELSE {},
                       Config.allow_unregistered_agents)

(* What the deterministic layers say; a policy engine that fails is a Deny.*)
deterministic(k, p) == Strictest({p.decision, remit_of(k), k.budget})

RiskInputs(k, detected) ==
    LET f == facts(k)
    IN  [tier |-> f.tier, reversible |-> is_reversible(f.side_effect),
         egress |-> is_egress(f.side_effect), lowest_trust |-> k.trace.lowest_trust,
         influence |-> k.trace.influence, taints |-> f.taints, evasive |-> k.trace.evasive,
         out_of_remit |-> \/ k.req.agent \notin DOMAIN Remits
                          \/ remit_evaluate(Remits[k.req.agent], f.action) = "OutOfRemit",
         retry |-> k.retry, distinct_denials |-> k.distinct_denials, depth |-> f.action.depth,
         detectors |-> [i \in DOMAIN detected |-> weighted_risk(detected[i]) \div 2],
         approved |-> k.approval # 0]

(* The final combine: detectors, the manifest and the risk score tighten;  *)
(* an approval turns RequireApproval, and nothing else, into an allow.     *)
final_decision(k, p, detected) ==
    LET f        == facts(k)
        proposed == {detected[i].proposed : i \in DOMAIN detected} \ {None}
        review   == IF /\ k.approval = 0
                       /\ \/ requires_approval(f.manifest, f.action.operation)
                          \/ warrants_review(RiskInputs(k, detected))
                    THEN {"RequireApproval"} ELSE {}
        d        == Strictest({deterministic(k, p)} \cup proposed \cup review)
    IN  IF k.approval # 0 /\ d = "RequireApproval" THEN "AllowWithConstraints" ELSE d

(* detection_context and run_all.  Untrusted text is what the adapter sent *)
(* along with the request: the trace keeps no content.                     *)
detection(k, failed) ==
    run_all(ActionOf[k.req.action], k.req.untrusted, k.trace.influence,
            IF k.req.agent \in DOMAIN Remits THEN Remits[k.req.agent].allowed_roots ELSE {},
            failed)

FailClosed == [decision |-> "Deny", approvers |-> {}, constraints |-> {}]

(* What the awaits can come back with: the policy's answer or its failure, *)
(* and the detectors' results.                                             *)
outcomes(k) ==
    LET answers == {policy_evaluate(Rules, "Deny", PolicyRequest(k)), FailClosed}
        gated(p) == /\ Config.skip_detectors_on_deterministic_deny
                    /\ deterministic(k, p) = "Deny"
    IN  {[decision |-> final_decision(k, x[1], x[2]), approvers |-> x[1].approvers,
          constraints |-> x[1].constraints] :
            x \in {<<p, IF gated(p) THEN <<>> ELSE detection(k, f)>> :
                      p \in answers, f \in DetectorFaults}}

(* Stage 10a, the awaits and the final combine.  A presented approval is   *)
(* spent before the policy is asked, so a denial that follows spends it    *)
(* for nothing; after that the stages touch nothing shared.                *)
Evaluate(t) ==
    /\ tasks[t].pc = "evaluate"
    /\ LET g  == tasks[t].grant
           ok == verifies(g, tasks[t].req)
           k  == [x \in DOMAIN tasks[t] \cup {"approval"} |->
                    IF x = "approval" THEN (IF ok THEN g.id ELSE 0) ELSE tasks[t][x]]
       IN  /\ approvals' = IF ok THEN [approvals EXCEPT ![g.id].state = "Consumed"] ELSE approvals
           /\ \E o \in outcomes(k) :
                tasks' = [tasks EXCEPT ![t] =
                    [pc |-> IF permits_execution(o.decision) THEN "issue"
                            ELSE IF o.decision = "RequireApproval" THEN "raise" ELSE "record",
                     req |-> k.req, started |-> k.started, approval |-> k.approval,
                     decision |-> o.decision, token |-> 0,
                     approvers |-> o.approvers, constraints |-> o.constraints]]
    /\ UNCHANGED <<clock, received, sessions, grants, tokens, audit, released>>

-----------------------------------------------------------------------------
target_resource_of(a) ==
    IF a.kind \in {"tool_call", "network", "file", "database"} THEN a.target ELSE None
tool_id_of(a) == IF a.kind = "tool_call" THEN a.resource ELSE None

Claims(k) ==
    LET r == k.req
        a == ActionOf[r.action]
    IN  [tenant |-> r.tenant, environment |-> r.environment, agent |-> r.agent,
         session |-> r.session, principal |-> r.principal, action_kind |-> a.kind,
         operation |-> a.operation, tool_id |-> tool_id_of(a),
         target_resource |-> target_resource_of(a), action_hash |-> action_hash(r),
         approval_id |-> k.approval, constraints |-> k.constraints,
         issued_at |-> clock, expires_at |-> clock + Config.capability_ttl, max_uses |-> 1]

(* CapabilityIssuer::issue, the token's index being its nonce, and the     *)
(* charge.  The token is nobody else's business until it is released.      *)
Issue(t) ==
    /\ tasks[t].pc = "issue"
    /\ tokens' = Append(tokens, Claims(tasks[t]))
    /\ LET key == SessionKey(tasks[t].req)
           st  == state_of(key, tasks[t].started)
       IN  sessions' = with_session(key,
               [st EXCEPT !.budget = charge(@, ActionOf[tasks[t].req.action])])
    /\ tasks' = [tasks EXCEPT ![t].pc = "record", ![t].token = Len(tokens) + 1]
    /\ UNCHANGED <<clock, received, approvals, grants, audit, released>>

(* ApprovalService::request.                                               *)
approval_request(k, roles, ttl) ==
    [tenant |-> k.req.tenant, agent |-> k.req.agent, session |-> k.req.session,
     requesting_principal |-> k.req.principal, hash |-> action_hash(k.req),
     roles |-> roles, expires_at |-> clock + ttl, state |-> "Pending"]

(* raise_approval: the approver must satisfy every rule that asked.  When  *)
(* no role can, the request fails and nothing more is recorded.            *)
common_roles(obligations) ==
    IF obligations = {} THEN Config.default_approver_roles
    ELSE {role \in UNION {o.roles : o \in obligations} : \A o \in obligations : role \in o.roles}

RaiseApproval(t) ==
    /\ tasks[t].pc = "raise"
    /\ LET k     == tasks[t]
           roles == common_roles(k.approvers)
           ttl   == IF k.approvers = {} THEN Config.approval_ttl
                    ELSE Min({o.ttl : o \in k.approvers})
       IN  IF roles = {}
           THEN /\ tasks' = [tasks EXCEPT ![t] = Idle]
                /\ UNCHANGED approvals
           ELSE /\ approvals' = Append(approvals, approval_request(k, roles, ttl))
                /\ tasks' = [tasks EXCEPT ![t].pc = "record"]
    /\ UNCHANGED <<clock, received, sessions, grants, tokens, audit, released>>

Record(t) ==
    /\ tasks[t].pc = "record"
    /\ LET key == SessionKey(tasks[t].req)
           st  == state_of(key, tasks[t].started)
       IN  sessions' = with_session(key, record(st, action_hash(tasks[t].req), tasks[t].decision))
    /\ tasks' = [tasks EXCEPT ![t] = [pc |-> "audit", req |-> @.req, decision |-> @.decision,
                                      token |-> @.token]]
    /\ UNCHANGED <<clock, received, approvals, grants, tokens, audit, released>>

(* Mutant: the answer leaves although the chain refused the record.        *)
RecordBestEffort(t) ==
    /\ tasks[t].pc = "audit"
    /\ \/ audit' = audit \cup {[hash |-> action_hash(tasks[t].req),
                                 decision |-> tasks[t].decision, token |-> tasks[t].token]}
       \/ UNCHANGED audit
    /\ released' = released \cup ({tasks[t].token} \ {0})
    /\ tasks' = [tasks EXCEPT ![t] = Idle]
    /\ UNCHANGED <<clock, received, sessions, approvals, grants, tokens>>

(* record_decision: the answer leaves only if the chain took the record.   *)
RecordDecision(t) ==
    /\ tasks[t].pc = "audit"
    /\ \/ /\ audit' = audit \cup {[hash |-> action_hash(tasks[t].req),
                                    decision |-> tasks[t].decision, token |-> tasks[t].token]}
          /\ released' = released \cup ({tasks[t].token} \ {0})
          /\ tasks' = [tasks EXCEPT ![t] = Idle]
       \/ /\ tasks' = [tasks EXCEPT ![t] = Idle]
          /\ UNCHANGED <<audit, released>>
    /\ UNCHANGED <<clock, received, sessions, approvals, grants, tokens>>

-----------------------------------------------------------------------------
(* The other handlers.                                                     *)

Ingest(key, c) ==
    /\ LET st == state_of(key, clock)
       IN  /\ c \notin DOMAIN st.trace
           /\ sessions' = with_session(key,
                 [st EXCEPT !.trace = [i \in DOMAIN @ \cup {c} |->
                     IF i = c THEN ingested(@, Contents[c]) ELSE @[i]]])
    /\ UNCHANGED <<clock, received, approvals, grants, tasks, tokens, audit, released>>

EndSession(key) ==
    /\ key \in DOMAIN sessions
    /\ sessions' = [k \in DOMAIN sessions \ {key} |-> sessions[k]]
    /\ UNCHANGED <<clock, received, approvals, grants, tasks, tokens, audit, released>>

(* ApprovalService::grant, by an authenticated human.  A grant that comes  *)
(* too late closes the request.                                            *)
Grant(i, h) ==
    /\ i \in DOMAIN approvals /\ approvals[i].state = "Pending"
    /\ LET q == approvals[i]
       IN  \/ /\ clock >= q.expires_at
              /\ approvals' = [approvals EXCEPT ![i].state = "Rejected"]
              /\ UNCHANGED grants
           \/ /\ clock < q.expires_at
              /\ h.tenant = q.tenant /\ h.id # q.requesting_principal
              /\ h.roles \cap q.roles # {}
              /\ approvals' = [approvals EXCEPT ![i].state = "Granted"]
              /\ grants' = grants \cup {[id |-> i, tenant |-> q.tenant, agent |-> q.agent,
                                         session |-> q.session, hash |-> q.hash,
                                         approver |-> h.id,
                                         expires_at |-> clock + Config.approval_ttl]}
    /\ UNCHANGED <<clock, received, sessions, tasks, tokens, audit, released>>

(* The maintenance loop's eviction; its checkpoint is in AuditLog.         *)
EvictStaleSessions ==
    /\ LET kept == {k \in DOMAIN sessions :
                      sessions[k].started_at > clock - Config.session_max_lifetime}
       IN  /\ kept # DOMAIN sessions
           /\ sessions' = [k \in kept |-> sessions[k]]
    /\ UNCHANGED <<clock, received, approvals, grants, tasks, tokens, audit, released>>

(* The process dies and is started again: what was in memory is gone, the  *)
(* approvals too, and an approval token now names one that does not exist. *)
CoreRestart ==
    /\ sessions' = <<>>
    /\ approvals' = [i \in DOMAIN approvals |-> [approvals[i] EXCEPT !.state = "Forgotten"]]
    /\ tasks' = [t \in Tasks |-> IF tasks[t].pc = "idle" THEN tasks[t] ELSE Idle]
    /\ UNCHANGED <<clock, received, grants, tokens, audit, released>>

TaskStep(t) ==
    \/ Analyze(t) \/ CheckBudget(t) \/ Evaluate(t)
    \/ Issue(t) \/ RaiseApproval(t) \/ Record(t) \/ RecordDecision(t)
=============================================================================
