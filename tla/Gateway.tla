------------------------------- MODULE Gateway -------------------------------
(***************************************************************************)
(* VIGIL Gateway: capability verification, the nonce store and the tool    *)
(* backends (crates/vigil-gateway, crates/vigil-capability), composed with *)
(* Core, whose signed tokens it redeems.  The two share the signing key,   *)
(* the clock and nothing else: an agent carries the token from one to the  *)
(* other.                                                                  *)
(*                                                                         *)
(* A redemption reads the clock and checks the bindings, then takes the    *)
(* nonce lock, then calls the backend: three steps, and two redemptions of *)
(* one token can interleave.  The nonce store is in memory; a restart      *)
(* forgets it.                                                             *)
(***************************************************************************)
EXTENDS CorePipeline

CONSTANTS
    Redeemers,      \* requests the gateway can be working on at once
    Backends,       \* resources with a registered tool backend
    MaxPresents,    \* bound: requests presented to the gateway
    MaxRestarts     \* bound: restarts of the gateway

ASSUME GatewayAssumption == MaxPresents \in Nat /\ MaxRestarts \in Nat

VARIABLES
    presented,      \* how many requests the gateway has had
    redeemers,      \* the requests in flight
    nonces,         \* InMemoryNonceStore: nonce -> uses; the expiry kept beside it is
                    \* read by purge_expired only, which nothing calls
    incarnation,    \* how often the gateway was started
    executions      \* calls that reached a backend, in order

gatewayVars == <<presented, redeemers, nonces, incarnation, executions>>
vars        == <<clock, received, sessions, approvals, grants, tasks, tokens, audit, released,
                 presented, redeemers, nonces, incarnation, executions>>

(* PresentedAction, rebuilt from the request body.  It names no target for *)
(* a database action, although Core's claims do.                           *)
PresentedAction(r) ==
    LET a == ActionOf[r.action]
    IN  [tenant |-> r.tenant, environment |-> r.environment, agent |-> r.agent,
         session |-> r.session, principal |-> r.principal, action_kind |-> a.kind,
         operation |-> a.operation,
         tool_id |-> IF a.kind = "tool_call" THEN a.resource ELSE None,
         target_resource |-> IF a.kind \in {"tool_call", "network", "file"} THEN a.target ELSE None,
         action_hash |-> action_hash(r)]

check_binding(claims, p) == \A f \in DOMAIN p : claims[f] = p[f]

check_lifetime(claims, now) ==
    /\ now < claims.expires_at
    /\ claims.issued_at <= now + Config.leeway
    /\ claims.expires_at > claims.issued_at
    /\ claims.expires_at - claims.issued_at <= Config.max_capability_ttl

check_caller(r) ==
    /\ r.caller.tenant = r.tenant
    /\ r.caller.agent # None => r.caller.agent = r.agent

(* enforce_constraints.  A constraint on one kind of action leaves the     *)
(* others alone.                                                           *)
satisfied(c, a) ==
    CASE c.on = "AllowedHosts"      -> a.kind = "network" => a.host \cap c.values # {}
      [] c.on = "ArgumentAllowlist" -> a.arguments \subseteq c.values
      [] c.on = "SqlOperations"     -> a.kind = "database" => a.operation \in c.values
      [] c.on = "PathRoots"         -> a.kind = "file" => \A p \in a.paths : p \cap c.values # {}

GatewayInit ==
    /\ presented = 0 /\ redeemers = [g \in Redeemers |-> [pc |-> "idle"]]
    /\ nonces = <<>> /\ incarnation = 0 /\ executions = <<>>

(* execute_as and the front half of verify_and_consume: caller, signature  *)
(* (a token Core never signed does not get past it), lifetime, binding.  A *)
(* request refused here changes nothing.                                   *)
Present(g) ==
    /\ redeemers[g].pc = "idle" /\ presented < MaxPresents
    /\ presented' = presented + 1
    /\ \E n \in released, r \in Requests :
         /\ check_caller(r)
         /\ check_lifetime(tokens[n], clock)
         /\ check_binding(tokens[n], PresentedAction(r))
         /\ redeemers' = [redeemers EXCEPT ![g] = [pc |-> "consume", token |-> n, req |-> r]]
    /\ UNCHANGED <<coreVars, nonces, incarnation, executions>>

uses(n) == IF n \in DOMAIN nonces THEN nonces[n] ELSE 0
used(n) == [i \in DOMAIN nonces \cup {n} |-> IF i = n THEN uses(n) + 1 ELSE nonces[i]]

(* Mutant: the count is checked under the lock, and raised under another   *)
(* acquisition of it.                                                      *)
ConsumeCheckThenSet(g) ==
    /\ LET n == redeemers[g].token
       IN  \/ /\ redeemers[g].pc = "consume"
              /\ redeemers' = [redeemers EXCEPT ![g] =
                    IF uses(n) >= tokens[n].max_uses THEN [pc |-> "idle"]
                    ELSE [pc |-> "set", token |-> n, req |-> @.req]]
              /\ UNCHANGED nonces
           \/ /\ redeemers[g].pc = "set"
              /\ redeemers' = [redeemers EXCEPT ![g].pc = "invoke"]
              /\ nonces' = used(n)
    /\ UNCHANGED <<coreVars, presented, incarnation, executions>>

(* NonceStore::consume, atomic under its lock, without another look at the *)
(* clock.                                                                  *)
Consume(g) ==
    /\ redeemers[g].pc = "consume"
    /\ LET n == redeemers[g].token
       IN  IF uses(n) >= tokens[n].max_uses
           THEN /\ redeemers' = [redeemers EXCEPT ![g] = [pc |-> "idle"]]
                /\ UNCHANGED nonces
           ELSE /\ nonces' = used(n)
                /\ redeemers' = [redeemers EXCEPT ![g] =
                      [pc |-> "invoke", token |-> n, req |-> @.req]]
    /\ UNCHANGED <<coreVars, presented, incarnation, executions>>

(* Constraints, backend, credential and call.  A refusal here has already  *)
(* cost the token its use; a backend that fails has still been reached.    *)
Invoke(g) ==
    /\ redeemers[g].pc = "invoke"
    /\ LET k == redeemers[g]
           a == ActionOf[k.req.action]
       IN  executions' =
             IF /\ \A c \in tokens[k.token].constraints : satisfied(c, a)
                /\ a.resource \in Backends
             THEN Append(executions, [token |-> k.token, req |-> k.req,
                                      incarnation |-> incarnation])
             ELSE executions
    /\ redeemers' = [redeemers EXCEPT ![g] = [pc |-> "idle"]]
    /\ UNCHANGED <<coreVars, presented, nonces, incarnation>>

(* A restart before the first redemption loses nothing.                    *)
GatewayRestart ==
    /\ incarnation < MaxRestarts /\ nonces # <<>>
    /\ incarnation' = incarnation + 1
    /\ nonces' = <<>>
    /\ redeemers' = [g \in Redeemers |-> [pc |-> "idle"]]
    /\ UNCHANGED <<coreVars, presented, executions>>

Tick ==
    /\ clock < MaxClock
    /\ clock' = clock + 1
    /\ UNCHANGED <<received, sessions, approvals, grants, tasks, tokens, audit, released,
                   gatewayVars>>

CoreStep ==
    \/ \E t \in Tasks : Receive(t) \/ TaskStep(t)
    \/ \E r \in Requests : \/ EndSession(SessionKey(r))
                           \/ \E c \in DOMAIN Contents : Ingest(SessionKey(r), c)
    \/ \E i \in DOMAIN approvals, h \in Approvers : Grant(i, h)
    \/ EvictStaleSessions
    \/ CoreRestart

Next ==
    \/ CoreStep /\ UNCHANGED gatewayVars
    \/ \E g \in Redeemers : Present(g) \/ Consume(g) \/ Invoke(g)
    \/ GatewayRestart
    \/ Tick

ServerInit == Init /\ GatewayInit

Spec == ServerInit /\ [][Next]_vars

-----------------------------------------------------------------------------
(* Every capability that rests on an approval rests on one a person other  *)
(* than the requester granted for exactly that request, and no two rest on *)
(* the same one: verify_and_consume spends the approval in the step that   *)
(* checks it, whatever two retries of the action do in between.            *)
ApprovalSpentOnce ==
    \A i \in DOMAIN tokens : tokens[i].approval_id # 0 =>
        /\ \E g \in grants : /\ g.id = tokens[i].approval_id
                             /\ g.hash = tokens[i].action_hash
                             /\ g.approver # tokens[i].principal
        /\ \A j \in DOMAIN tokens : tokens[j].approval_id = tokens[i].approval_id => i = j

(* Nothing reaches a tool but the very request a recorded decision         *)
(* permitted: a token leaves Core only after the audit chain has its       *)
(* decision, and the gateway rehashes the body it is given.                *)
ExecutionsAreDecided ==
    \A i \in DOMAIN executions : \E d \in audit :
        /\ d.token = executions[i].token
        /\ d.hash = action_hash(executions[i].req)
        /\ permits_execution(d.decision)

(* The budget is checked in one lock section and charged in a later one,   *)
(* so requests in flight together can overrun the limit of tool or of      *)
(* model calls, but by no more than one each.                              *)
BudgetOverrunBounded ==
    \A key \in DOMAIN sessions, c \in CallKinds :
        sessions[key].budget.calls[c] <= limits_of(key[2]).max_calls[c] + Cardinality(Tasks) - 1

(* Within one life of the gateway a token is good for max_uses calls,      *)
(* however redemptions of it interleave between the checks, the nonce      *)
(* store and the backend.                                                  *)
SingleUsePerLife ==
    \A n \in DOMAIN tokens, life \in 0..incarnation :
        Cardinality({i \in DOMAIN executions :
                        executions[i].token = n /\ executions[i].incarnation = life})
            <= tokens[n].max_uses
=============================================================================
