------------------------------- MODULE McpProxy -------------------------------
(***************************************************************************)
(* MCP servers under vigil-local: the registry and its drift check, the    *)
(* authorization of a tool call (mcp.rs), the atomic spending of several   *)
(* leases (lease.rs), and the stdio proxy (mcp_proxy.rs and `vigil mcp` of *)
(* the command line).                                                      *)
(*                                                                         *)
(* A proxy is a process with two threads: one reads the agent and          *)
(* authorizes calls, one reads the server and compares its tool listings   *)
(* with the baseline.  They share the store with each other, with other    *)
(* proxies and with the operator's commands; a step is one transaction or  *)
(* one message.  There is one session and one server name.                 *)
(*                                                                         *)
(* The life of an approval is LocalAuthority's: here a request is pending, *)
(* denied, or has been answered by a lease.  Unlike everywhere else, leases*)
(* are spent by the system clock, which may be set back.                   *)
(***************************************************************************)
EXTENDS LocalPolicy, Sequences, SequencesExt, Functions

CONSTANTS
    Proxies,            \* running instances of `vigil mcp proxy`
    Hashes,             \* contents the server's executable may have
    Tools,              \* tool names
    OperatorManifests,  \* what an operator may synchronise: tool -> manifest
    Listings,           \* what a server may list on the wire: tool -> manifest
    Calls,              \* tool calls: the tool and the resources in its arguments, in order
    Resources,          \* resource -> the action it implies and the path the ladder sees
    Profile,            \* the session's profile
    MaxExtracted,       \* MAX_EXTRACTED_RESOURCES
    MaxPendingLists,    \* MAX_PENDING_TOOL_LISTS
    RequestIds,         \* JSON-RPC identifiers
    LeaseTtl, LeaseUses, \* what the operator grants leases for
    MaxTime,            \* bound: the system clock
    MaxGrants           \* bound: leases granted

ASSUME McpAssumption ==
    /\ \A c \in Calls : c.tool \in Tools /\ c.resources \in Seq(DOMAIN Resources)
    /\ \A m \in OperatorManifests \cup Listings : DOMAIN m \subseteq Tools /\ \A t \in DOMAIN m :
         /\ m[t] = [schema |-> m[t].schema, description |-> m[t].description,
                    capabilities |-> m[t].capabilities]
         /\ IsFiniteSet(m[t].capabilities)
    /\ IsFiniteSet(Tools) /\ IsFiniteSet(Proxies)
    /\ MaxExtracted \in Nat /\ MaxPendingLists \in Nat /\ MaxTime \in Nat
    /\ LeaseTtl \in Nat \ {0} /\ LeaseUses \in Nat \ {0} /\ MaxGrants \in Nat

VARIABLES
    clock,      \* the system clock
    disk,       \* what the registered path holds
    server,     \* mcp_servers: the registered hash and the trust state
    tools,      \* mcp_tools: the baseline
    scores, risk,
    asked,      \* approval requests, per resource
    leases,     \* capability_leases, in the order they were granted
    proxy,      \* per proxy: whether it runs, the agent side's call, pending lists
    reports,    \* drift found and not yet recorded against the session
    declared,   \* capabilities operators have declared, per tool (history)
    reached,    \* actions of the calls written to a server, per tool (history)
    usesEnded   \* lease uses whose call was forwarded or died with its proxy (history)

vars == <<clock, disk, server, tools, scores, risk, asked, leases, proxy, reports, declared,
          reached, usesEnded>>

registryVars  == <<disk, server, tools, declared>>
authorityVars == <<scores, risk, asked, leases>>
historyVars   == <<reached, usesEnded>>

NoHash   == "none"
NoServer == [hash |-> NoHash, trust |-> "absent"]
IdleCall == [pc |-> "idle"]
NoProxy  == [pc |-> "down", call |-> IdleCall, lists |-> {}]

Init ==
    /\ clock = 0 /\ disk \in Hashes /\ server = NoServer /\ tools = <<>>
    /\ scores = [d \in RiskDimensions |-> 0] /\ risk = Normal
    /\ asked = [r \in DOMAIN Resources |-> "none"] /\ leases = <<>>
    /\ proxy = [p \in Proxies |-> NoProxy]
    /\ reports = [w \in Proxies \cup {"operator"} |-> <<>>]
    /\ declared = [t \in Tools |-> {}] /\ reached = [t \in Tools |-> {}]
    /\ usesEnded = [r \in DOMAIN Resources |-> 0]

-----------------------------------------------------------------------------
(* The registry.                                                           *)

(* register_mcp_server with the hash the command line just took.  Once     *)
(* registered, another identity is refused and the same one refreshed.     *)
Register ==
    /\ server = NoServer
    /\ server' = [hash |-> disk, trust |-> "trusted"]
    /\ UNCHANGED <<clock, disk, tools, declared, authorityVars, proxy, reports, historyVars>>

(* McpDrift between a listing and the baseline: tools gone, tools come     *)
(* (where there is a baseline), what a tool says of itself, capabilities   *)
(* gained.                                                                 *)
gone(m)        == {<<"removed", t>> : t \in DOMAIN tools \ DOMAIN m}
come(m)        == {<<"added", t>> : t \in IF tools = <<>> THEN {} ELSE DOMAIN m \ DOMAIN tools}
reworded(m, f) == {<<f, t>> : t \in {u \in DOMAIN m \cap DOMAIN tools : m[u][f] # tools[u][f]}}
gained(m)      == UNION {{<<c, t>> : c \in m[t].capabilities \ tools[t].capabilities} :
                            t \in DOMAIN m \cap DOMAIN tools}
changes(m)     == gone(m) \cup come(m) \cup gained(m)
                    \cup reworded(m, "schema") \cup reworded(m, "description")

(* The detection labels to record.  A hash nobody took is not compared.    *)
drift(m, observed) ==
    (IF observed \in {NoHash, server.hash} THEN <<>> ELSE <<"mcp_server_substitution">>)
        \o [i \in 1..Cardinality(changes(m)) |-> "mcp_capability_drift"]

(* The rows a synchronisation stages.  A live listing keeps the recorded   *)
(* capabilities of a known tool.                                           *)
staged(m, live) ==
    [t \in DOMAIN tools \cup DOMAIN m |->
        IF t \notin DOMAIN m THEN tools[t]
        ELSE IF live /\ t \in DOMAIN tools
             THEN [m[t] EXCEPT !.capabilities = tools[t].capabilities]
             ELSE m[t]]

(* Mutant: what was staged is committed although it drifted.               *)
SyncCommitting(m, found, live) == tools' = staged(m, live)

(* sync_mcp_tools_inner: one transaction, committed only without drift.    *)
Sync(m, found, live) == tools' = IF found = <<>> THEN staged(m, live) ELSE tools

(* `vigil mcp sync`, with or without a hash of the file, and with or       *)
(* without a session to record what drifted against.                       *)
OperatorSync(m) ==
    /\ server # NoServer /\ reports["operator"] = <<>>
    /\ \E observed \in {disk, NoHash} :
         LET found == drift(m, observed)
         IN  /\ Sync(m, found, FALSE)
             /\ reports' \in {reports, [reports EXCEPT !["operator"] = found]}
             /\ declared' = [t \in Tools |-> declared[t] \cup
                               IF found = <<>> /\ t \in DOMAIN m THEN m[t].capabilities ELSE {}]
    /\ UNCHANGED <<clock, disk, server, authorityVars, proxy, historyVars>>

Quarantine(trust) ==
    /\ server # NoServer /\ server.trust # trust
    /\ server' = [server EXCEPT !.trust = trust]
    /\ UNCHANGED <<clock, disk, tools, declared, authorityVars, proxy, reports, historyVars>>

BinaryReplaced ==
    /\ disk' \in Hashes \ {disk}
    /\ UNCHANGED <<clock, server, tools, declared, authorityVars, proxy, reports, historyVars>>

-----------------------------------------------------------------------------
(* Risk and leases.                                                        *)

MCP_RULES ==
    [mcp_capability_drift    |-> Rule("tool_anomaly", 40, "high"),
     mcp_server_substitution |-> Rule("tool_anomaly", 80, "critical"),
     mcp_tool_scope_escape   |-> Rule("tool_anomaly", 40, "high")]

rule(label) == IF label \in DOMAIN MCP_RULES THEN MCP_RULES[label] ELSE RuleForLabel(label)

revoked == [i \in DOMAIN leases |->
              IF leases[i].status = "active" THEN [leases[i] EXCEPT !.status = "revoked"]
              ELSE leases[i]]

SetRisk(new) ==
    /\ risk' = new
    /\ leases' = IF new # risk /\ RevokesLeases(new) THEN revoked ELSE leases

record_risk_signal(label) ==
    LET x    == rule(label)
        next == [scores EXCEPT ![x.dimension] =
                   IF @ + x.weight > QuarantinedAt THEN QuarantinedAt ELSE @ + x.weight]
    IN  /\ scores' = next
        /\ SetRisk(MaxRisk(AggregateState(next), risk))

(* record_mcp_drift, one change at a time.                                 *)
RecordDrift(w) ==
    /\ reports[w] # <<>>
    /\ record_risk_signal(Head(reports[w]))
    /\ reports' = [reports EXCEPT ![w] = Tail(@)]
    /\ UNCHANGED <<clock, registryVars, asked, proxy, historyVars>>

usable(ls, r) ==
    {i \in DOMAIN ls : /\ ls[i].resource = r /\ ls[i].status = "active" /\ ls[i].uses > 0
                       /\ ls[i].expires > clock}

used(l)        == [l EXCEPT !.uses = @ - 1, !.status = IF l.uses = 1 THEN "exhausted" ELSE @]
charged(ls, i) == [ls EXCEPT ![i] = used(@)]

soonest(ls, found) ==
    CHOOSE i \in found : \A j \in found :
        \/ ls[i].expires < ls[j].expires
        \/ ls[i].expires = ls[j].expires /\ i <= j

(* One use of the loop in consume_leases_atomically, for the n-th resource *)
(* of a call: a lease is charged, or the use is missing.                   *)
taken(prior, n, r) ==
    LET found == usable(prior.leases, r)
    IN  IF found = {} THEN [leases |-> prior.leases, missing |-> prior.missing \cup {n}]
        ELSE [leases |-> charged(prior.leases, soonest(prior.leases, found)),
              missing |-> prior.missing]

(* The loop, over the resources of a call that need a lease: each          *)
(* selection sees the charges before it.                                   *)
spent(k) ==
    LET after[n \in 0..Len(k.extracted)] ==
          IF n = 0 THEN [leases |-> leases, missing |-> {}]
          ELSE IF n \in k.bound THEN taken(after[n - 1], n, k.extracted[n])
          ELSE after[n - 1]
    IN  after[Len(k.extracted)]

(* Mutant: the decrements before a missing lease stay.                     *)
SpendKeeping(k) ==
    leases' = spent(k).leases

(* All of them or none.                                                    *)
Spend(k) ==
    leases' = IF spent(k).missing = {} THEN spent(k).leases ELSE leases

Grant(r) ==
    /\ asked[r] = "pending" /\ ~RevokesLeases(risk) /\ Len(leases) < MaxGrants
    /\ leases' = Append(leases, [resource |-> r, uses |-> LeaseUses, status |-> "active",
                                 expires |-> clock + LeaseTtl])
    /\ asked' = [asked EXCEPT ![r] = "none"]
    /\ UNCHANGED <<clock, registryVars, scores, risk, proxy, reports, historyVars>>

DenyApproval(r) ==
    /\ asked[r] = "pending"
    /\ asked' = [asked EXCEPT ![r] = "denied"]
    /\ UNCHANGED <<clock, registryVars, scores, risk, leases, proxy, reports, historyVars>>

Contain ==
    /\ risk < Contained
    /\ SetRisk(Contained)
    /\ UNCHANGED <<clock, registryVars, scores, asked, proxy, reports, historyVars>>

ClockMoves ==
    /\ clock' \in (0..MaxTime) \ {clock}
    /\ UNCHANGED <<registryVars, authorityVars, proxy, reports, historyVars>>

-----------------------------------------------------------------------------
(* The proxy.                                                              *)

Uses(k, r) == Cardinality({i \in k.bound : k.extracted[i] = r})
ended(k)   == [r \in DOMAIN usesEnded |-> usesEnded[r] + Uses(k, r)]

verify_mcp_proxy_executable == server.trust = "trusted" /\ disk = server.hash

(* The server is verified and then started by its path.  A file replaced   *)
(* between the two is started unverified; what a child runs is not part of *)
(* the state.                                                              *)
Spawn(p) ==
    /\ proxy[p].pc = "down" /\ verify_mcp_proxy_executable
    /\ proxy' = [proxy EXCEPT ![p].pc = "up"]
    /\ UNCHANGED <<clock, registryVars, authorityVars, reports, historyVars>>

(* The process is killed, or ends on an error or the agent's end of file.  *)
(* A call that had spent its leases takes them with it, and drift that was *)
(* found and not recorded is lost.                                         *)
ProxyDies(p) ==
    /\ proxy[p].pc # "down"
    /\ usesEnded' = IF proxy[p].call.pc = "forward" THEN ended(proxy[p].call) ELSE usesEnded
    /\ proxy' = [proxy EXCEPT ![p] = NoProxy]
    /\ reports' = [reports EXCEPT ![p] = <<>>]
    /\ UNCHANGED <<clock, registryVars, authorityVars, reached>>

(* record_tool_list_request: an identifier too many is forwarded and not   *)
(* remembered.                                                             *)
RequestToolList(p, id) ==
    /\ proxy[p].pc = "up" /\ proxy[p].call = IdleCall
    /\ id \notin proxy[p].lists /\ Cardinality(proxy[p].lists) < MaxPendingLists
    /\ proxy' = [proxy EXCEPT ![p].lists = @ \cup {id}]
    /\ UNCHANGED <<clock, registryVars, authorityVars, reports, historyVars>>

(* Mutant: the server's own claims about its tools are believed.           *)
WireClaims(listing) == listing

(* inspect_server_message: a server declares no capabilities on the wire.  *)
wire(listing) == [t \in DOMAIN listing |-> [listing[t] EXCEPT !.capabilities = {}]]

(* The listener thread: the answer to a remembered request is compared     *)
(* with the baseline; any other listing passes through unread.             *)
ServerLists(p, id, listing) ==
    /\ proxy[p].pc = "up" /\ id \in proxy[p].lists /\ reports[p] = <<>>
    /\ LET m     == wire(listing)
           found == drift(m, NoHash)
       IN  /\ Sync(m, found, TRUE)
           /\ reports' = [reports EXCEPT ![p] = found]
    /\ proxy' = [proxy EXCEPT ![p].lists = @ \ {id}]
    /\ UNCHANGED <<clock, disk, server, declared, authorityVars, historyVars>>

-----------------------------------------------------------------------------
(* authorize_mcp_call, run by a proxy's agent side.                        *)

SetCall(p, c) == proxy' = [proxy EXCEPT ![p].call = c]

(* extract_resources: the first so many, in the order the arguments are    *)
(* walked.  What lies beyond is not looked at.                             *)
extract_resources(c) == SubSeq(c.resources, 1, Min({MaxExtracted, Len(c.resources)}))

implied_action(r) == Resources[r].action

(* The server and the tool are read in one transaction and never again.    *)
(* Quarantine, an unknown identity and a call without resources are        *)
(* refused with nothing but an event.                                      *)
BeginCall(p, c) ==
    /\ proxy[p].pc = "up" /\ proxy[p].call = IdleCall
    /\ server.trust = "trusted" /\ c.tool \in DOMAIN tools /\ c.resources # <<>>
    /\ LET extracted == extract_resources(c)
           escapes   == {i \in DOMAIN extracted :
                           implied_action(extracted[i]) \notin tools[c.tool].capabilities}
       IN  SetCall(p, [pc |-> IF escapes = {} THEN "preflight" ELSE "escape",
                       request |-> c, extracted |-> extracted])
    /\ UNCHANGED <<clock, registryVars, authorityVars, reports, historyVars>>

ScopeEscape(p) ==
    /\ proxy[p].call.pc = "escape"
    /\ record_risk_signal("mcp_tool_scope_escape")
    /\ SetCall(p, IdleCall)
    /\ UNCHANGED <<clock, registryVars, asked, reports, historyVars>>

decide(r, risk_state) ==
    ApplySessionState(EvaluateBase(Profile, implied_action(r), Resources[r].path),
                      implied_action(r), risk_state, FALSE)

(* The places of the resources of a call that get a given answer.          *)
answered(x, outcome) == {i \in DOMAIN x : decide(x[i], risk).outcome = outcome}

(* The detections the denied ones fire, in their order.                    *)
denial_labels(x) ==
    SelectSeq([i \in DOMAIN x |-> IF i \in answered(x, "deny") THEN decide(x[i], risk).label
                                  ELSE NoLabel],
              LAMBDA l : l # NoLabel)

(* The risk is read once and every resource decided with it.  One denial   *)
(* refuses the call before a lease is touched.                             *)
Preflight(p) ==
    /\ proxy[p].call.pc = "preflight"
    /\ LET x == proxy[p].call.extracted
       IN  SetCall(p, IF answered(x, "deny") # {}
                      THEN IF denial_labels(x) = <<>> THEN IdleCall
                           ELSE [pc |-> "denied", labels |-> denial_labels(x)]
                      ELSE [pc |-> "consume", request |-> proxy[p].call.request,
                            extracted |-> x, bound |-> answered(x, "require_approval")])
    /\ UNCHANGED <<clock, registryVars, authorityVars, reports, historyVars>>

(* authorize_decision of each denied resource, which fires its detection.  *)
RecordDenial(p) ==
    /\ proxy[p].call.pc = "denied"
    /\ record_risk_signal(Head(proxy[p].call.labels))
    /\ SetCall(p, IF Len(proxy[p].call.labels) = 1 THEN IdleCall
                  ELSE [proxy[p].call EXCEPT !.labels = Tail(@)])
    /\ UNCHANGED <<clock, registryVars, asked, reports, historyVars>>

ConsumeLeases(p) ==
    /\ proxy[p].call.pc = "consume"
    /\ LET k       == proxy[p].call
           missing == spent(k).missing
       IN  /\ Spend(k)
           /\ SetCall(p, IF missing = {} THEN [k EXCEPT !.pc = "forward"]
                         ELSE [pc |-> "ask", extracted |-> k.extracted, missing |-> missing])
    /\ UNCHANGED <<clock, registryVars, scores, risk, asked, reports, historyVars>>

(* request_approval for each place without a lease, in their order, so a   *)
(* resource the call names twice may be asked for twice; asking again for  *)
(* what a human refused is probing.                                        *)
RequestApproval(p) ==
    /\ proxy[p].call.pc = "ask"
    /\ LET i == Min(proxy[p].call.missing)
           r == proxy[p].call.extracted[i]
       IN  /\ IF asked[r] = "denied"
              THEN record_risk_signal("capability_escalation_probing") /\ UNCHANGED asked
              ELSE asked' = [asked EXCEPT ![r] = "pending"] /\ UNCHANGED <<scores, risk, leases>>
           /\ SetCall(p, IF proxy[p].call.missing = {i} THEN IdleCall
                         ELSE [proxy[p].call EXCEPT !.missing = @ \ {i}])
    /\ UNCHANGED <<clock, registryVars, reports, historyVars>>

Forward(p) ==
    /\ proxy[p].call.pc = "forward"
    /\ LET c == proxy[p].call.request
       IN  reached' = [reached EXCEPT ![c.tool] =
                         @ \cup {implied_action(r) : r \in Range(extract_resources(c))}]
    /\ usesEnded' = ended(proxy[p].call)
    /\ SetCall(p, IdleCall)
    /\ UNCHANGED <<clock, registryVars, authorityVars, reports>>

-----------------------------------------------------------------------------
ProxyStep(p) ==
    \/ Spawn(p) \/ ProxyDies(p)
    \/ \E id \in RequestIds : RequestToolList(p, id) \/ \E m \in Listings : ServerLists(p, id, m)
    \/ \E c \in Calls : BeginCall(p, c)
    \/ ScopeEscape(p) \/ Preflight(p) \/ RecordDenial(p)
    \/ ConsumeLeases(p) \/ RequestApproval(p) \/ Forward(p)

Next ==
    \/ \E p \in Proxies : ProxyStep(p)
    \/ \E w \in DOMAIN reports : RecordDrift(w)
    \/ Register \/ \E m \in OperatorManifests : OperatorSync(m)
    \/ \E trust \in {"trusted", "quarantined"} : Quarantine(trust)
    \/ \E r \in DOMAIN Resources : Grant(r) \/ DenyApproval(r)
    \/ Contain \/ BinaryReplaced \/ ClockMoves

Spec == Init /\ [][Next]_vars

-----------------------------------------------------------------------------
(* The uses the leases of a resource have lost, and those that calls about *)
(* to be forwarded carry.                                                  *)
Lost(ls, r) ==
    SumFunctionOnSet([i \in DOMAIN ls |-> LeaseUses - ls[i].uses],
                     {i \in DOMAIN ls : ls[i].resource = r})

Forwarding == {p \in Proxies : proxy[p].call.pc = "forward"}
Carried(r) == SumFunctionOnSet([p \in Forwarding |-> Uses(proxy[p].call, r)], Forwarding)

(* A call takes all the leases it needs or none: every use a lease has     *)
(* lost belongs to a call that was forwarded, is about to be, or died      *)
(* holding it, one for each time the call names the resource.  A refused   *)
(* call, one whose second use of a lease finds it spent, revoked or        *)
(* expired included, costs nothing (lease.rs consume_leases_atomically,    *)
(* mcp.rs authorize_mcp_call).                                             *)
RefusalsAreFree ==
    \A r \in DOMAIN Resources : Lost(leases, r) = usesEnded[r] + Carried(r)

(* What a server says of its tools, whenever it says it, gives a call no   *)
(* reach: everything decided in a forwarded call lies within capabilities  *)
(* an operator declared for that tool (mcp_proxy.rs "A server does not get *)
(* to declare its own capabilities through the wire").                     *)
WireGrantsNothing ==
    \A t \in Tools : reached[t] \subseteq declared[t]

(* Once a baseline is recorded no synchronisation, live or by an operator, *)
(* replaces it: the tools, their schemas and their descriptions stay, and  *)
(* capabilities only shrink.  So the same drift is drift the next time     *)
(* (mcp.rs sync_mcp_tools_inner: "evidence about the trusted baseline, not *)
(* permission to replace it").                                             *)
BaselineOnlyNarrows ==
    [][tools # <<>> =>
         /\ DOMAIN tools' = DOMAIN tools
         /\ \A t \in DOMAIN tools :
              /\ tools'[t].schema = tools[t].schema
              /\ tools'[t].description = tools[t].description
              /\ tools'[t].capabilities \subseteq tools[t].capabilities]_vars
=============================================================================
