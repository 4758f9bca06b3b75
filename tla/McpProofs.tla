------------------------------ MODULE McpProofs ------------------------------
(***************************************************************************)
(* What the MCP registry and the proxy promise, for any number of proxies, *)
(* tools, listings, calls and resources: a server's own words give a call  *)
(* no reach, a recorded baseline is never replaced by what was listed, and *)
(* a refused call costs no lease a use.                                    *)
(*                                                                         *)
(* The invariant follows a call from the look at the registry that admits  *)
(* it to the moment it is written to the server.  The registry may change  *)
(* in between, so the call carries what it needs: everything it reaches    *)
(* lies in what operators have declared, a history that only grows.        *)
(*                                                                         *)
(* The leases are an account.  The loop that spends them is a recursive    *)
(* function, shown to exist as far as any turn and followed turn by turn:  *)
(* when no use is missing it has taken as many uses of each resource as    *)
(* the call needs.  What leases have lost then moves with what calls in    *)
(* flight carry and with what has ended.                                   *)
(***************************************************************************)
EXTENDS McpProxy, CountingTheorems, SequenceTheorems

(* A tool's manifest, whoever wrote it.                                    *)
IsManifest(x) ==
    /\ x = [schema |-> x.schema, description |-> x.description, capabilities |-> x.capabilities]
    /\ IsFiniteSet(x.capabilities)

IsTable(m) == DOMAIN m \subseteq Tools /\ \A t \in DOMAIN m : IsManifest(m[t])

(* The call of a proxy's agent side, at each of its places.                *)
IsCall(c) ==
    \/ c = IdleCall
    \/ c = [pc |-> c.pc, request |-> c.request, extracted |-> c.extracted]
       /\ c.pc \in {"preflight", "escape"}
    \/ c = [pc |-> "denied", labels |-> c.labels]
    \/ c = [pc |-> c.pc, request |-> c.request, extracted |-> c.extracted, bound |-> c.bound]
       /\ c.pc \in {"consume", "forward"}
    \/ c = [pc |-> "ask", extracted |-> c.extracted, missing |-> c.missing]

AdmittedPcs == {"preflight", "consume", "forward"}

(* What a call reaches was declared by an operator for its tool.           *)
WithinDeclared(c) ==
    c.pc \in AdmittedPcs =>
        /\ c.request \in Calls
        /\ \A r \in Range(extract_resources(c.request)) :
             implied_action(r) \in declared[c.request.tool]

IsProxy(q) == q = [pc |-> q.pc, call |-> q.call, lists |-> q.lists] /\ IsCall(q.call)

(* A baseline holds no capability nobody declared.                         *)
Registry == IsTable(tools) /\ \A t \in DOMAIN tools : tools[t].capabilities \subseteq declared[t]

Reaching == reached = [t \in Tools |-> reached[t]] /\ WireGrantsNothing

Calling ==
    /\ proxy = [p \in Proxies |-> proxy[p]]
    /\ \A p \in Proxies : IsProxy(proxy[p]) /\ WithinDeclared(proxy[p].call)

McpInv == Registry /\ Reaching /\ Calling

-----------------------------------------------------------------------------
(* Manifests and what is staged of them.                                   *)

LEMMA ManifestsAreTables ==
    ASSUME NEW m \in OperatorManifests \cup Listings
    PROVE  IsTable(m)
  BY McpAssumption DEF IsTable, IsManifest

LEMMA WithCapabilities ==
    ASSUME NEW x, IsManifest(x), NEW c, IsFiniteSet(c)
    PROVE  LET y == [x EXCEPT !.capabilities = c]
           IN  /\ IsManifest(y) /\ y.capabilities = c
               /\ y.schema = x.schema /\ y.description = x.description
  BY DEF IsManifest

LEMMA WireTable ==
    ASSUME NEW m \in Listings
    PROVE  IsTable(wire(m)) /\ \A t \in DOMAIN wire(m) : wire(m)[t].capabilities = {}
<1>1. IsTable(m)
  BY ManifestsAreTables
<1>2. DOMAIN wire(m) = DOMAIN m
  BY DEF wire
<1>3. ASSUME NEW t \in DOMAIN m
      PROVE  IsManifest(wire(m)[t]) /\ wire(m)[t].capabilities = {}
  <2>1. wire(m)[t] = [m[t] EXCEPT !.capabilities = {}]
    BY DEF wire
  <2>2. IsManifest(m[t]) /\ IsFiniteSet({})
    BY <1>1, FS_EmptySet DEF IsTable
  <2> QED
    BY <2>1, <2>2, WithCapabilities
<1> QED
  BY <1>1, <1>2, <1>3 DEF IsTable

(* A live listing leaves a known tool its capabilities.                    *)
LEMMA StagedRows ==
    ASSUME IsTable(tools), NEW m, IsTable(m), NEW live \in BOOLEAN
    PROVE  /\ DOMAIN staged(m, live) = DOMAIN tools \cup DOMAIN m
           /\ IsTable(staged(m, live))
           /\ \A t \in DOMAIN staged(m, live) :
                /\ t \in DOMAIN m /\ ~live => staged(m, live)[t].capabilities = m[t].capabilities
                /\ t \in DOMAIN m /\ t \notin DOMAIN tools =>
                     staged(m, live)[t].capabilities = m[t].capabilities
                /\ t \in DOMAIN tools /\ live =>
                     staged(m, live)[t].capabilities = tools[t].capabilities
                /\ t \in DOMAIN m => /\ staged(m, live)[t].schema = m[t].schema
                                     /\ staged(m, live)[t].description = m[t].description
                /\ t \notin DOMAIN m => staged(m, live)[t] = tools[t]
<1> DEFINE s == staged(m, live)
<1>1. DOMAIN s = DOMAIN tools \cup DOMAIN m
  BY DEF staged
<1>2. ASSUME NEW t \in DOMAIN s
      PROVE  /\ IsManifest(s[t])
             /\ t \in DOMAIN m /\ ~live => s[t].capabilities = m[t].capabilities
             /\ t \in DOMAIN m /\ t \notin DOMAIN tools => s[t].capabilities = m[t].capabilities
             /\ t \in DOMAIN tools /\ live => s[t].capabilities = tools[t].capabilities
             /\ t \in DOMAIN m => s[t].schema = m[t].schema /\ s[t].description = m[t].description
             /\ t \notin DOMAIN m => s[t] = tools[t]
  <2>1. CASE t \notin DOMAIN m
    <3>1. s[t] = tools[t] /\ t \in DOMAIN tools
      BY <1>1, <2>1 DEF staged
    <3> QED
      BY <2>1, <3>1 DEF IsTable
  <2>2. CASE t \in DOMAIN m /\ live /\ t \in DOMAIN tools
    <3>1. s[t] = [m[t] EXCEPT !.capabilities = tools[t].capabilities]
      BY <1>1, <2>2 DEF staged
    <3>2. IsManifest(m[t]) /\ IsFiniteSet(tools[t].capabilities)
      BY <2>2 DEF IsTable, IsManifest
    <3> HIDE DEF s
    <3> QED
      BY <2>2, <3>1, <3>2, WithCapabilities
  <2>3. CASE t \in DOMAIN m /\ ~(live /\ t \in DOMAIN tools)
    <3>1. s[t] = m[t]
      BY <1>1, <2>3 DEF staged
    <3> QED
      BY <2>3, <3>1 DEF IsTable
  <2> QED
    BY <2>1, <2>2, <2>3
<1> HIDE DEF s
<1>3. IsTable(s)
  BY <1>1, <1>2 DEF IsTable
<1> QED
  BY <1>1, <1>2, <1>3 DEF s
-----------------------------------------------------------------------------
(* What an empty drift says of a listing.                                  *)

LEMMA FiniteImage ==
    ASSUME NEW S, IsFiniteSet(S), NEW f, DOMAIN f = S
    PROVE  IsFiniteSet({f[x] : x \in S})
<1> DEFINE T == {f[x] : x \in S}
           g == [x \in S |-> f[x]]
<1>1. g \in Surjection(S, T)
  BY DEF Surjection
<1> HIDE DEF T, g
<1>2. IsFiniteSet(T)
  BY <1>1, FS_Surjection
<1> QED
  BY <1>2 DEF T

LEMMA ChangesAreFinite ==
    ASSUME IsTable(tools), NEW m, IsTable(m)
    PROVE  IsFiniteSet(changes(m))
<1> DEFINE g == [t \in DOMAIN m |-> m[t].capabilities]
           K == UNION {g[t] : t \in DOMAIN m}
           L == {"removed", "added", "schema", "description"}
<1>1. IsFiniteSet(DOMAIN m) /\ IsFiniteSet(Tools)
  BY McpAssumption, FS_Subset DEF IsTable
<1>2. \A t \in DOMAIN m : IsFiniteSet(g[t])
  BY DEF IsTable, IsManifest
<1>3. DOMAIN g = DOMAIN m
  OBVIOUS
<1>k. \A t \in DOMAIN m : m[t].capabilities \subseteq K
  OBVIOUS
<1> HIDE DEF g
<1>4. IsFiniteSet({g[t] : t \in DOMAIN m})
  BY <1>1, <1>3, FiniteImage
<1>5. IsFiniteSet(K)
  BY <1>2, <1>4, FS_UNION
<1>6. IsFiniteSet(L)
  <2>1. IsFiniteSet({"removed"}) /\ IsFiniteSet({"added"}) /\ IsFiniteSet({"schema"})
        /\ IsFiniteSet({"description"})
    BY FS_Singleton
  <2>2. IsFiniteSet({"removed"} \cup {"added"}) /\ IsFiniteSet({"schema"} \cup {"description"})
    BY <2>1, FS_Union
  <2>3. IsFiniteSet(({"removed"} \cup {"added"}) \cup ({"schema"} \cup {"description"}))
    BY <2>2, FS_Union
  <2>4. L = ({"removed"} \cup {"added"}) \cup ({"schema"} \cup {"description"})
    OBVIOUS
  <2> QED
    BY <2>3, <2>4
<1> HIDE DEF K, L
<1>7. IsFiniteSet((L \cup K) \X Tools)
  BY <1>1, <1>5, <1>6, FS_Union, FS_Product
<1>8. changes(m) \subseteq (L \cup K) \X Tools
  <2>1. gone(m) \subseteq (L \cup K) \X Tools
    BY DEF gone, L, IsTable
  <2>2. come(m) \subseteq (L \cup K) \X Tools
    BY DEF come, L, IsTable
  <2>3. reworded(m, "schema") \cup reworded(m, "description") \subseteq (L \cup K) \X Tools
    BY DEF reworded, L, IsTable
  <2>4. gained(m) \subseteq (L \cup K) \X Tools
    BY <1>k DEF gained, IsTable
  <2> QED
    BY <2>1, <2>2, <2>3, <2>4 DEF changes
<1> QED
  BY <1>7, <1>8, FS_Subset

(* drift finds nothing only where nothing changed.                         *)
LEMMA NoDrift ==
    ASSUME IsTable(tools), NEW m, IsTable(m), NEW observed, drift(m, observed) = <<>>
    PROVE  changes(m) = {}
<1> DEFINE sub == IF observed \in {NoHash, server.hash} THEN <<>> ELSE <<"mcp_server_substitution">>
           n == Cardinality(changes(m))
           d == [i \in 1..n |-> "mcp_capability_drift"]
           S == {"mcp_server_substitution", "mcp_capability_drift"}
<1>1. drift(m, observed) = sub \o d
  BY DEF drift
<1>2. IsFiniteSet(changes(m))
  BY ChangesAreFinite
<1>3. n \in Nat
  BY <1>2, FS_CardinalityType
<1>4. sub \in Seq(S)
  <2>1. <<>> \in Seq(S) /\ <<"mcp_server_substitution">> \in Seq(S)
    OBVIOUS
  <2> QED
    BY <2>1
<1> HIDE DEF n
<1>5. d \in Seq(S) /\ Len(d) = n
  BY <1>3
<1> HIDE DEF sub, d, S
<1>6. Len(sub \o d) = Len(sub) + Len(d) /\ Len(sub) \in Nat
  BY <1>4, <1>5, ConcatProperties, LenProperties
<1>7. n = 0
  BY <1>1, <1>3, <1>5, <1>6
<1> QED
  BY <1>2, <1>7, FS_EmptySet DEF n

LEMMA NoDriftMeansAlike ==
    ASSUME IsTable(tools), NEW m, IsTable(m), NEW observed, drift(m, observed) = <<>>, tools # <<>>
    PROVE  /\ DOMAIN m = DOMAIN tools
           /\ \A t \in DOMAIN tools : /\ m[t].schema = tools[t].schema
                                      /\ m[t].description = tools[t].description
                                      /\ m[t].capabilities \subseteq tools[t].capabilities
<1>0. /\ gone(m) = {} /\ come(m) = {} /\ gained(m) = {}
      /\ reworded(m, "schema") = {} /\ reworded(m, "description") = {}
  BY NoDrift DEF changes
<1>1. DOMAIN m = DOMAIN tools
  BY <1>0 DEF gone, come
<1>2. ASSUME NEW t \in DOMAIN tools
      PROVE  m[t].schema = tools[t].schema
  <2>1. m[t]["schema"] # tools[t]["schema"] => <<"schema", t>> \in reworded(m, "schema")
    BY <1>1 DEF reworded
  <2> QED
    BY <1>0, <2>1
<1>3. ASSUME NEW t \in DOMAIN tools
      PROVE  m[t].description = tools[t].description
  <2>1. m[t]["description"] # tools[t]["description"] => <<"description", t>> \in reworded(m, "description")
    BY <1>1 DEF reworded
  <2> QED
    BY <1>0, <2>1
<1>4. ASSUME NEW t \in DOMAIN tools, NEW c \in m[t].capabilities
      PROVE  c \in tools[t].capabilities
  <2>1. ASSUME c \notin tools[t].capabilities PROVE <<c, t>> \in gained(m)
    <3>1. c \in m[t].capabilities \ tools[t].capabilities /\ t \in DOMAIN m \cap DOMAIN tools
      BY <1>1, <2>1
    <3> QED
      BY <3>1 DEF gained
  <2> QED
    BY <1>0, <2>1
<1> QED
  BY <1>1, <1>2, <1>3, <1>4
-----------------------------------------------------------------------------
(* Steps of a proxy.                                                       *)

(* A step of one proxy that leaves the registry as it was, or brings it to *)
(* another good one.                                                       *)
LEMMA ProxyKeeps ==
    ASSUME McpInv, NEW p \in Proxies, NEW q, IsProxy(q), WithinDeclared(q.call),
           proxy' = [proxy EXCEPT ![p] = q], declared' = declared, Registry', Reaching'
    PROVE  McpInv'
<1>1. proxy = [k \in Proxies |-> proxy[k]] /\ \A k \in Proxies : IsProxy(proxy[k]) /\ WithinDeclared(proxy[k].call)
  BY DEF McpInv, Calling
<1>2. proxy' = [k \in Proxies |-> IF k = p THEN q ELSE proxy[k]]
  BY <1>1
<1>3. proxy' = [k \in Proxies |-> proxy'[k]]
  BY <1>2
<1>4. \A k \in Proxies : IsProxy(proxy'[k])
  BY <1>1, <1>2
<1>5. ASSUME NEW k \in Proxies PROVE WithinDeclared(proxy[k].call)'
  <2>1. CASE k = p
    BY <1>2, <2>1 DEF WithinDeclared, AdmittedPcs
  <2>2. CASE k # p
    BY <1>1, <1>2, <2>2 DEF WithinDeclared, AdmittedPcs
  <2> QED
    BY <2>1, <2>2
<1> QED
  BY <1>3, <1>4, <1>5 DEF McpInv, Calling

LEMMA SameRegistry ==
    ASSUME McpInv, UNCHANGED <<tools, declared>>
    PROVE  Registry'
  BY DEF McpInv, Registry, IsTable, IsManifest

LEMMA SameReach ==
    ASSUME McpInv, UNCHANGED <<declared, reached>>
    PROVE  Reaching'
  BY DEF McpInv, Reaching, WireGrantsNothing

(* A step that moves a proxy's call and touches neither registry.          *)
LEMMA CallKeeps ==
    ASSUME McpInv, NEW p \in Proxies, NEW c, IsCall(c), WithinDeclared(c), SetCall(p, c),
           UNCHANGED registryVars, Reaching'
    PROVE  McpInv'
<1> DEFINE q == [proxy[p] EXCEPT !.call = c]
<1>1. proxy' = [proxy EXCEPT ![p] = q]
  BY DEF SetCall
<1>2. IsProxy(q) /\ q.call = c
  BY DEF McpInv, Calling, IsProxy
<1>3. Registry'
  BY SameRegistry DEF registryVars
<1>4. declared' = declared
  BY DEF registryVars
<1> HIDE DEF q
<1> QED
  BY <1>1, <1>2, <1>3, <1>4, ProxyKeeps

(* A step that moves no proxy and no registry.                             *)
LEMMA QuietKeeps ==
    ASSUME McpInv, UNCHANGED <<tools, declared, proxy, reached>>
    PROVE  McpInv'
  BY SameRegistry, SameReach DEF McpInv, Calling, IsProxy, IsCall, IdleCall, WithinDeclared, AdmittedPcs

-----------------------------------------------------------------------------
(* The steps, one after the other.                                         *)

LEMMA McpInitially == Init => McpInv
<1> SUFFICES ASSUME Init PROVE McpInv
  OBVIOUS
<1>1. Registry
  BY DEF Init, Registry, IsTable
<1>2. Reaching
  BY DEF Init, Reaching, WireGrantsNothing
<1>3. Calling
  BY DEF Init, Calling, IsProxy, NoProxy, IsCall, IdleCall, WithinDeclared, AdmittedPcs
<1> QED
  BY <1>1, <1>2, <1>3 DEF McpInv

(* A synchronisation adds to a baseline what an operator declared with it. *)
LEMMA OperatorSyncKeeps ==
    ASSUME McpInv, NEW m \in OperatorManifests, OperatorSync(m)
    PROVE  McpInv'
<1>0. IsTable(tools) /\ IsTable(m) /\ UNCHANGED <<proxy, reached>>
  BY ManifestsAreTables DEF McpInv, Registry, OperatorSync, historyVars
<1>1. PICK observed \in {disk, NoHash} :
        /\ Sync(m, drift(m, observed), FALSE)
        /\ declared' = [t \in Tools |-> declared[t] \cup
                          IF drift(m, observed) = <<>> /\ t \in DOMAIN m THEN m[t].capabilities ELSE {}]
  BY DEF OperatorSync
<1>2. \A t \in Tools : declared[t] \subseteq declared'[t]
  BY <1>1
<1>3. Registry'
  <2>1. CASE drift(m, observed) = <<>>
    <3>1. tools' = staged(m, FALSE)
      BY <1>1, <2>1 DEF Sync
    <3>2. IsTable(tools')
      BY <1>0, <3>1, StagedRows
    <3>3. ASSUME NEW t \in DOMAIN tools' PROVE tools'[t].capabilities \subseteq declared'[t]
      <4>1. t \in Tools /\ t \in DOMAIN tools \cup DOMAIN m
        BY <1>0, <3>1, StagedRows DEF IsTable
      <4>2. CASE t \in DOMAIN m
        <5>1. tools'[t].capabilities = m[t].capabilities
          BY <1>0, <3>1, <3>3, <4>2, StagedRows
        <5> QED
          BY <1>1, <2>1, <4>1, <4>2, <5>1
      <4>3. CASE t \notin DOMAIN m
        <5>1. tools'[t].capabilities = tools[t].capabilities /\ t \in DOMAIN tools
          BY <1>0, <3>1, <3>3, <4>1, <4>3, StagedRows
        <5> QED
          BY <1>2, <4>1, <5>1 DEF McpInv, Registry
      <4> QED
        BY <4>2, <4>3
    <3> QED
      BY <3>2, <3>3 DEF Registry
  <2>2. CASE drift(m, observed) # <<>>
    BY <1>0, <1>1, <1>2, <2>2 DEF Sync, McpInv, Registry, IsTable, IsManifest
  <2> QED
    BY <2>1, <2>2
<1>4. Reaching'
  BY <1>0, <1>2 DEF McpInv, Reaching, WireGrantsNothing
<1>5. ASSUME NEW p \in Proxies PROVE IsProxy(proxy[p])' /\ WithinDeclared(proxy[p].call)'
  <2>1. IsProxy(proxy[p]) /\ WithinDeclared(proxy[p].call) /\ proxy' = proxy
    BY <1>0 DEF McpInv, Calling
  <2>2. IsProxy(proxy[p])'
    BY <2>1
  <2>3. proxy[p].call.pc \in AdmittedPcs => proxy[p].call.request.tool \in Tools
    BY <2>1, McpAssumption DEF WithinDeclared
  <2> QED
    BY <1>2, <2>1, <2>2, <2>3 DEF WithinDeclared
<1>6. Calling'
  BY <1>0, <1>5 DEF McpInv, Calling
<1> QED
  BY <1>3, <1>4, <1>6 DEF McpInv

(* A listing leaves known tools their capabilities and gives new ones none.*)
LEMMA ServerListsKeeps ==
    ASSUME McpInv, NEW p \in Proxies, NEW id, NEW listing \in Listings, ServerLists(p, id, listing)
    PROVE  McpInv'
<1> DEFINE m == wire(listing)
           q == [proxy[p] EXCEPT !.lists = @ \ {id}]
<1>0. IsTable(tools) /\ IsTable(m) /\ UNCHANGED <<declared, reached>>
  BY WireTable DEF McpInv, Registry, ServerLists, historyVars
<1>1. Sync(m, drift(m, NoHash), TRUE) /\ proxy' = [proxy EXCEPT ![p] = q]
  BY DEF ServerLists
<1>2. \A t \in DOMAIN m : m[t].capabilities = {}
  BY WireTable
<1> HIDE DEF m
<1>3. Registry'
  <2>1. CASE drift(m, NoHash) = <<>>
    <3>1. tools' = staged(m, TRUE)
      BY <1>1, <2>1 DEF Sync
    <3>2. IsTable(tools')
      BY <1>0, <3>1, StagedRows
    <3>3. ASSUME NEW t \in DOMAIN tools' PROVE tools'[t].capabilities \subseteq declared[t]
      <4>1. t \in DOMAIN tools \cup DOMAIN m
        BY <1>0, <3>1, StagedRows
      <4>2. CASE t \in DOMAIN tools
        <5>1. tools'[t].capabilities = tools[t].capabilities
          BY <1>0, <3>1, <3>3, <4>2, StagedRows
        <5> QED
          BY <4>2, <5>1 DEF McpInv, Registry
      <4>3. CASE t \notin DOMAIN tools
        <5>1. tools'[t].capabilities = {}
          BY <1>0, <1>2, <3>1, <3>3, <4>1, <4>3, StagedRows
        <5> QED
          BY <5>1
      <4> QED
        BY <4>2, <4>3
    <3> QED
      BY <1>0, <3>2, <3>3 DEF Registry
  <2>2. CASE drift(m, NoHash) # <<>>
    BY <1>0, <1>1, <2>2, SameRegistry DEF Sync
  <2> QED
    BY <2>1, <2>2
<1>4. IsProxy(q) /\ q.call = proxy[p].call /\ WithinDeclared(proxy[p].call)
  <2>1. IsProxy(proxy[p]) /\ WithinDeclared(proxy[p].call)
    BY DEF McpInv, Calling
  <2>2. q = [pc |-> proxy[p].pc, call |-> proxy[p].call, lists |-> proxy[p].lists \ {id}]
    BY <2>1 DEF IsProxy
  <2> HIDE DEF q
  <2>3. q.pc = proxy[p].pc /\ q.call = proxy[p].call /\ q.lists = proxy[p].lists \ {id}
    BY <2>2
  <2> QED
    BY <2>1, <2>2, <2>3 DEF IsProxy
<1>5. Reaching'
  BY <1>0, SameReach
<1> HIDE DEF q
<1> QED
  BY <1>0, <1>1, <1>3, <1>4, <1>5, ProxyKeeps

(* What the baseline covers when the call is admitted was declared.        *)
LEMMA BeginCallKeeps ==
    ASSUME McpInv, NEW p \in Proxies, NEW c \in Calls, BeginCall(p, c)
    PROVE  McpInv'
<1> DEFINE x == extract_resources(c)
           escapes == {i \in DOMAIN x : implied_action(x[i]) \notin tools[c.tool].capabilities}
           k == [pc |-> IF escapes = {} THEN "preflight" ELSE "escape", request |-> c, extracted |-> x]
<1>1. SetCall(p, k) /\ UNCHANGED registryVars /\ UNCHANGED historyVars /\ c.tool \in DOMAIN tools
  BY DEF BeginCall
<1>2. tools[c.tool].capabilities \subseteq declared[c.tool]
  BY <1>1 DEF McpInv, Registry
<1>3. escapes = {} => \A r \in Range(x) : implied_action(r) \in declared[c.tool]
  BY <1>2 DEF Range
<1> HIDE DEF escapes, x
<1>4. IsCall(k)
  BY DEF IsCall
<1>5. WithinDeclared(k)
  BY <1>3 DEF WithinDeclared, AdmittedPcs, x
<1>6. Reaching'
  BY <1>1, SameReach DEF registryVars, historyVars
<1> HIDE DEF k
<1> QED
  BY <1>1, <1>4, <1>5, <1>6, CallKeeps

LEMMA ForwardKeeps ==
    ASSUME McpInv, NEW p \in Proxies, Forward(p)
    PROVE  McpInv'
<1> DEFINE c == proxy[p].call.request
           new == {implied_action(r) : r \in Range(extract_resources(c))}
<1>1. /\ reached' = [reached EXCEPT ![c.tool] = @ \cup new]
      /\ SetCall(p, IdleCall) /\ UNCHANGED registryVars
  BY DEF Forward
<1>2. c \in Calls /\ new \subseteq declared[c.tool]
  BY DEF Forward, McpInv, Calling, WithinDeclared, AdmittedPcs
<1>3. c.tool \in Tools
  BY <1>2, McpAssumption
<1> HIDE DEF new, c
<1>4. Reaching'
  BY <1>1, <1>2, <1>3 DEF McpInv, Reaching, WireGrantsNothing, registryVars
<1>5. IsCall(IdleCall) /\ WithinDeclared(IdleCall)
  BY DEF IsCall, IdleCall, WithinDeclared, AdmittedPcs
<1> QED
  BY <1>1, <1>4, <1>5, CallKeeps

LEMMA IdleIsFine == IsCall(IdleCall) /\ WithinDeclared(IdleCall)
  BY DEF IsCall, IdleCall, WithinDeclared, AdmittedPcs

(* The record of a call by its place.                                      *)
LEMMA CallAt ==
    ASSUME NEW c, IsCall(c)
    PROVE  /\ c.pc = "denied" => c = [pc |-> "denied", labels |-> c.labels]
           /\ c.pc \in {"consume", "forward"} =>
                c = [pc |-> c.pc, request |-> c.request, extracted |-> c.extracted, bound |-> c.bound]
           /\ c.pc = "ask" => c = [pc |-> "ask", extracted |-> c.extracted, missing |-> c.missing]
<1>1. CASE c = IdleCall
  <2>1. c.pc = "idle"
    BY <1>1 DEF IdleCall
  <2> QED
    BY <2>1
<1>2. CASE c.pc \in {"preflight", "escape"}
  BY <1>2
<1>3. CASE c = [pc |-> "denied", labels |-> c.labels]
  <2>1. c.pc = "denied"
    BY <1>3
  <2> QED
    BY <1>3, <2>1
<1>4. CASE /\ c = [pc |-> c.pc, request |-> c.request, extracted |-> c.extracted, bound |-> c.bound]
           /\ c.pc \in {"consume", "forward"}
  BY <1>4
<1>5. CASE c = [pc |-> "ask", extracted |-> c.extracted, missing |-> c.missing]
  <2>1. c.pc = "ask"
    BY <1>5
  <2> QED
    BY <1>5, <2>1
<1> QED
  BY <1>1, <1>2, <1>3, <1>4, <1>5 DEF IsCall

LEMMA PreflightKeeps ==
    ASSUME McpInv, NEW p \in Proxies, Preflight(p)
    PROVE  McpInv'
<1> DEFINE x == proxy[p].call.extracted
           labels == denial_labels(x)
           bound == answered(x, "require_approval")
           refusal == [pc |-> "denied", labels |-> labels]
           admission == [pc |-> "consume", request |-> proxy[p].call.request, extracted |-> x,
                         bound |-> bound]
<1>1. /\ SetCall(p, IdleCall) \/ SetCall(p, refusal) \/ SetCall(p, admission)
      /\ UNCHANGED registryVars /\ UNCHANGED historyVars
  BY DEF Preflight
<1>2. Reaching'
  BY <1>1, SameReach DEF registryVars, historyVars
<1>3. /\ proxy[p].call.request \in Calls
      /\ \A r \in Range(extract_resources(proxy[p].call.request)) :
           implied_action(r) \in declared[proxy[p].call.request.tool]
  BY DEF McpInv, Calling, WithinDeclared, AdmittedPcs, Preflight
<1> HIDE DEF labels, bound
<1>4. IsCall(refusal) /\ WithinDeclared(refusal)
  BY DEF IsCall, WithinDeclared, AdmittedPcs
<1>5. IsCall(admission)
  BY DEF IsCall
<1>6. WithinDeclared(admission)
  BY <1>3 DEF WithinDeclared
<1> HIDE DEF refusal, admission
<1> QED
  BY <1>1, <1>2, <1>4, <1>5, <1>6, IdleIsFine, CallKeeps

LEMMA RecordDenialKeeps ==
    ASSUME McpInv, NEW p \in Proxies, RecordDenial(p)
    PROVE  McpInv'
<1> DEFINE k == proxy[p].call
           rest == [k EXCEPT !.labels = Tail(@)]
<1>1. /\ SetCall(p, IdleCall) \/ SetCall(p, rest)
      /\ UNCHANGED registryVars /\ UNCHANGED historyVars /\ k.pc = "denied"
  BY DEF RecordDenial
<1>2. Reaching'
  BY <1>1, SameReach DEF registryVars, historyVars
<1>3. k = [pc |-> "denied", labels |-> k.labels]
  BY <1>1, CallAt DEF McpInv, Calling, IsProxy
<1> DEFINE tail == Tail(k.labels)
<1>r. rest = [k EXCEPT !.labels = tail]
  OBVIOUS
<1> HIDE DEF k, rest, tail
<1>4. rest = [pc |-> "denied", labels |-> tail]
  BY <1>3, <1>r
<1>5. IsCall(rest) /\ WithinDeclared(rest)
  BY <1>4 DEF IsCall, WithinDeclared, AdmittedPcs
<1> QED
  BY <1>1, <1>2, <1>5, IdleIsFine, CallKeeps

LEMMA ConsumeLeasesKeeps ==
    ASSUME McpInv, NEW p \in Proxies, ConsumeLeases(p)
    PROVE  McpInv'
<1> DEFINE k == proxy[p].call
           gaps == spent(k).missing
           go == [k EXCEPT !.pc = "forward"]
           ask == [pc |-> "ask", extracted |-> k.extracted, missing |-> gaps]
<1>1. /\ SetCall(p, go) \/ SetCall(p, ask)
      /\ UNCHANGED registryVars /\ UNCHANGED historyVars /\ k.pc = "consume"
  BY DEF ConsumeLeases
<1>2. Reaching'
  BY <1>1, SameReach DEF registryVars, historyVars
<1>3. /\ k = [pc |-> "consume", request |-> k.request, extracted |-> k.extracted, bound |-> k.bound]
      /\ WithinDeclared(k)
  BY <1>1, CallAt DEF McpInv, Calling, IsProxy
<1> HIDE DEF k, gaps
<1>4. go = [pc |-> "forward", request |-> k.request, extracted |-> k.extracted, bound |-> k.bound]
  BY <1>3
<1> HIDE DEF go
<1>5. IsCall(go)
  BY <1>4 DEF IsCall
<1>6. WithinDeclared(go)
  BY <1>3, <1>4 DEF WithinDeclared, AdmittedPcs
<1>7. IsCall(ask) /\ WithinDeclared(ask)
  BY DEF IsCall, WithinDeclared, AdmittedPcs
<1> HIDE DEF ask
<1> QED
  BY <1>1, <1>2, <1>5, <1>6, <1>7, CallKeeps

LEMMA RequestApprovalKeeps ==
    ASSUME McpInv, NEW p \in Proxies, RequestApproval(p)
    PROVE  McpInv'
<1> DEFINE k == proxy[p].call
<1>1. PICK i : SetCall(p, IdleCall) \/ SetCall(p, [k EXCEPT !.missing = @ \ {i}])
  BY DEF RequestApproval
<1>2. UNCHANGED registryVars /\ UNCHANGED historyVars /\ k.pc = "ask"
  BY DEF RequestApproval
<1> DEFINE rest == [k EXCEPT !.missing = @ \ {i}]
<1>3. Reaching'
  BY <1>2, SameReach DEF registryVars, historyVars
<1>4. k = [pc |-> "ask", extracted |-> k.extracted, missing |-> k.missing]
  BY <1>2, CallAt DEF McpInv, Calling, IsProxy
<1>5. SetCall(p, IdleCall) \/ SetCall(p, rest)
  BY <1>1
<1> HIDE DEF k
<1>6. rest = [pc |-> "ask", extracted |-> k.extracted, missing |-> k.missing \ {i}]
  BY <1>4
<1> HIDE DEF rest
<1>7. IsCall(rest) /\ WithinDeclared(rest)
  BY <1>6 DEF IsCall, WithinDeclared, AdmittedPcs
<1> QED
  BY <1>2, <1>3, <1>5, <1>7, IdleIsFine, CallKeeps

(* The process itself comes, goes and remembers identifiers.               *)
LEMMA ProxyLifeKeeps ==
    ASSUME McpInv, NEW p \in Proxies, Spawn(p) \/ ProxyDies(p) \/ \E id \in RequestIds : RequestToolList(p, id)
    PROVE  McpInv'
<1>0. UNCHANGED <<tools, declared, reached>> /\ Registry' /\ Reaching'
  BY SameRegistry, SameReach DEF Spawn, ProxyDies, RequestToolList, registryVars, historyVars
<1>1. IsProxy(proxy[p]) /\ WithinDeclared(proxy[p].call)
  BY DEF McpInv, Calling
<1>2. CASE Spawn(p)
  <2> DEFINE q == [proxy[p] EXCEPT !.pc = "up"]
  <2>1. proxy' = [proxy EXCEPT ![p] = q]
    BY <1>2 DEF Spawn
  <2>2. IsProxy(q) /\ q.call = proxy[p].call
    BY <1>1 DEF IsProxy
  <2> HIDE DEF q
  <2> QED
    BY <1>0, <1>1, <2>1, <2>2, ProxyKeeps
<1>3. CASE ProxyDies(p)
  <2>1. proxy' = [proxy EXCEPT ![p] = NoProxy]
    BY <1>3 DEF ProxyDies
  <2>2. IsProxy(NoProxy) /\ NoProxy.call = IdleCall
    BY IdleIsFine DEF IsProxy, NoProxy
  <2> QED
    BY <1>0, <2>1, <2>2, IdleIsFine, ProxyKeeps
<1>4. CASE \E id \in RequestIds : RequestToolList(p, id)
  <2>1. PICK id \in RequestIds : RequestToolList(p, id)
    BY <1>4
  <2> DEFINE q == [proxy[p] EXCEPT !.lists = @ \cup {id}]
  <2>2. proxy' = [proxy EXCEPT ![p] = q]
    BY <2>1 DEF RequestToolList
  <2>3. q = [pc |-> proxy[p].pc, call |-> proxy[p].call, lists |-> proxy[p].lists \cup {id}]
    BY <1>1 DEF IsProxy
  <2> HIDE DEF q
  <2>4. q.pc = proxy[p].pc /\ q.call = proxy[p].call /\ q.lists = proxy[p].lists \cup {id}
    BY <2>3
  <2>5. IsProxy(q)
    BY <1>1, <2>3, <2>4 DEF IsProxy
  <2> QED
    BY <1>0, <1>1, <2>2, <2>4, <2>5, ProxyKeeps
<1> QED
  BY <1>2, <1>3, <1>4

LEMMA McpKept ==
    ASSUME McpInv, [Next]_vars
    PROVE  McpInv'
<1>1. ASSUME NEW p \in Proxies, ProxyStep(p) PROVE McpInv'
  <2>1. CASE Spawn(p) \/ ProxyDies(p) \/ \E id \in RequestIds : RequestToolList(p, id)
    BY <2>1, ProxyLifeKeeps
  <2>2. CASE \E id \in RequestIds : \E m \in Listings : ServerLists(p, id, m)
    BY <2>2, ServerListsKeeps
  <2>3. CASE \E c \in Calls : BeginCall(p, c)
    BY <2>3, BeginCallKeeps
  <2>4. CASE ScopeEscape(p)
    <3>1. SetCall(p, IdleCall) /\ UNCHANGED registryVars /\ UNCHANGED historyVars
      BY <2>4 DEF ScopeEscape
    <3>2. Reaching'
      BY <3>1, SameReach DEF registryVars, historyVars
    <3> QED
      BY <3>1, <3>2, IdleIsFine, CallKeeps
  <2>5. CASE Preflight(p)
    BY <2>5, PreflightKeeps
  <2>6. CASE RecordDenial(p)
    BY <2>6, RecordDenialKeeps
  <2>7. CASE ConsumeLeases(p)
    BY <2>7, ConsumeLeasesKeeps
  <2>8. CASE RequestApproval(p)
    BY <2>8, RequestApprovalKeeps
  <2>9. CASE Forward(p)
    BY <2>9, ForwardKeeps
  <2> QED
    BY <1>1, <2>1, <2>2, <2>3, <2>4, <2>5, <2>6, <2>7, <2>8, <2>9 DEF ProxyStep
<1>2. ASSUME NEW m \in OperatorManifests, OperatorSync(m) PROVE McpInv'
  BY <1>2, OperatorSyncKeeps
<1>3. CASE UNCHANGED <<tools, declared, proxy, reached>>
  BY <1>3, QuietKeeps
<1>4. ASSUME NEW w \in DOMAIN reports, RecordDrift(w) PROVE UNCHANGED <<tools, declared, proxy, reached>>
  BY <1>4 DEF RecordDrift, registryVars, historyVars
<1>5. CASE Register \/ Contain \/ BinaryReplaced \/ ClockMoves
  BY <1>3, <1>5 DEF Register, Contain, BinaryReplaced, ClockMoves, registryVars, historyVars
<1>6. ASSUME NEW trust \in {"trusted", "quarantined"}, Quarantine(trust)
      PROVE  UNCHANGED <<tools, declared, proxy, reached>>
  BY <1>6 DEF Quarantine, historyVars
<1>7. ASSUME NEW r \in DOMAIN Resources, Grant(r) \/ DenyApproval(r)
      PROVE  UNCHANGED <<tools, declared, proxy, reached>>
  BY <1>7 DEF Grant, DenyApproval, registryVars, historyVars
<1>8. CASE UNCHANGED vars
  BY <1>3, <1>8 DEF vars
<1> QED
  BY <1>1, <1>2, <1>3, <1>4, <1>5, <1>6, <1>7, <1>8 DEF Next

(* The invariant holds throughout: baselines and calls in flight stay      *)
(* within what operators have declared (mcp.rs authorize_mcp_call,         *)
(* sync_mcp_tools_inner).                                                  *)
THEOREM McpInvariant == Spec => []McpInv
<1>1. McpInv /\ [Next]_vars => McpInv'
  BY McpKept
<1> QED
  BY <1>1, McpInitially, PTL DEF Spec

(* Whatever servers list, whenever they list it and whatever is in flight, *)
(* no forwarded call reaches beyond the capabilities an operator declared  *)
(* for its tool (mcp_proxy.rs inspect_server_message).                     *)
THEOREM ServersGrantNothing == Spec => []WireGrantsNothing
<1>1. McpInv => WireGrantsNothing
  BY DEF McpInv, Reaching
<1> QED
  BY <1>1, McpInvariant, PTL

-----------------------------------------------------------------------------
(* What a synchronisation may do to a recorded baseline.                   *)
Narrowed ==
    /\ DOMAIN tools' = DOMAIN tools
    /\ \A t \in DOMAIN tools :
         /\ tools'[t].schema = tools[t].schema
         /\ tools'[t].description = tools[t].description
         /\ tools'[t].capabilities \subseteq tools[t].capabilities

LEMMA SyncNarrows ==
    ASSUME IsTable(tools), tools # <<>>, NEW m, IsTable(m), NEW observed, NEW live \in BOOLEAN,
           Sync(m, drift(m, observed), live)
    PROVE  Narrowed
<1>1. CASE drift(m, observed) # <<>>
  BY <1>1 DEF Sync, Narrowed
<1>2. CASE drift(m, observed) = <<>>
  <2>1. tools' = staged(m, live)
    BY <1>2 DEF Sync
  <2>2. /\ DOMAIN m = DOMAIN tools
        /\ \A t \in DOMAIN tools : /\ m[t].schema = tools[t].schema
                                   /\ m[t].description = tools[t].description
                                   /\ m[t].capabilities \subseteq tools[t].capabilities
    BY <1>2, NoDriftMeansAlike
  <2>3. DOMAIN tools' = DOMAIN tools
    BY <2>1, <2>2, StagedRows
  <2>4. ASSUME NEW t \in DOMAIN tools
        PROVE  /\ tools'[t].schema = m[t].schema /\ tools'[t].description = m[t].description
               /\ \/ tools'[t].capabilities = m[t].capabilities
                  \/ tools'[t].capabilities = tools[t].capabilities
    <3>1. t \in DOMAIN m /\ t \in DOMAIN tools'
      BY <2>2, <2>3
    <3>2. tools'[t].schema = m[t].schema /\ tools'[t].description = m[t].description
      BY <2>1, <3>1, StagedRows
    <3>3. CASE live
      BY <2>1, <3>1, <3>2, <3>3, StagedRows
    <3>4. CASE ~live
      BY <2>1, <3>1, <3>2, <3>4, StagedRows
    <3> QED
      BY <3>3, <3>4
  <2> QED
    BY <2>2, <2>3, <2>4 DEF Narrowed
<1> QED
  BY <1>1, <1>2

LEMMA BaselineKept ==
    ASSUME McpInv, [Next]_vars, tools # <<>>
    PROVE  Narrowed
<1>0. IsTable(tools)
  BY DEF McpInv, Registry
<1>1. CASE tools' = tools
  BY <1>1 DEF Narrowed
<1>2. ASSUME NEW m \in OperatorManifests, OperatorSync(m) PROVE Narrowed
  <2>1. PICK observed \in {disk, NoHash} : Sync(m, drift(m, observed), FALSE)
    BY <1>2 DEF OperatorSync
  <2> QED
    BY <1>0, <2>1, ManifestsAreTables, SyncNarrows
<1>3. ASSUME NEW p \in Proxies, NEW id \in RequestIds, NEW m \in Listings, ServerLists(p, id, m)
      PROVE  Narrowed
  <2>1. Sync(wire(m), drift(wire(m), NoHash), TRUE) /\ IsTable(wire(m))
    BY <1>3, WireTable DEF ServerLists
  <2> QED
    BY <1>0, <2>1, SyncNarrows
<1>4. ASSUME NEW p \in Proxies, ProxyStep(p),
             ~ \E id \in RequestIds : \E m \in Listings : ServerLists(p, id, m)
      PROVE  tools' = tools
  BY <1>4 DEF ProxyStep, Spawn, ProxyDies, RequestToolList, BeginCall, ScopeEscape, Preflight,
              RecordDenial, ConsumeLeases, RequestApproval, Forward, registryVars
<1>5. ASSUME NEW w \in DOMAIN reports, RecordDrift(w) PROVE tools' = tools
  BY <1>5 DEF RecordDrift, registryVars
<1>6. CASE Register \/ Contain \/ BinaryReplaced \/ ClockMoves \/ UNCHANGED vars
  BY <1>1, <1>6 DEF Register, Contain, BinaryReplaced, ClockMoves, registryVars, vars
<1>7. ASSUME NEW trust \in {"trusted", "quarantined"}, Quarantine(trust) PROVE tools' = tools
  BY <1>7 DEF Quarantine
<1>8. ASSUME NEW r \in DOMAIN Resources, Grant(r) \/ DenyApproval(r) PROVE tools' = tools
  BY <1>8 DEF Grant, DenyApproval, registryVars
<1> QED
  BY <1>1, <1>2, <1>3, <1>4, <1>5, <1>6, <1>7, <1>8 DEF Next

(* A recorded baseline keeps its tools, schemas and descriptions for good  *)
(* and its capabilities only shrink, whoever synchronises and whatever a   *)
(* server lists (mcp.rs sync_mcp_tools_inner).                             *)
THEOREM BaselinesOnlyNarrow == Spec => BaselineOnlyNarrows
<1>1. McpInv /\ [Next]_vars => [tools # <<>> => Narrowed]_vars
  BY BaselineKept
<1> QED
  BY <1>1, McpInvariant, PTL DEF Spec, BaselineOnlyNarrows, Narrowed

-----------------------------------------------------------------------------
(* Leases and what they have lost.                                         *)

Leases == [resource : DOMAIN Resources, uses : Int, status : {"active", "revoked", "exhausted"}, expires : Nat]

LEMMA UsedLease ==
    ASSUME NEW l \in Leases
    PROVE  /\ used(l) \in Leases /\ used(l).resource = l.resource
           /\ used(l).uses = l.uses - 1
<1> DEFINE s == IF l.uses = 1 THEN "exhausted" ELSE l.status
<1>1. used(l) = [l EXCEPT !.uses = l.uses - 1, !.status = s]
  BY DEF used
<1>2. l = [resource |-> l.resource, uses |-> l.uses, status |-> l.status, expires |-> l.expires]
  BY DEF Leases
<1>3. l.resource \in DOMAIN Resources /\ l.uses \in Int /\ l.status \in {"active", "revoked", "exhausted"} /\ l.expires \in Nat
  BY DEF Leases
<1>4. s \in {"active", "revoked", "exhausted"}
  <2>1. s = "exhausted" \/ s = l.status
    OBVIOUS
  <2> HIDE DEF s
  <2> QED
    BY <1>3, <2>1
<1> HIDE DEF s
<1>5. used(l) = [resource |-> l.resource, uses |-> l.uses - 1, status |-> s, expires |-> l.expires]
  BY <1>1, <1>2
<1>6. l.uses - 1 \in Int
  BY <1>3
<1> QED
  BY <1>3, <1>4, <1>5, <1>6 DEF Leases

LEMMA ChargedLeases ==
    ASSUME NEW ls \in Seq(Leases), NEW i \in DOMAIN ls
    PROVE  /\ charged(ls, i) \in Seq(Leases) /\ DOMAIN charged(ls, i) = DOMAIN ls
           /\ \A j \in DOMAIN ls :
                /\ charged(ls, i)[j].resource = ls[j].resource
                /\ j # i => charged(ls, i)[j] = ls[j]
           /\ charged(ls, i)[i].uses = ls[i].uses - 1
<1>1. ls[i] \in Leases /\ i \in 1..Len(ls)
  OBVIOUS
<1>2. used(ls[i]) \in Leases
  BY <1>1, UsedLease
<1>3. charged(ls, i) = [ls EXCEPT ![i] = used(ls[i])]
  BY DEF charged
<1>4. charged(ls, i) \in Seq(Leases) /\ DOMAIN charged(ls, i) = DOMAIN ls
  BY <1>1, <1>2, <1>3
<1>5. charged(ls, i)[i] = used(ls[i]) /\ \A j \in DOMAIN ls : j # i => charged(ls, i)[j] = ls[j]
  BY <1>3
<1>6. used(ls[i]).resource = ls[i].resource /\ used(ls[i]).uses = ls[i].uses - 1
  BY <1>1, UsedLease
<1> QED
  BY <1>4, <1>5, <1>6

(* The places of a resource's leases, and what each has lost.              *)
Of(ls, r)   == {i \in DOMAIN ls : ls[i].resource = r}
Losses(ls)  == [i \in DOMAIN ls |-> LeaseUses - ls[i].uses]

LEMMA LostIs ==
    ASSUME NEW ls, NEW r
    PROVE  Lost(ls, r) = SumFunctionOnSet(Losses(ls), Of(ls, r))
  BY DEF Lost, Losses, Of

LEMMA LossesType ==
    ASSUME NEW ls \in Seq(Leases), NEW r
    PROVE  /\ IsFiniteSet(Of(ls, r)) /\ Of(ls, r) \subseteq DOMAIN ls
           /\ \A i \in DOMAIN ls : Losses(ls)[i] = LeaseUses - ls[i].uses /\ Losses(ls)[i] \in Int
<1>1. DOMAIN ls = 1..Len(ls) /\ Len(ls) \in Nat
  OBVIOUS
<1>2. IsFiniteSet(1..Len(ls))
  BY <1>1, FS_Interval
<1>3. Of(ls, r) \subseteq DOMAIN ls
  BY DEF Of
<1>4. IsFiniteSet(Of(ls, r))
  BY <1>1, <1>2, <1>3, FS_Subset
<1>5. ASSUME NEW i \in DOMAIN ls PROVE ls[i].uses \in Int
  <2>1. ls[i] \in Leases
    OBVIOUS
  <2> QED
    BY <2>1 DEF Leases
<1> QED
  BY <1>3, <1>4, <1>5, McpAssumption DEF Losses

LEMMA LostType ==
    ASSUME NEW ls \in Seq(Leases), NEW r
    PROVE  Lost(ls, r) \in Int
<1>1. IsFiniteSet(Of(ls, r)) /\ \A i \in Of(ls, r) : Losses(ls)[i] \in Int
  BY LossesType
<1> QED
  BY <1>1, SumType, LostIs

(* Leases that have the same uses and resources have lost as much.         *)
LEMMA SameLost ==
    ASSUME NEW ls \in Seq(Leases), NEW ms, DOMAIN ms = DOMAIN ls,
           \A i \in DOMAIN ls : ms[i].uses = ls[i].uses /\ ms[i].resource = ls[i].resource, NEW r
    PROVE  Lost(ms, r) = Lost(ls, r)
<1>1. Of(ms, r) = Of(ls, r)
  BY DEF Of
<1>2. Losses(ms) = Losses(ls)
  BY DEF Losses
<1> QED
  BY <1>1, <1>2, LostIs

LEMMA ChargedLost ==
    ASSUME NEW ls \in Seq(Leases), NEW i \in DOMAIN ls, NEW r
    PROVE  Lost(charged(ls, i), r) = Lost(ls, r) + IF ls[i].resource = r THEN 1 ELSE 0
<1> DEFINE ms == charged(ls, i)
           S == Of(ls, r)
           f == Losses(ls)
           g == Losses(ms)
<1>1. /\ ms \in Seq(Leases) /\ DOMAIN ms = DOMAIN ls
      /\ \A j \in DOMAIN ls : ms[j].resource = ls[j].resource /\ (j # i => ms[j] = ls[j])
      /\ ms[i].uses = ls[i].uses - 1
  BY ChargedLeases
<1> HIDE DEF ms
<1>2. Of(ms, r) = S
  BY <1>1 DEF Of
<1>3. IsFiniteSet(S) /\ S \subseteq DOMAIN ls /\ \A j \in DOMAIN ls : f[j] = LeaseUses - ls[j].uses /\ f[j] \in Int
  BY LossesType
<1>4. \A j \in DOMAIN ls : g[j] = LeaseUses - ms[j].uses /\ g[j] \in Int
  BY <1>1, LossesType
<1>5. \A j \in DOMAIN ls : j # i => g[j] = f[j]
  BY <1>1, <1>3, <1>4
<1>6. g[i] = f[i] + 1
  <2>1. ls[i] \in Leases
    OBVIOUS
  <2>2. ls[i].uses \in Int
    BY <2>1 DEF Leases
  <2> QED
    BY <1>1, <1>3, <1>4, <2>2, McpAssumption
<1>7. Lost(ls, r) = SumFunctionOnSet(f, S) /\ Lost(ms, r) = SumFunctionOnSet(g, S)
  BY <1>2, LostIs
<1> HIDE DEF S, f, g
<1>8. CASE ls[i].resource = r
  <2>1. i \in S
    BY <1>8 DEF S, Of
  <2>2. SumFunctionOnSet(g, S \ {i}) = SumFunctionOnSet(f, S) - f[i]
    BY <1>3, <1>5, <2>1, SumLoses
  <2>3. SumFunctionOnSet(g, S) = g[i] + SumFunctionOnSet(g, S \ {i})
    BY <1>3, <1>4, <2>1, SumSplit
  <2>4. SumFunctionOnSet(f, S) \in Int
    BY <1>3, SumType
  <2>5. f[i] \in Int
    BY <1>3
  <2> QED
    BY <1>6, <1>7, <1>8, <2>2, <2>3, <2>4, <2>5 DEF ms
<1>9. CASE ls[i].resource # r
  <2>1. i \notin S
    BY <1>9 DEF S, Of
  <2>2. SumFunctionOnSet(g, S) = SumFunctionOnSet(f, S)
    BY <1>3, <1>5, <2>1, SumSame
  <2>3. SumFunctionOnSet(f, S) \in Int
    BY <1>3, SumType
  <2> QED
    BY <1>7, <1>9, <2>2, <2>3 DEF ms
<1> QED
  BY <1>8, <1>9

(* A lease just granted has lost nothing.                                  *)
LEMMA GrantedLost ==
    ASSUME NEW ls \in Seq(Leases), NEW l \in Leases, l.uses = LeaseUses, NEW r
    PROVE  Append(ls, l) \in Seq(Leases) /\ Lost(Append(ls, l), r) = Lost(ls, r)
<1> DEFINE ms == Append(ls, l)
           n == Len(ls) + 1
           S == Of(ls, r)
           f == Losses(ls)
           g == Losses(ms)
<1>1. /\ ms \in Seq(Leases) /\ DOMAIN ms = DOMAIN ls \cup {n} /\ n \notin DOMAIN ls
      /\ ms[n] = l /\ \A j \in DOMAIN ls : ms[j] = ls[j]
  OBVIOUS
<1> HIDE DEF ms, n
<1>2. IsFiniteSet(S) /\ S \subseteq DOMAIN ls /\ \A j \in DOMAIN ls : f[j] = LeaseUses - ls[j].uses /\ f[j] \in Int
  BY LossesType
<1>3. \A j \in DOMAIN ms : g[j] = LeaseUses - ms[j].uses /\ g[j] \in Int
  BY <1>1, LossesType
<1>4. \A j \in DOMAIN ls : g[j] = f[j]
  BY <1>1, <1>2, <1>3
<1>5. g[n] = 0
  BY <1>1, <1>3, McpAssumption
<1>6. Of(ms, r) = IF l.resource = r THEN S \cup {n} ELSE S
  BY <1>1 DEF Of
<1>7. Lost(ls, r) = SumFunctionOnSet(f, S) /\ Lost(ms, r) = SumFunctionOnSet(g, Of(ms, r))
  BY LostIs
<1> HIDE DEF S, f, g
<1>8. SumFunctionOnSet(f, S) \in Int
  BY <1>2, SumType
<1>9. CASE l.resource = r
  <2>1. SumFunctionOnSet(g, S \cup {n}) = SumFunctionOnSet(f, S) + g[n]
    <3>1. n \notin S /\ g[n] \in Int /\ (\A j \in S : g[j] = f[j]) /\ \A j \in S : f[j] \in Int
      BY <1>1, <1>2, <1>4, <1>5
    <3> QED
      BY <1>2, <3>1, SumGains
  <2> QED
    BY <1>1, <1>5, <1>6, <1>7, <1>8, <1>9, <2>1 DEF ms
<1>10. CASE l.resource # r
  <2>1. SumFunctionOnSet(g, S) = SumFunctionOnSet(f, S)
    BY <1>2, <1>4, SumSame
  <2> QED
    BY <1>1, <1>6, <1>7, <1>10, <2>1 DEF ms
<1> QED
  BY <1>9, <1>10

-----------------------------------------------------------------------------
(* The loop of consume_leases_atomically.                                  *)

(* Of the usable leases one expires first.                                 *)
LEMMA SoonestIs ==
    ASSUME NEW ls \in Seq(Leases), NEW found, found \subseteq DOMAIN ls, found # {}
    PROVE  soonest(ls, found) \in found
<1> DEFINE T == {ls[i].expires : i \in found}
<1>1. \A i \in found : i \in Nat /\ ls[i].expires \in Nat
  <2> TAKE i \in found
  <2>1. ls[i] \in Leases /\ i \in Nat
    OBVIOUS
  <2> QED
    BY <2>1 DEF Leases
<1>2. T # {} /\ T \subseteq Nat
  BY <1>1
<1>3. PICK e \in T : \A d \in T : e <= d
  <2> HIDE DEF T
  <2> QED
    BY <1>2, LeastNatural
<1> DEFINE U == {i \in found : ls[i].expires = e}
<1>4. U # {} /\ U \subseteq Nat
  BY <1>1, <1>3
<1>5. PICK i \in U : \A j \in U : i <= j
  <2> HIDE DEF U
  <2> QED
    BY <1>4, LeastNatural
<1>6. i \in found
  BY <1>5
<1>7. ASSUME NEW j \in found
      PROVE  ls[i].expires < ls[j].expires \/ (ls[i].expires = ls[j].expires /\ i <= j)
  <2>1. ls[i].expires = e /\ e <= ls[j].expires /\ ls[j].expires \in Nat /\ e \in Nat
    BY <1>1, <1>2, <1>3, <1>5
  <2>2. CASE ls[j].expires = e
    <3>1. j \in U
      BY <2>2
    <3>2. i <= j
      BY <1>5, <3>1
    <3> QED
      BY <2>1, <2>2, <3>2
  <2>3. CASE ls[j].expires # e
    BY <2>1, <2>3
  <2> QED
    BY <2>2, <2>3
<1>8. \E k \in found : \A j \in found :
        ls[k].expires < ls[j].expires \/ (ls[k].expires = ls[j].expires /\ k <= j)
  BY <1>6, <1>7
<1> QED
  BY <1>8 DEF soonest

(* What one use of a resource adds to the uses of another.                 *)
Counts(q, r) == IF q = r THEN 1 ELSE 0

(* One use is charged to one lease of its resource, or is missing.         *)
LEMMA TakenIs ==
    ASSUME NEW a, a.leases \in Seq(Leases), NEW n, NEW r
    PROVE  /\ taken(a, n, r).leases \in Seq(Leases)
           /\ taken(a, n, r).missing = {} =>
                /\ a.missing = {}
                /\ \A q : Lost(taken(a, n, r).leases, q) =
                            Lost(a.leases, q) + Counts(q, r)
<1> DEFINE found == usable(a.leases, r)
           i == soonest(a.leases, found)
           ls == charged(a.leases, i)
<1>1. found \subseteq DOMAIN a.leases /\ \A j \in found : a.leases[j].resource = r
  BY DEF usable
<1>2. taken(a, n, r) = IF found = {} THEN [leases |-> a.leases, missing |-> a.missing \cup {n}]
                       ELSE [leases |-> ls, missing |-> a.missing]
  BY DEF taken
<1> HIDE DEF found, ls
<1>3. CASE found = {}
  <2>1. taken(a, n, r).leases = a.leases /\ taken(a, n, r).missing = a.missing \cup {n}
    BY <1>2, <1>3
  <2> QED
    BY <2>1
<1>4. CASE found # {}
  <2>1. i \in found
    BY <1>1, <1>4, SoonestIs
  <2> HIDE DEF i
  <2>2. i \in DOMAIN a.leases /\ a.leases[i].resource = r
    BY <1>1, <2>1
  <2>3. taken(a, n, r).leases = ls /\ taken(a, n, r).missing = a.missing
    BY <1>2, <1>4
  <2>4. ls \in Seq(Leases)
    BY <2>2, ChargedLeases DEF ls
  <2>5. \A q : Lost(ls, q) = Lost(a.leases, q) + IF a.leases[i].resource = q THEN 1 ELSE 0
    BY <2>2, ChargedLost DEF ls
  <2>6. \A q : Lost(ls, q) = Lost(a.leases, q) + Counts(q, r)
    BY <2>2, <2>5 DEF Counts
  <2> QED
    BY <2>3, <2>4, <2>6
<1> QED
  BY <1>3, <1>4

Start == [leases |-> leases, missing |-> {}]

(* One turn of the loop, and the loop as far as its m-th turn.             *)
Turn(k, prior, n) == IF n \in k.bound THEN taken(prior, n, k.extracted[n]) ELSE prior
Loops(k, m, h)    == h = [n \in 0..m |-> IF n = 0 THEN Start ELSE Turn(k, h[n - 1], n)]

LEMMA LoopExists ==
    ASSUME NEW k, NEW m \in Nat
    PROVE  \E h : Loops(k, m, h)
<1> DEFINE T == {n \in Nat : \E h : Loops(k, n, h)}
<1>1. 0 \in T
  <2> DEFINE h == [n \in 0..0 |-> Start]
  <2>1. Loops(k, 0, h)
    BY DEF Loops
  <2> QED
    BY <2>1
<1>2. ASSUME NEW n \in Nat, n \in T PROVE n + 1 \in T
  <2>1. PICK h : Loops(k, n, h)
    BY <1>2
  <2> DEFINE g == [i \in 0..(n + 1) |-> IF i = 0 THEN Start ELSE Turn(k, h[i - 1], i)]
  <2>2. \A i \in 0..n : g[i] = h[i]
    BY <2>1 DEF Loops
  <2>3. \A i \in 0..(n + 1) : i # 0 => g[i - 1] = h[i - 1]
    <3> TAKE i \in 0..(n + 1)
    <3>1. i # 0 => i - 1 \in 0..n
      OBVIOUS
    <3> HIDE DEF g
    <3> QED
      BY <2>2, <3>1
  <2>4. g = [i \in 0..(n + 1) |-> IF i = 0 THEN Start ELSE Turn(k, g[i - 1], i)]
    BY <2>3
  <2>5. Loops(k, n + 1, g)
    BY <2>4 DEF Loops
  <2> QED
    BY <2>5
<1> HIDE DEF T
<1>3. m \in T
  BY <1>1, <1>2, EveryNatural
<1> QED
  BY <1>3 DEF T

LEMMA SpentIs ==
    ASSUME NEW k, Len(k.extracted) \in Nat
    PROVE  \E h : Loops(k, Len(k.extracted), h) /\ spent(k) = h[Len(k.extracted)]
<1> DEFINE after[n \in 0..Len(k.extracted)] ==
             IF n = 0 THEN [leases |-> leases, missing |-> {}]
             ELSE IF n \in k.bound THEN taken(after[n - 1], n, k.extracted[n]) ELSE after[n - 1]
<1>1. spent(k) = after[Len(k.extracted)]
  BY DEF spent
<1>2. after = [n \in 0..Len(k.extracted) |->
                 IF n = 0 THEN [leases |-> leases, missing |-> {}]
                 ELSE IF n \in k.bound THEN taken(after[n - 1], n, k.extracted[n]) ELSE after[n - 1]]
  <2>1. \E h : h = [n \in 0..Len(k.extracted) |->
                 IF n = 0 THEN [leases |-> leases, missing |-> {}]
                 ELSE IF n \in k.bound THEN taken(h[n - 1], n, k.extracted[n]) ELSE h[n - 1]]
    <3>1. PICK h : Loops(k, Len(k.extracted), h)
      BY LoopExists
    <3> QED
      BY <3>1 DEF Loops, Turn, Start
  <2> QED
    BY <2>1
<1> HIDE DEF after
<1>3. Loops(k, Len(k.extracted), after)
  BY <1>2 DEF Loops, Turn, Start
<1> QED
  BY <1>1, <1>3

(* The uses among the first n resources of a call.                         *)
FirstUses(k, n, r) == {i \in k.bound : i <= n /\ k.extracted[i] = r}

LEMMA FirstUsesGrow ==
    ASSUME NEW k, k.bound \subseteq 1..Len(k.extracted), Len(k.extracted) \in Nat, NEW n \in Nat, NEW r
    PROVE  /\ IsFiniteSet(FirstUses(k, n, r)) /\ Cardinality(FirstUses(k, n, r)) \in Nat
           /\ Cardinality(FirstUses(k, 0, r)) = 0
           /\ Cardinality(FirstUses(k, n + 1, r)) = Cardinality(FirstUses(k, n, r)) +
                IF n + 1 \in k.bound /\ k.extracted[n + 1] = r THEN 1 ELSE 0
<1> DEFINE A == FirstUses(k, n, r)
           B == FirstUses(k, n + 1, r)
<1>0. IsFiniteSet(1..Len(k.extracted))
  BY FS_Interval
<1>1. IsFiniteSet(1..Len(k.extracted)) /\ A \subseteq 1..Len(k.extracted)
  BY <1>0 DEF FirstUses
<1>2. IsFiniteSet(A) /\ Cardinality(A) \in Nat
  BY <1>1, FS_Subset, FS_CardinalityType
<1>3. FirstUses(k, 0, r) = {}
  BY DEF FirstUses
<1>4. Cardinality(FirstUses(k, 0, r)) = 0
  BY <1>3, FS_EmptySet
<1>5. \A i \in k.bound : i \in Int /\ (i <= n + 1 <=> i <= n \/ i = n + 1)
  OBVIOUS
<1>6. CASE n + 1 \in k.bound /\ k.extracted[n + 1] = r
  <2>1. B = A \cup {n + 1}
    BY <1>5, <1>6 DEF FirstUses
  <2>2. n + 1 \notin A
    BY DEF FirstUses
  <2> HIDE DEF A, B
  <2>3. Cardinality(B) = Cardinality(A) + 1
    BY <1>2, <2>1, <2>2, FS_AddElement
  <2> QED
    BY <1>2, <1>4, <1>6, <2>3 DEF A, B
<1>7. CASE ~(n + 1 \in k.bound /\ k.extracted[n + 1] = r)
  <2>1. B = A
    BY <1>5, <1>7 DEF FirstUses
  <2> HIDE DEF A, B
  <2> QED
    BY <1>2, <1>4, <1>7, <2>1 DEF A, B
<1> QED
  BY <1>6, <1>7

(* All of a call's uses were charged, when none is missing.                *)
LEMMA SpentLost ==
    ASSUME leases \in Seq(Leases), NEW k, Len(k.extracted) \in Nat,
           k.bound \subseteq 1..Len(k.extracted), spent(k).missing = {}
    PROVE  spent(k).leases \in Seq(Leases) /\ \A r : Lost(spent(k).leases, r) = Lost(leases, r) + Uses(k, r)
<1> DEFINE m == Len(k.extracted)
<1>1. PICK h : Loops(k, m, h) /\ spent(k) = h[m]
  BY SpentIs
<1> DEFINE Good(n) ==
             /\ h[n].leases \in Seq(Leases)
             /\ h[n].missing = {} =>
                  \A r : Lost(h[n].leases, r) = Lost(leases, r) + Cardinality(FirstUses(k, n, r))
           T == {n \in Nat : n <= m => Good(n)}
<1>2. m \in Nat
  OBVIOUS
<1> HIDE DEF m
<1>3. 0 \in T
  <2>1. h[0] = Start
    BY <1>1, <1>2 DEF Loops
  <2>2. h[0].leases = leases
    BY <2>1 DEF Start
  <2>3. \A r : Lost(leases, r) = Lost(leases, r) + Cardinality(FirstUses(k, 0, r))
    BY LostType, FirstUsesGrow
  <2> QED
    BY <2>2, <2>3
<1>4. ASSUME NEW n \in Nat, n \in T PROVE n + 1 \in T
  <2> SUFFICES ASSUME n + 1 <= m PROVE Good(n + 1)
    OBVIOUS
  <2>1. Good(n)
    BY <1>2, <1>4
  <2>2. n + 1 \in 0..m /\ n + 1 # 0 /\ (n + 1) - 1 = n
    BY <1>2
  <2>3. h[n + 1] = Turn(k, h[n], n + 1)
    BY <1>1, <2>2 DEF Loops
  <2> HIDE DEF T
  <2>4. CASE n + 1 \in k.bound
    <3> DEFINE x == k.extracted[n + 1]
    <3>1. h[n + 1] = taken(h[n], n + 1, x)
      BY <2>3, <2>4 DEF Turn
    <3>2. h[n + 1].leases \in Seq(Leases)
      BY <2>1, <3>1, TakenIs
    <3>3. ASSUME h[n + 1].missing = {}, NEW r
          PROVE  Lost(h[n + 1].leases, r) = Lost(leases, r) + Cardinality(FirstUses(k, n + 1, r))
      <4>1. h[n].missing = {} /\ Lost(h[n + 1].leases, r) = Lost(h[n].leases, r) + Counts(r, x)
        <5> HIDE DEF x
        <5>1. h[n].leases \in Seq(Leases) /\ taken(h[n], n + 1, x).missing = {}
          BY <2>1, <3>1, <3>3
        <5>2. /\ h[n].missing = {}
              /\ \A q : Lost(taken(h[n], n + 1, x).leases, q) = Lost(h[n].leases, q) + Counts(q, x)
          BY <5>1, TakenIs
        <5> QED
          BY <3>1, <5>2
      <4>2. Lost(h[n].leases, r) = Lost(leases, r) + Cardinality(FirstUses(k, n, r))
        BY <2>1, <4>1
      <4>3. Cardinality(FirstUses(k, n + 1, r)) = Cardinality(FirstUses(k, n, r)) + Counts(r, x)
        <5>1. Cardinality(FirstUses(k, n + 1, r)) = Cardinality(FirstUses(k, n, r)) +
                IF n + 1 \in k.bound /\ k.extracted[n + 1] = r THEN 1 ELSE 0
          BY <1>2, FirstUsesGrow DEF m
        <5> QED
          BY <2>4, <5>1 DEF Counts
      <4>4. Cardinality(FirstUses(k, n, r)) \in Nat
        BY FirstUsesGrow
      <4>5. Lost(leases, r) \in Int
        BY LostType
      <4>6. Counts(r, x) \in Nat
        BY DEF Counts
      <4> HIDE DEF Good, x
      <4> QED
        BY <4>1, <4>2, <4>3, <4>4, <4>5, <4>6
    <3> QED
      BY <3>2, <3>3
  <2>5. CASE n + 1 \notin k.bound
    <3>1. h[n + 1] = h[n]
      BY <2>3, <2>5 DEF Turn
    <3>2. \A r : Cardinality(FirstUses(k, n + 1, r)) = Cardinality(FirstUses(k, n, r))
      <4> TAKE r
      <4>1. Cardinality(FirstUses(k, n + 1, r)) = Cardinality(FirstUses(k, n, r)) + 0
        BY <2>5, FirstUsesGrow
      <4>2. Cardinality(FirstUses(k, n, r)) \in Nat
        BY FirstUsesGrow
      <4> QED
        BY <4>1, <4>2
    <3> QED
      BY <2>1, <3>1, <3>2
  <2> QED
    BY <2>4, <2>5
<1>5. m \in T
  <2> HIDE DEF T
  <2> QED
    BY <1>2, <1>3, <1>4, EveryNatural
<1>6. Good(m)
  BY <1>2, <1>5
<1>7. \A r : FirstUses(k, m, r) = {i \in k.bound : k.extracted[i] = r}
  BY DEF FirstUses, m
<1> QED
  BY <1>1, <1>6, <1>7 DEF Uses

-----------------------------------------------------------------------------
(* What the calls about to be forwarded carry.                             *)

(* The resources of a call, and the places of those that need a lease.     *)
Fits(c) ==
    /\ c.pc \in AdmittedPcs => c.extracted \in Seq(DOMAIN Resources)
    /\ c.pc \in {"consume", "forward"} => c.bound \subseteq 1..Len(c.extracted)

AtForward(px)    == {p \in Proxies : px[p].call.pc = "forward"}
CarriedBy(px, r) == SumFunctionOnSet([p \in AtForward(px) |-> Uses(px[p].call, r)], AtForward(px))

LEMMA CarriedIs ==
    ASSUME NEW r
    PROVE  Carried(r) = CarriedBy(proxy, r) /\ Carried(r)' = CarriedBy(proxy', r)
  BY DEF Carried, CarriedBy, Forwarding, AtForward

LEMMA UsesType ==
    ASSUME NEW c, Fits(c), c.pc \in {"consume", "forward"}, NEW r
    PROVE  Uses(c, r) \in Nat
<1>1. Len(c.extracted) \in Nat /\ c.bound \subseteq 1..Len(c.extracted)
  BY DEF Fits, AdmittedPcs
<1>2. IsFiniteSet(1..Len(c.extracted))
  BY <1>1, FS_Interval
<1>3. {i \in c.bound : c.extracted[i] = r} \subseteq 1..Len(c.extracted)
  BY <1>1
<1> QED
  BY <1>2, <1>3, FS_Subset, FS_CardinalityType DEF Uses

(* The terms of the sum.                                                   *)
Terms(px, r) == [p \in AtForward(px) |-> Uses(px[p].call, r)]

LEMMA TermsType ==
    ASSUME NEW px, \A p \in Proxies : Fits(px[p].call), NEW r
    PROVE  /\ IsFiniteSet(AtForward(px)) /\ AtForward(px) \subseteq Proxies
           /\ \A p \in AtForward(px) : Terms(px, r)[p] = Uses(px[p].call, r) /\ Terms(px, r)[p] \in Int
           /\ CarriedBy(px, r) = SumFunctionOnSet(Terms(px, r), AtForward(px))
           /\ CarriedBy(px, r) \in Int
<1>1. AtForward(px) \subseteq Proxies /\ \A p \in AtForward(px) : px[p].call.pc = "forward"
  BY DEF AtForward
<1>2. IsFiniteSet(AtForward(px))
  BY <1>1, FS_Subset, McpAssumption
<1>3. \A p \in AtForward(px) : Terms(px, r)[p] = Uses(px[p].call, r)
  BY DEF Terms
<1>4. \A p \in AtForward(px) : Uses(px[p].call, r) \in Nat
  BY <1>1, UsesType
<1>5. \A p \in AtForward(px) : Terms(px, r)[p] \in Int
  BY <1>3, <1>4
<1>6. CarriedBy(px, r) = SumFunctionOnSet(Terms(px, r), AtForward(px))
  BY DEF CarriedBy, Terms
<1>7. CarriedBy(px, r) \in Int
  BY <1>2, <1>5, <1>6, SumType
<1> QED
  BY <1>1, <1>2, <1>3, <1>5, <1>6, <1>7

LEMMA CarriedSame ==
    ASSUME NEW px, \A p \in Proxies : Fits(px[p].call), NEW qx,
           \A p \in Proxies : \/ qx[p].call = px[p].call
                              \/ px[p].call.pc # "forward" /\ qx[p].call.pc # "forward",
           NEW r
    PROVE  CarriedBy(qx, r) = CarriedBy(px, r)
<1>1. AtForward(qx) = AtForward(px) /\ \A p \in AtForward(px) : qx[p].call = px[p].call
  BY DEF AtForward
<1>2. [p \in AtForward(qx) |-> Uses(qx[p].call, r)] = [p \in AtForward(px) |-> Uses(px[p].call, r)]
  BY <1>1
<1> QED
  BY <1>1, <1>2 DEF CarriedBy

LEMMA CarriedGains ==
    ASSUME NEW px, \A p \in Proxies : Fits(px[p].call), NEW qx, \A p \in Proxies : Fits(qx[p].call),
           NEW a \in Proxies, px[a].call.pc # "forward", qx[a].call.pc = "forward",
           \A p \in Proxies \ {a} : qx[p].call = px[p].call, NEW r
    PROVE  CarriedBy(qx, r) = CarriedBy(px, r) + Uses(qx[a].call, r)
<1> DEFINE S == AtForward(px)
           f == Terms(px, r)
           g == Terms(qx, r)
<1>1. AtForward(qx) = S \cup {a} /\ a \notin S
  BY DEF AtForward
<1>2. /\ IsFiniteSet(S) /\ S \subseteq Proxies
      /\ \A p \in S : f[p] = Uses(px[p].call, r) /\ f[p] \in Int
      /\ CarriedBy(px, r) = SumFunctionOnSet(f, S)
  BY TermsType
<1>3. /\ \A p \in S \cup {a} : g[p] = Uses(qx[p].call, r) /\ g[p] \in Int
      /\ CarriedBy(qx, r) = SumFunctionOnSet(g, S \cup {a})
  BY <1>1, TermsType
<1> HIDE DEF S, f, g
<1>4. ASSUME NEW p \in S PROVE g[p] = f[p]
  <2>1. p \in Proxies \ {a}
    BY <1>1, <1>2
  <2>2. qx[p].call = px[p].call
    BY <2>1
  <2> QED
    BY <1>2, <1>3, <2>2
<1>5. SumFunctionOnSet(g, S \cup {a}) = SumFunctionOnSet(f, S) + g[a]
  <2>1. IsFiniteSet(S) /\ a \notin S /\ g[a] \in Int
    BY <1>1, <1>2, <1>3
  <2>2. (\A p \in S : f[p] \in Int) /\ \A p \in S : g[p] = f[p]
    BY <1>2, <1>4
  <2> QED
    BY ONLY <2>1, <2>2, SumGains
<1>6. g[a] = Uses(qx[a].call, r)
  BY <1>3
<1> QED
  BY <1>2, <1>3, <1>5, <1>6

LEMMA CarriedLoses ==
    ASSUME NEW px, \A p \in Proxies : Fits(px[p].call), NEW qx, \A p \in Proxies : Fits(qx[p].call),
           NEW a \in Proxies, px[a].call.pc = "forward", qx[a].call.pc # "forward",
           \A p \in Proxies \ {a} : qx[p].call = px[p].call, NEW r
    PROVE  CarriedBy(qx, r) = CarriedBy(px, r) - Uses(px[a].call, r)
<1>1. CarriedBy(px, r) = CarriedBy(qx, r) + Uses(px[a].call, r)
  BY CarriedGains
<1>2. CarriedBy(qx, r) \in Int
  BY TermsType
<1>3. Uses(px[a].call, r) \in Nat
  BY UsesType
<1> QED
  BY <1>1, <1>2, <1>3

-----------------------------------------------------------------------------
(* The invariant.                                                          *)

LeaseInv ==
    /\ clock \in Nat /\ leases \in Seq(Leases) /\ usesEnded \in [DOMAIN Resources -> Int]
    /\ \A p \in Proxies : Fits(proxy[p].call)
    /\ RefusalsAreFree

(* Steps at which no call comes to be forwarded or stops to be.            *)
CallsStay ==
    \A p \in Proxies :
        \/ proxy'[p].call = proxy[p].call
        \/ /\ proxy[p].call.pc # "forward" /\ proxy'[p].call.pc # "forward"
           /\ Fits(proxy'[p].call)

LEMMA LeasesQuiet ==
    ASSUME LeaseInv, clock' \in Nat, leases' \in Seq(Leases), \A r : Lost(leases', r) = Lost(leases, r),
           usesEnded' = usesEnded, CallsStay
    PROVE  LeaseInv'
<1>1. \A p \in Proxies : Fits(proxy[p].call) /\ Fits(proxy'[p].call)
  BY DEF LeaseInv, CallsStay
<1>2. ASSUME NEW r \in DOMAIN Resources PROVE Lost(leases', r) = usesEnded'[r] + Carried(r)'
  <2>1. CarriedBy(proxy', r) = CarriedBy(proxy, r)
    BY <1>1, CarriedSame DEF CallsStay
  <2>2. Lost(leases, r) = usesEnded[r] + Carried(r)
    BY DEF LeaseInv, RefusalsAreFree
  <2> QED
    BY <2>1, <2>2, CarriedIs
<1>3. RefusalsAreFree'
  BY <1>2 DEF RefusalsAreFree
<1>4. \A p \in Proxies : Fits(proxy[p].call)'
  BY <1>1 DEF Fits, AdmittedPcs
<1> QED
  BY <1>3, <1>4 DEF LeaseInv

LEMMA SetCallIs ==
    ASSUME McpInv, NEW p \in Proxies, NEW c, SetCall(p, c)
    PROVE  proxy'[p].call = c /\ \A q \in Proxies \ {p} : proxy'[q] = proxy[q]
  BY DEF SetCall, McpInv, Calling, IsProxy

LEMMA CallMoves ==
    ASSUME McpInv, NEW p \in Proxies, NEW c, SetCall(p, c), proxy[p].call.pc # "forward",
           c.pc # "forward", Fits(c)
    PROVE  CallsStay
<1>1. proxy'[p].call = c /\ \A q \in Proxies \ {p} : proxy'[q] = proxy[q]
  BY SetCallIs
<1> QED
  BY <1>1 DEF CallsStay

LEMMA IdleFits == Fits(IdleCall) /\ IdleCall.pc # "forward"
  BY DEF Fits, IdleCall, AdmittedPcs

(* The risk moves and takes the leases with it, not their uses.            *)
LEMMA RevokedLeases ==
    ASSUME leases \in Seq(Leases)
    PROVE  revoked \in Seq(Leases) /\ \A r : Lost(revoked, r) = Lost(leases, r)
<1>1. DOMAIN revoked = DOMAIN leases /\ DOMAIN leases = 1..Len(leases) /\ Len(leases) \in Nat
  BY DEF revoked
<1>2. ASSUME NEW i \in DOMAIN leases
      PROVE  /\ revoked[i] \in Leases
             /\ revoked[i].uses = leases[i].uses /\ revoked[i].resource = leases[i].resource
  <2>1. leases[i] \in Leases
    OBVIOUS
  <2>2. CASE leases[i].status = "active"
    <3>1. revoked[i] = [leases[i] EXCEPT !.status = "revoked"]
      BY <1>2, <2>2 DEF revoked
    <3> QED
      BY <2>1, <3>1 DEF Leases
  <2>3. CASE leases[i].status # "active"
    <3>1. revoked[i] = leases[i]
      BY <1>2, <2>3 DEF revoked
    <3> QED
      BY <2>1, <3>1
  <2> QED
    BY <2>2, <2>3
<1>3. revoked = [i \in 1..Len(leases) |-> revoked[i]]
  BY <1>1 DEF revoked
<1>4. revoked \in Seq(Leases)
  <2> HIDE DEF revoked
  <2>1. revoked \in [1..Len(leases) -> Leases]
    BY <1>1, <1>2, <1>3
  <2> QED
    BY <1>1, <2>1, SeqDef
<1>5. \A r : Lost(revoked, r) = Lost(leases, r)
  BY <1>1, <1>2, SameLost
<1> QED
  BY <1>4, <1>5

LEMMA RiskKeepsUses ==
    ASSUME leases \in Seq(Leases), NEW new, SetRisk(new)
    PROVE  leases' \in Seq(Leases) /\ \A r : Lost(leases', r) = Lost(leases, r)
<1>1. leases' = leases \/ leases' = revoked
  BY DEF SetRisk
<1> QED
  BY <1>1, RevokedLeases

LEMMA SignalKeepsUses ==
    ASSUME leases \in Seq(Leases), NEW label, record_risk_signal(label)
    PROVE  leases' \in Seq(Leases) /\ \A r : Lost(leases', r) = Lost(leases, r)
<1>1. \E new : SetRisk(new)
  BY DEF record_risk_signal
<1> QED
  BY <1>1, RiskKeepsUses

(* What is extracted of a call is a part of its resources.                 *)
LEMMA ExtractedIsSeq ==
    ASSUME NEW c \in Calls
    PROVE  extract_resources(c) \in Seq(DOMAIN Resources)
<1> DEFINE s == c.resources
           m == Min({MaxExtracted, Len(s)})
<1>1. s \in Seq(DOMAIN Resources) /\ Len(s) \in Nat /\ MaxExtracted \in Nat
  BY McpAssumption
<1>2. m \in {MaxExtracted, Len(s)} /\ m <= Len(s)
  <2>1. \E x \in {MaxExtracted, Len(s)} : \A y \in {MaxExtracted, Len(s)} : x <= y
    <3>1. CASE MaxExtracted <= Len(s)
      BY <1>1, <3>1
    <3>2. CASE ~(MaxExtracted <= Len(s))
      BY <1>1, <3>2
    <3> QED
      BY <3>1, <3>2
  <2> QED
    BY <2>1 DEF Min
<1>3. m \in Nat
  BY <1>1, <1>2
<1> HIDE DEF m, s
<1>4. SubSeq(s, 1, m) \in Seq(DOMAIN Resources)
  BY <1>1, <1>2, <1>3
<1> QED
  BY <1>4 DEF extract_resources, m, s

LEMMA LeaseInitially == Init => LeaseInv
<1> SUFFICES ASSUME Init PROVE LeaseInv
  OBVIOUS
<1>1. clock \in Nat /\ leases \in Seq(Leases) /\ usesEnded \in [DOMAIN Resources -> Int]
  BY DEF Init
<1>2. \A p \in Proxies : proxy[p].call = IdleCall
  BY DEF Init, NoProxy
<1>3. \A p \in Proxies : Fits(proxy[p].call)
  BY <1>2, IdleFits
<1>4. ASSUME NEW r \in DOMAIN Resources PROVE Lost(leases, r) = usesEnded[r] + Carried(r)
  <2>1. leases = <<>> /\ usesEnded[r] = 0
    BY DEF Init
  <2>2. Of(leases, r) = {}
    BY <2>1 DEF Of
  <2>3. Lost(leases, r) = 0
    BY <2>2, LostIs, SumEmpty
  <2>4. AtForward(proxy) = {}
    BY <1>2, IdleFits DEF AtForward
  <2>5. Carried(r) = 0
    BY <2>4, CarriedIs, SumEmpty DEF CarriedBy
  <2> QED
    BY <2>1, <2>3, <2>5
<1> QED
  BY <1>1, <1>3, <1>4 DEF LeaseInv, RefusalsAreFree

-----------------------------------------------------------------------------
(* The steps of a call.                                                    *)

LEMMA BeginCallFits ==
    ASSUME McpInv, NEW p \in Proxies, NEW c \in Calls, BeginCall(p, c)
    PROVE  CallsStay
<1> DEFINE x == extract_resources(c)
           escapes == {i \in DOMAIN x : implied_action(x[i]) \notin tools[c.tool].capabilities}
           k == [pc |-> IF escapes = {} THEN "preflight" ELSE "escape", request |-> c, extracted |-> x]
<1>1. SetCall(p, k) /\ proxy[p].call = IdleCall
  BY DEF BeginCall
<1>2. x \in Seq(DOMAIN Resources)
  BY ExtractedIsSeq
<1> HIDE DEF x, escapes
<1>3. k.pc \in {"preflight", "escape"} /\ k.extracted = x
  OBVIOUS
<1> HIDE DEF k
<1>4. Fits(k) /\ k.pc # "forward"
  BY <1>2, <1>3 DEF Fits
<1> QED
  BY <1>1, <1>4, IdleFits, CallMoves

LEMMA PreflightFits ==
    ASSUME McpInv, LeaseInv, NEW p \in Proxies, Preflight(p)
    PROVE  CallsStay
<1> DEFINE x == proxy[p].call.extracted
           labels == denial_labels(x)
           bound == answered(x, "require_approval")
           refusal == [pc |-> "denied", labels |-> labels]
           admission == [pc |-> "consume", request |-> proxy[p].call.request, extracted |-> x,
                         bound |-> bound]
<1>1. /\ SetCall(p, IdleCall) \/ SetCall(p, refusal) \/ SetCall(p, admission)
      /\ proxy[p].call.pc = "preflight"
  BY DEF Preflight
<1>2. x \in Seq(DOMAIN Resources)
  BY <1>1 DEF LeaseInv, Fits, AdmittedPcs
<1>3. bound \subseteq 1..Len(x)
  <2>1. bound \subseteq DOMAIN x
    BY DEF answered
  <2> HIDE DEF bound, x
  <2> QED
    BY <1>2, <2>1
<1> HIDE DEF labels, bound, x
<1>4. Fits(refusal) /\ refusal.pc # "forward"
  BY DEF Fits, AdmittedPcs
<1>5. admission.pc = "consume" /\ admission.extracted = x /\ admission.bound = bound
  OBVIOUS
<1> HIDE DEF admission, refusal
<1>6. Fits(admission) /\ admission.pc # "forward"
  BY <1>2, <1>3, <1>5 DEF Fits
<1> QED
  BY <1>1, <1>4, <1>6, IdleFits, CallMoves

LEMMA RecordDenialFits ==
    ASSUME McpInv, NEW p \in Proxies, RecordDenial(p)
    PROVE  CallsStay
<1> DEFINE k == proxy[p].call
           tail == Tail(k.labels)
           rest == [k EXCEPT !.labels = tail]
<1>1. (SetCall(p, IdleCall) \/ SetCall(p, rest)) /\ k.pc = "denied"
  BY DEF RecordDenial
<1>2. k = [pc |-> "denied", labels |-> k.labels]
  BY <1>1, CallAt DEF McpInv, Calling, IsProxy
<1> HIDE DEF k, tail
<1>3. rest.pc = "denied"
  BY <1>2
<1> HIDE DEF rest
<1>4. Fits(rest) /\ rest.pc # "forward"
  BY <1>3 DEF Fits, AdmittedPcs
<1>5. proxy[p].call.pc # "forward"
  BY <1>1 DEF k
<1> QED
  BY <1>1, <1>4, <1>5, IdleFits, CallMoves

LEMMA RequestApprovalFits ==
    ASSUME McpInv, NEW p \in Proxies, RequestApproval(p)
    PROVE  CallsStay
<1> DEFINE k == proxy[p].call
<1>1. PICK i : SetCall(p, IdleCall) \/ SetCall(p, [k EXCEPT !.missing = @ \ {i}])
  BY DEF RequestApproval
<1> DEFINE rest == [k EXCEPT !.missing = @ \ {i}]
<1>2. (SetCall(p, IdleCall) \/ SetCall(p, rest)) /\ k.pc = "ask"
  BY <1>1 DEF RequestApproval
<1>3. k = [pc |-> "ask", extracted |-> k.extracted, missing |-> k.missing]
  BY <1>2, CallAt DEF McpInv, Calling, IsProxy
<1> HIDE DEF k
<1>4. rest.pc = "ask"
  BY <1>3
<1> HIDE DEF rest
<1>5. Fits(rest) /\ rest.pc # "forward"
  BY <1>4 DEF Fits, AdmittedPcs
<1>6. proxy[p].call.pc # "forward"
  BY <1>2 DEF k
<1> QED
  BY <1>2, <1>5, <1>6, IdleFits, CallMoves

LEMMA ConsumeLeasesPays ==
    ASSUME McpInv, LeaseInv, NEW p \in Proxies, ConsumeLeases(p)
    PROVE  LeaseInv'
<1> DEFINE k == proxy[p].call
           gaps == spent(k).missing
           go == [k EXCEPT !.pc = "forward"]
           ask == [pc |-> "ask", extracted |-> k.extracted, missing |-> gaps]
<1>1. /\ k.pc = "consume" /\ SetCall(p, IF gaps = {} THEN go ELSE ask)
      /\ leases' = IF gaps = {} THEN spent(k).leases ELSE leases
      /\ clock' = clock /\ usesEnded' = usesEnded
  BY DEF ConsumeLeases, Spend, historyVars
<1>2. k = [pc |-> "consume", request |-> k.request, extracted |-> k.extracted, bound |-> k.bound]
  BY <1>1, CallAt DEF McpInv, Calling, IsProxy
<1>3. Fits(k) /\ leases \in Seq(Leases) /\ clock \in Nat
  BY DEF LeaseInv
<1>4. k.extracted \in Seq(DOMAIN Resources) /\ k.bound \subseteq 1..Len(k.extracted)
  BY <1>1, <1>3 DEF Fits, AdmittedPcs
<1>5. CASE gaps # {}
  <2>1. SetCall(p, ask) /\ leases' = leases
    BY <1>1, <1>5
  <2> HIDE DEF gaps
  <2>2. Fits(ask) /\ ask.pc # "forward"
    BY DEF Fits, AdmittedPcs
  <2>3. CallsStay
    BY <1>1, <2>1, <2>2, CallMoves
  <2> QED
    BY <1>1, <1>3, <2>1, <2>3, LeasesQuiet
<1>6. CASE gaps = {}
  <2>1. SetCall(p, go) /\ leases' = spent(k).leases
    BY <1>1, <1>6
  <2>2. Len(k.extracted) \in Nat
    BY <1>4
  <2>3. leases' \in Seq(Leases) /\ \A r : Lost(leases', r) = Lost(leases, r) + Uses(k, r)
    BY <1>3, <1>4, <1>6, <2>1, <2>2, SpentLost
  <2> HIDE DEF gaps
  <2>4. proxy'[p].call = go /\ \A q \in Proxies \ {p} : proxy'[q] = proxy[q]
    BY <2>1, SetCallIs
  <2>5. proxy[p].call.pc # "forward"
    BY <1>1
  <2>6. \A q \in Proxies : Fits(proxy[q].call)
    BY DEF LeaseInv
  <2>k. k = proxy[p].call
    OBVIOUS
  <2> HIDE DEF k
  <2>7. go.pc = "forward" /\ go.extracted = k.extracted /\ go.bound = k.bound
    BY <1>2
  <2> HIDE DEF go
  <2>8. Fits(go)
    BY <1>4, <2>7 DEF Fits
  <2>9. \A q \in Proxies : Fits(proxy'[q].call)
    BY <2>4, <2>6, <2>8
  <2>10. \A r : Uses(go, r) = Uses(k, r)
    BY <2>7 DEF Uses
  <2>11. ASSUME NEW r \in DOMAIN Resources PROVE Lost(leases', r) = usesEnded'[r] + Carried(r)'
    <3>1. CarriedBy(proxy', r) = CarriedBy(proxy, r) + Uses(proxy'[p].call, r)
      <4> DEFINE qx == proxy'
      <4>1. /\ \A q \in Proxies : Fits(qx[q].call)
            /\ qx[p].call.pc = "forward" /\ \A q \in Proxies \ {p} : qx[q].call = proxy[q].call
        BY <2>4, <2>7, <2>9
      <4> HIDE DEF qx
      <4>2. CarriedBy(qx, r) = CarriedBy(proxy, r) + Uses(qx[p].call, r)
        BY <2>5, <2>6, <4>1, CarriedGains
      <4> QED
        BY <4>2 DEF qx
    <3>2. Uses(proxy'[p].call, r) = Uses(k, r)
      BY <2>4, <2>10
    <3>3. Lost(leases, r) = usesEnded[r] + CarriedBy(proxy, r)
      BY CarriedIs DEF LeaseInv, RefusalsAreFree
    <3>4. Lost(leases', r) = Lost(leases, r) + Uses(k, r)
      BY <2>3
    <3>5. Carried(r)' = CarriedBy(proxy', r)
      BY CarriedIs
    <3>6. usesEnded[r] \in Int /\ usesEnded'[r] = usesEnded[r]
      BY <1>1 DEF LeaseInv
    <3>7. CarriedBy(proxy, r) \in Int
      BY <2>6, TermsType
    <3>8. Uses(k, r) \in Nat
      BY <1>1, <1>3, UsesType
    <3> DEFINE u == Uses(k, r)
               b == CarriedBy(proxy, r)
               b2 == CarriedBy(proxy', r)
               e == usesEnded[r]
    <3>9. b2 = b + u /\ Lost(leases', r) = (e + b) + u /\ e \in Int /\ b \in Int /\ u \in Nat
      BY <3>1, <3>2, <3>3, <3>4, <3>6, <3>7, <3>8
    <3> HIDE DEF u, b, b2, e
    <3>10. Lost(leases', r) = e + b2
      BY <3>9
    <3> QED
      BY <3>5, <3>6, <3>10 DEF e, b2
  <2>12. RefusalsAreFree'
    BY <2>11 DEF RefusalsAreFree
  <2>13. \A q \in Proxies : Fits(proxy[q].call)'
    BY <2>9 DEF Fits, AdmittedPcs
  <2> QED
    BY <1>1, <2>3, <2>12, <2>13 DEF LeaseInv
<1> QED
  BY <1>5, <1>6

(* A call that was to be forwarded is, or dies: its uses are ended.        *)
LEMMA EndedKeeps ==
    ASSUME LeaseInv, NEW p \in Proxies, proxy[p].call.pc = "forward", usesEnded' = ended(proxy[p].call),
           UNCHANGED <<clock, leases>>, proxy'[p].call = IdleCall,
           \A q \in Proxies \ {p} : proxy'[q] = proxy[q]
    PROVE  LeaseInv'
<1> DEFINE k == proxy[p].call
           qx == proxy'
<1>1. Fits(k) /\ k.pc = "forward" /\ \A q \in Proxies : Fits(proxy[q].call)
  BY DEF LeaseInv
<1>2. \A q \in Proxies : Fits(qx[q].call)
  BY <1>1, IdleFits
<1>3. usesEnded \in [DOMAIN Resources -> Int]
  BY DEF LeaseInv
<1>4. \A r : Uses(k, r) \in Nat
  BY <1>1, UsesType
<1>k. usesEnded' = ended(k) /\ k = proxy[p].call
  OBVIOUS
<1> HIDE DEF k
<1>5. usesEnded' = [r \in DOMAIN Resources |-> usesEnded[r] + Uses(k, r)]
  BY <1>3, <1>k DEF ended
<1>6. usesEnded' \in [DOMAIN Resources -> Int]
  BY <1>3, <1>4, <1>5
<1>7. ASSUME NEW r \in DOMAIN Resources PROVE Lost(leases', r) = usesEnded'[r] + Carried(r)'
  <2>1. /\ qx[p].call.pc # "forward" /\ \A q \in Proxies \ {p} : qx[q].call = proxy[q].call
    BY IdleFits
  <2>2. Carried(r)' = CarriedBy(qx, r)
    BY CarriedIs
  <2> HIDE DEF qx
  <2>3. CarriedBy(qx, r) = CarriedBy(proxy, r) - Uses(k, r)
    BY <1>1, <1>2, <1>k, <2>1, CarriedLoses
  <2>4. Lost(leases, r) = usesEnded[r] + CarriedBy(proxy, r)
    BY CarriedIs DEF LeaseInv, RefusalsAreFree
  <2>5. usesEnded[r] \in Int /\ usesEnded'[r] = usesEnded[r] + Uses(k, r)
    BY <1>3, <1>5
  <2>6. CarriedBy(proxy, r) \in Int /\ Uses(k, r) \in Nat
    BY <1>1, <1>4, TermsType
  <2> DEFINE u == Uses(k, r)
             b == CarriedBy(proxy, r)
             e == usesEnded[r]
             e2 == usesEnded'[r]
             b2 == CarriedBy(qx, r)
  <2>7. b2 = b - u /\ Lost(leases, r) = e + b /\ e2 = e + u /\ e \in Int /\ b \in Int /\ u \in Nat
    BY <2>3, <2>4, <2>5, <2>6
  <2> HIDE DEF u, b, e, e2, b2
  <2>8. Lost(leases, r) = e2 + b2
    BY <2>7
  <2> QED
    BY <2>2, <2>8 DEF e2, b2
<1>8. RefusalsAreFree'
  BY <1>7 DEF RefusalsAreFree
<1>9. \A q \in Proxies : Fits(proxy[q].call)'
  BY <1>2 DEF Fits, AdmittedPcs
<1>10. clock' \in Nat /\ leases' \in Seq(Leases)
  BY DEF LeaseInv
<1> QED
  BY <1>6, <1>8, <1>9, <1>10 DEF LeaseInv

(* A proxy's step.                                                         *)
LEMMA ProxyStepLeases ==
    ASSUME McpInv, LeaseInv, NEW p \in Proxies, ProxyStep(p)
    PROVE  LeaseInv'
<1>1. leases \in Seq(Leases) /\ clock \in Nat
  BY DEF LeaseInv
<1>2. ASSUME UNCHANGED <<clock, leases, usesEnded>>, CallsStay PROVE LeaseInv'
  BY <1>1, <1>2, LeasesQuiet
<1>3. proxy = [q \in Proxies |-> proxy[q]] /\ IsProxy(proxy[p])
  BY DEF McpInv, Calling
<1>4. CASE Spawn(p)
  <2>1. \A q \in Proxies : proxy'[q].call = proxy[q].call
    BY <1>3, <1>4 DEF Spawn, IsProxy
  <2> QED
    BY <1>2, <1>4, <2>1 DEF Spawn, authorityVars, historyVars, CallsStay
<1>5. CASE ProxyDies(p)
  <2>1. proxy'[p].call = IdleCall /\ \A q \in Proxies \ {p} : proxy'[q] = proxy[q]
    BY <1>3, <1>5 DEF ProxyDies, NoProxy
  <2>2. UNCHANGED <<clock, leases>>
    BY <1>5 DEF ProxyDies, authorityVars
  <2>3. CASE proxy[p].call.pc = "forward"
    <3>1. usesEnded' = ended(proxy[p].call)
      BY <1>5, <2>3 DEF ProxyDies
    <3> QED
      BY <2>1, <2>2, <2>3, <3>1, EndedKeeps
  <2>4. CASE proxy[p].call.pc # "forward"
    <3>1. usesEnded' = usesEnded
      BY <1>5, <2>4 DEF ProxyDies
    <3>2. CallsStay
      BY <2>1, <2>4, IdleFits DEF CallsStay
    <3> QED
      BY <1>2, <2>2, <3>1, <3>2
  <2> QED
    BY <2>3, <2>4
<1>6. CASE \E id \in RequestIds : RequestToolList(p, id) \/ \E m \in Listings : ServerLists(p, id, m)
  <2>1. \E lists : proxy' = [proxy EXCEPT ![p].lists = lists]
    BY <1>6 DEF RequestToolList, ServerLists
  <2>2. \A q \in Proxies : proxy'[q].call = proxy[q].call
    BY <1>3, <2>1 DEF IsProxy
  <2>3. UNCHANGED <<clock, leases, usesEnded>>
    BY <1>6 DEF RequestToolList, ServerLists, authorityVars, historyVars
  <2> QED
    BY <1>2, <2>2, <2>3 DEF CallsStay
<1>7. CASE \E c \in Calls : BeginCall(p, c)
  <2>1. CallsStay
    BY <1>7, BeginCallFits
  <2>2. UNCHANGED <<clock, leases, usesEnded>>
    BY <1>7 DEF BeginCall, authorityVars, historyVars
  <2> QED
    BY <1>2, <2>1, <2>2
<1>8. CASE Preflight(p)
  <2>1. CallsStay
    BY <1>8, PreflightFits
  <2>2. UNCHANGED <<clock, leases, usesEnded>>
    BY <1>8 DEF Preflight, authorityVars, historyVars
  <2> QED
    BY <1>2, <2>1, <2>2
<1>9. CASE ScopeEscape(p)
  <2>1. CallsStay
    <3>1. SetCall(p, IdleCall) /\ proxy[p].call.pc # "forward"
      BY <1>9 DEF ScopeEscape
    <3> QED
      BY <3>1, IdleFits, CallMoves
  <2>2. leases' \in Seq(Leases) /\ \A r : Lost(leases', r) = Lost(leases, r)
    BY <1>1, <1>9, SignalKeepsUses DEF ScopeEscape
  <2>3. UNCHANGED <<clock, usesEnded>>
    BY <1>9 DEF ScopeEscape, historyVars
  <2> QED
    BY <1>1, <2>1, <2>2, <2>3, LeasesQuiet
<1>10. CASE RecordDenial(p)
  <2>1. CallsStay
    BY <1>10, RecordDenialFits
  <2>2. leases' \in Seq(Leases) /\ \A r : Lost(leases', r) = Lost(leases, r)
    <3>1. \E label : record_risk_signal(label)
      BY <1>10 DEF RecordDenial
    <3> QED
      BY <1>1, <3>1, SignalKeepsUses
  <2>3. UNCHANGED <<clock, usesEnded>>
    BY <1>10 DEF RecordDenial, historyVars
  <2> QED
    BY <1>1, <2>1, <2>2, <2>3, LeasesQuiet
<1>11. CASE RequestApproval(p)
  <2>1. CallsStay
    BY <1>11, RequestApprovalFits
  <2>2. leases' \in Seq(Leases) /\ \A r : Lost(leases', r) = Lost(leases, r)
    <3>1. (\E label : record_risk_signal(label)) \/ leases' = leases
      BY <1>11 DEF RequestApproval
    <3> QED
      BY <1>1, <3>1, SignalKeepsUses
  <2>3. UNCHANGED <<clock, usesEnded>>
    BY <1>11 DEF RequestApproval, historyVars
  <2> QED
    BY <1>1, <2>1, <2>2, <2>3, LeasesQuiet
<1>12. CASE Forward(p)
  <2>1. SetCall(p, IdleCall) /\ proxy[p].call.pc = "forward" /\ usesEnded' = ended(proxy[p].call)
    BY <1>12 DEF Forward
  <2>2. proxy'[p].call = IdleCall /\ \A q \in Proxies \ {p} : proxy'[q] = proxy[q]
    BY <2>1, SetCallIs
  <2>3. UNCHANGED <<clock, leases>>
    BY <1>12 DEF Forward, authorityVars
  <2> QED
    BY <2>1, <2>2, <2>3, EndedKeeps
<1>13. CASE ConsumeLeases(p)
  BY <1>13, ConsumeLeasesPays
<1> QED
  BY <1>4, <1>5, <1>6, <1>7, <1>8, <1>9, <1>10, <1>11, <1>12, <1>13 DEF ProxyStep

LEMMA LeaseKept ==
    ASSUME McpInv, LeaseInv, [Next]_vars
    PROVE  LeaseInv'
<1>1. leases \in Seq(Leases) /\ clock \in Nat
  BY DEF LeaseInv
<1>2. ASSUME UNCHANGED <<proxy, usesEnded>>, clock' \in Nat, leases' \in Seq(Leases),
             \A r : Lost(leases', r) = Lost(leases, r)
      PROVE  LeaseInv'
  BY <1>2, LeasesQuiet DEF CallsStay
<1>3. ASSUME UNCHANGED <<proxy, usesEnded, leases>>, clock' \in Nat PROVE LeaseInv'
  BY <1>1, <1>2, <1>3
<1>4. ASSUME NEW w \in DOMAIN reports, RecordDrift(w) PROVE LeaseInv'
  <2>1. leases' \in Seq(Leases) /\ \A r : Lost(leases', r) = Lost(leases, r)
    BY <1>1, <1>4, SignalKeepsUses DEF RecordDrift
  <2>2. UNCHANGED <<proxy, usesEnded, clock>>
    BY <1>4 DEF RecordDrift, historyVars
  <2> QED
    BY <1>1, <1>2, <2>1, <2>2
<1>5. CASE Contain
  <2>1. leases' \in Seq(Leases) /\ \A r : Lost(leases', r) = Lost(leases, r)
    BY <1>1, <1>5, RiskKeepsUses DEF Contain
  <2>2. UNCHANGED <<proxy, usesEnded, clock>>
    BY <1>5 DEF Contain, historyVars
  <2> QED
    BY <1>1, <1>2, <2>1, <2>2
<1>6. ASSUME NEW r \in DOMAIN Resources, Grant(r) PROVE LeaseInv'
  <2> DEFINE l == [resource |-> r, uses |-> LeaseUses, status |-> "active", expires |-> clock + LeaseTtl]
  <2>1. leases' = Append(leases, l) /\ UNCHANGED <<proxy, usesEnded, clock>>
    BY <1>6 DEF Grant, historyVars
  <2>2. clock + LeaseTtl \in Nat /\ LeaseUses \in Int
    BY <1>1, McpAssumption
  <2>3. l \in Leases /\ l.uses = LeaseUses
    BY <2>2 DEF Leases
  <2> HIDE DEF l
  <2>4. Append(leases, l) \in Seq(Leases) /\ \A q : Lost(Append(leases, l), q) = Lost(leases, q)
    BY <1>1, <2>3, GrantedLost
  <2> QED
    BY <1>1, <1>2, <2>1, <2>4
<1>7. ASSUME NEW r \in DOMAIN Resources, DenyApproval(r) PROVE LeaseInv'
  BY <1>1, <1>3, <1>7 DEF DenyApproval, historyVars
<1>8. ASSUME NEW m \in OperatorManifests, OperatorSync(m) PROVE LeaseInv'
  BY <1>1, <1>3, <1>8 DEF OperatorSync, authorityVars, historyVars
<1>9. CASE Register \/ BinaryReplaced \/ ClockMoves
  <2>1. UNCHANGED <<proxy, usesEnded, leases>>
    BY <1>9 DEF Register, BinaryReplaced, ClockMoves, authorityVars, historyVars
  <2>2. clock' \in Nat
    BY <1>1, <1>9, McpAssumption DEF Register, BinaryReplaced, ClockMoves
  <2> QED
    BY <1>3, <2>1, <2>2
<1>10. ASSUME NEW trust \in {"trusted", "quarantined"}, Quarantine(trust) PROVE LeaseInv'
  BY <1>1, <1>3, <1>10 DEF Quarantine, authorityVars, historyVars
<1>11. CASE UNCHANGED vars
  BY <1>1, <1>3, <1>11 DEF vars
<1> QED
  BY <1>4, <1>5, <1>6, <1>7, <1>8, <1>9, <1>10, <1>11, ProxyStepLeases DEF Next

(* The invariant holds throughout: the leases' losses, the uses that have  *)
(* ended and those calls in flight carry agree (lease.rs                   *)
(* consume_leases_atomically).                                             *)
THEOREM LeaseInvariant == Spec => []LeaseInv
<1>1. McpInv /\ LeaseInv /\ [Next]_vars => LeaseInv'
  BY LeaseKept
<1> QED
  BY <1>1, LeaseInitially, McpInvariant, PTL DEF Spec

(* For any number of proxies, calls and leases, a call takes all the       *)
(* leases it needs or none, and no use is lost but to a call that was      *)
(* forwarded, is about to be, or died holding it (mcp.rs                   *)
(* authorize_mcp_call, lease.rs consume_leases_atomically).                *)
THEOREM RefusedCallsAreFree == Spec => []RefusalsAreFree
<1>1. LeaseInv => RefusalsAreFree
  BY DEF LeaseInv
<1> QED
  BY <1>1, LeaseInvariant, PTL
=============================================================================
