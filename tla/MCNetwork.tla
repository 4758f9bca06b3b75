------------------------------ MODULE MCNetwork ------------------------------
(* A session with a pinned destination, the bootstrap policy of the host,  *)
(* and a daemon's session policy competing for the same generations.       *)
(* The instance is explored in two planes, each with the steps that can    *)
(* disturb one another: in "policy" the publishers, the provider and its    *)
(* flows under a host that follows its straight path, in "host" the         *)
(* operating system, the preference operations and the health evidence.     *)
EXTENDS NetworkFilter, TLC

VARIABLE plane

MCPolicies ==
    [s \in Sessions |->
        [mode |-> "observe", flows |-> 2, destinations |-> 1,
         rules |-> <<[name |-> "api", protocol |-> "udp", ports |-> {443}, until |-> 1,
                      addresses |-> {"a1"}],
                     [name |-> "api", protocol |-> "tcp", ports |-> {443}, until |-> 1,
                      addresses |-> {"a1"}],
                     [name |-> "cdn", protocol |-> "tcp", ports |-> {443}, until |-> 1,
                      addresses |-> {"a1"}]>>]]

MCOwner == [p \in {"agent"} |-> "s1"]

Base == [process |-> "agent", projected |-> TRUE, outbound |-> TRUE, public |-> TRUE, name |-> "api", dots |-> 0,
         spelling |-> "plain", protocol |-> "tcp", port |-> 443, address |-> "a1"]

MCFlows ==
    {Base,
     [Base EXCEPT !.name = "cdn"],
     [Base EXCEPT !.name = "cdn", !.dots = 1],
     [Base EXCEPT !.process = "editor"],
     [Base EXCEPT !.projected = FALSE],
     [Base EXCEPT !.outbound = FALSE],
     [Base EXCEPT !.public = FALSE],
     [Base EXCEPT !.name = "none"],
     [Base EXCEPT !.name = "address"],
     [Base EXCEPT !.name = "other"],
     [Base EXCEPT !.dots = 2],
     [Base EXCEPT !.spelling = "folding"],
     [Base EXCEPT !.spelling = "malformed"],
     [Base EXCEPT !.address = "a1 in full"],
     [Base EXCEPT !.name = "cdn", !.protocol = "udp"],
     [Base EXCEPT !.port = 80],
     [Base EXCEPT !.address = "a2"]}

(* Two texts of one address, another address and one that is not public.   *)
MCAddressOf == "a1" :> "1" @@ "a1 in full" :> "1" @@ "a2" :> "2" @@ "private" :> "private"

MCLimits ==
    [lifetime |-> 2, skew |-> 0, sessions |-> 1, attributions |-> 2, rules |-> 2, ports |-> 2,
     addresses |-> 1, flows |-> 3, destinations |-> 2]

List(set) == [members |-> set, repeated |-> FALSE]

Rule == [name |-> "api", normal |-> TRUE, protocol |-> "tcp", ports |-> List({443}),
         addresses |-> List({"a1"}), until |-> 1]

Session == [id |-> "s1", named |-> "plain", rules |-> <<Rule>>, flows |-> 3, destinations |-> 2]

Snapshot == [signed |-> TRUE, schema |-> TRUE, instance |-> TRUE, generation |-> 1, issued |-> 0,
             expires |-> 2, sessions |-> "s1" :> Session,
             attributions |-> <<[process |-> "agent", session |-> "s1"]>>]

(* A sound rule and one deviation from it for each check and each bound.   *)
Rules ==
    {Rule, [Rule EXCEPT !.normal = FALSE], [Rule EXCEPT !.addresses.repeated = TRUE],
     [Rule EXCEPT !.ports.repeated = TRUE]}
    \cup {[Rule EXCEPT !.ports = List(p)] : p \in {{}, {0}, {80, 443}, {22, 80, 443}}}
    \cup {[Rule EXCEPT !.addresses = List(a)] : a \in {{}, {"a1", "a2"}, {"a1", "a1 in full"}, {"private"}}}
    \cup {[Rule EXCEPT !.until = u] : u \in {0, 2, 3}}

RuleLists ==
    {<<>>} \cup {<<r>> : r \in Rules}
    \cup {<<[Rule EXCEPT !.protocol = "udp"], r>> : r \in Rules}
    \cup {<<Rule, Rule>>, <<Rule, [Rule EXCEPT !.until = 2]>>, <<Rule, Rule, Rule>>,
          <<Rule, [Rule EXCEPT !.name = "cdn"], [Rule EXCEPT !.protocol = "udp"]>>}

SessionSets ==
    {<<>>, "other" :> Session, "s1" :> Session @@ "s2" :> [Session EXCEPT !.id = "s2"]}
    \cup {"s1" :> [Session EXCEPT !.rules = r] : r \in RuleLists}
    \cup {"s1" :> [Session EXCEPT !.named = n] : n \in {"odd", "unusable"}}
    \cup {"s1" :> [Session EXCEPT !.flows = n, !.destinations = m] : n \in {0, 1, 4}, m \in {0, 1, 3}}

Bindings == [process : {"agent", "editor", "zero"}, session : {"s1", "other"}]

MCSnapshots ==
    {[Snapshot EXCEPT !.sessions = s] : s \in SessionSets}
    \cup {[Snapshot EXCEPT !.attributions = a] :
              a \in UNION {[1..n -> Bindings] : n \in 0..3}}
    \cup {[Snapshot EXCEPT !.issued = i, !.expires = x] : i \in -1..3, x \in 0..4}
    \cup {[Snapshot EXCEPT !.signed = a, !.schema = b, !.instance = c, !.generation = g] :
              a \in BOOLEAN, b \in BOOLEAN, c \in BOOLEAN, g \in {0, 1}}

MCSessionEnvelopes ==
    {[generation |-> g, sessions |-> Sessions, attributed |-> {"agent"}, issued |-> 0,
      expires |-> 3 - g] : g \in {1, 2}}

PolicyHost ==
    \/ activation # "active" /\ submit("activate")
    \/ Answered /\ activation' = "active"
    \/ ConfigureFilter \/ MaintainPolicy \/ Prepare \/ HostPublish \/ HostCommit
    \/ EnablePreferences \/ Loaded \/ Saved

PolicyPlane ==
    \/ \E f \in Flows : HandleFlow(f, now)
    \/ StartFilter \/ Reload \/ StopFilter \/ ProviderExit
    \/ PolicyHost \/ PublishSessions \/ CommitSessions \/ AbandonPublication \/ Tick

(* Requests come while the host works on nothing else, and so does what    *)
(* the provider does of its own accord, under an active extension.         *)
Idle == task = NoTask /\ op = NoOp

Activation ==
    /\ Idle
    /\ \/ activation = "active" /\ submit("deactivate")
       \/ activation # "active" /\ submit("activate")
       \/ activation = "unknown" /\ submit("inspect")
       \/ NeedsApproval
       \/ Answered

HostPlane ==
    /\ \/ Activation
       \/ RefreshEnrollment \/ RefreshPreferences \/ Loaded \/ Saved \/ OverdueSave
       \/ UserChangesPreferences \/ \E timedOut \in BOOLEAN : OperationFails(timedOut)
       \/ ConfigureFilter \/ MaintainPolicy \/ Prepare \/ HostPublish \/ HostCommit
       \/ EnablePreferences \/ HostRestart \/ Tick
       \/ Idle /\ activation = "active" /\ (StartFilter \/ PublishHealth \/ NewProviderKey)
       \/ Reload \/ StopFilter \/ ProviderExit
    /\ request # "none" => request' = "none" \/ activation' = "awaiting"
    /\ reading # NoReading => Reload \/ StopFilter \/ ProviderExit

MCInit == NetworkInit /\ plane \in {"policy", "host"}

MCNext ==
    /\ \/ plane = "policy" /\ PolicyPlane
       \/ plane = "host" /\ HostPlane
    /\ UNCHANGED plane

MCSpec == MCInit /\ [][MCNext]_<<networkVars, plane>> /\ WF_networkVars(Reload)
=============================================================================
