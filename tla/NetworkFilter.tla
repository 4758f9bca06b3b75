---------------------------- MODULE NetworkFilter ----------------------------
(***************************************************************************)
(* The macOS network filter: the two-file publication of a signed policy  *)
(* (NativeNetworkPolicyPublisher), the provider's reload of it            *)
(* (NativeNetworkPolicyCoordinator), its decisions on flows               *)
(* (NativeNetworkPolicyState, and the vigil-network crate as the portable *)
(* contract), the health the provider signs and the host pins and judges, *)
(* and the host's control of the filter preferences, whose operating      *)
(* system calls may time out and still complete later.                    *)
(*                                                                         *)
(* The signature and the digest of an envelope are modelled by the        *)
(* envelope itself: equal digests mean equal envelopes.                   *)
(***************************************************************************)
EXTENDS Integers, Sequences, FiniteSets

CONSTANTS
    Sessions,           \* agent sessions with a network policy
    Policies,           \* [Sessions -> [mode, rules, flows, destinations]]
    Owner,              \* process -> the session it is attributed to
    Flows,              \* the flows the kernel offers
    AddressOf,          \* text of an address -> the address that text denotes
    Snapshots,          \* signed snapshots as the verifiers decode them
    Limits,             \* their bounds: lifetime, skew and how much they may list
    SessionEnvelopes,   \* policies a daemon publishes, of the shape of NoEnvelope
    Lease,              \* lifetime of a bootstrap policy
    ReuseMargin,        \* remaining lifetime below which prepare renews
    MaxEvidenceAge,     \* oldest health evidence the host accepts
    Keys,               \* health signing keys of successive installations
    MaxGeneration,      \* bound: generations prepared
    MaxTime,            \* bound: readings of the wall clock
    MaxFaults           \* bound: crashes, failed and overdue operations, user changes,
                        \*        settings back of the clock

(* Absent values; `at` is the reading of the clock its work started with,  *)
(* `attributed` the processes a policy lists, `epoch` (a ghost) how often  *)
(* the clock had been set back when the health was signed.                 *)
NoEnvelope    == [generation |-> 0, sessions |-> {}, attributed |-> {}, issued |-> 0, expires |-> 0]
NoPublication == [owner |-> "none", envelope |-> NoEnvelope]
NoReading     == [step |-> "idle", before |-> NoEnvelope, envelope |-> NoEnvelope, at |-> 0]
NoTask        == [kind |-> "none", step |-> "none", envelope |-> NoEnvelope, at |-> 0]
NoHealth      == [generation |-> 0, expires |-> 0, observed |-> 0, key |-> 0, epoch |-> 0]
NoOp          == [owner |-> "none", step |-> "none"]

(* What the wire carries decodes to lists and unsigned numbers. A flow's   *)
(* hostname is plainly spelt, has a character that only the extension      *)
(* folds to ASCII (the Kelvin sign), or is malformed; a session name is of *)
(* the identifier alphabet, odd, or unusable (empty or too long).          *)
ASSUME NetworkAssumption ==
    /\ MaxTime \in Nat /\ Lease \in Nat /\ MaxEvidenceAge \in Nat /\ "none" \notin Sessions
    /\ \A f \in Flows : f.dots \in Nat /\ f.spelling \in {"plain", "folding", "malformed"}
    /\ \A s \in Sessions :
          /\ Policies[s].mode \in {"off", "observe", "prompt", "enforce"}
          /\ DOMAIN Policies[s].rules \subseteq Nat
    /\ \A e \in SessionEnvelopes : e.generation \in Nat /\ e.sessions \subseteq Sessions
    /\ \A s \in Snapshots :
          /\ s.generation \in Nat /\ s.expires \in Int /\ s.issued \in Int
          /\ Len(s.attributions) \in Nat /\ DOMAIN s.attributions = 1..Len(s.attributions)
          /\ \A key \in DOMAIN s.sessions :
                LET p == s.sessions[key] IN
                /\ p.flows \in Nat /\ p.destinations \in Nat
                /\ Len(p.rules) \in Nat /\ DOMAIN p.rules = 1..Len(p.rules)
                /\ p.named \in {"plain", "odd", "unusable"}
                /\ \A i \in DOMAIN p.rules :
                      p.rules[i].until \in Nat /\ IsFiniteSet(p.rules[i].addresses.members)
    /\ Limits.addresses \in Nat
    /\ Limits.flows \in Nat /\ Limits.destinations \in Nat

VARIABLES
    envelopeFile,   \* the published envelope
    recordFile,     \* the generation record: the envelope whose digest it names
    publishing,     \* holder of the publication lock and its envelope, between the writes
    provider,       \* down, starting or running
    reading,        \* the provider's reload in progress
    active,         \* the snapshot the provider enforces
    budgets,        \* [Sessions -> [flows, destinations]]
    providerKey, enrollmentFile, healthFile,
    activation,     \* host: state of the system extension
    request,        \* host: the system extension request in flight
    pin, evidence,  \* host: pinned health key and last provider evidence
    provisioning,   \* host: provisioningState
    task,           \* host: configureFilter or maintainPolicy in progress
    op,             \* host: preference operation in progress
    outcomeUnknown, \* host: an operation timed out
    lastAttempt,    \* host: maintenance cadence
    os,             \* filter preferences of the system; each operation loads them first
    overdue,        \* a save that timed out and may still reach the system
    now, faults,
    setBacks,       \* ghost: how often the clock was set back
    committed,      \* ghost: envelopes a record was written for
    enforced,       \* ghost: the highest generation ever enforced
    ran             \* ghost: when the provider was running, as <<setBacks, now>>

files    == <<envelopeFile, recordFile, publishing, committed>>
filter   == <<provider, reading, active, budgets, enforced>>
health   == <<providerKey, enrollmentFile, healthFile>>
host     == <<activation, request, pin, evidence, lastAttempt>>
prefs    == <<provisioning, task, op, outcomeUnknown, os, overdue>>
time     == <<now, setBacks, ran>>
env      == <<time, faults>>
networkVars == <<files, filter, health, host, prefs, env>>

Fault == faults < MaxFaults /\ faults' = faults + 1

-----------------------------------------------------------------------------
(* Flow decisions. A hostname is a name, its spelling and its trailing     *)
(* dots; rules keep the normalized name, and addresses as they are written. *)

Verdict(allow, reason) == [allow |-> allow, reason |-> reason]
Unmanaged == Verdict(TRUE, "unmanaged_process")
Pinned == Verdict(TRUE, "permit_pinned_destination")

managedDecision(mode, reason) ==
    Verdict(reason = "permit_pinned_destination" \/ mode \in {"off", "observe"}, reason)

SessionOf(f) ==
    IF f.process \in active.attributed /\ Owner[f.process] \in active.sessions
    THEN Owner[f.process] ELSE "none"

Named(rules, f) == {i \in DOMAIN rules : rules[i].name = f.name}
Matching(rules, f) == {i \in Named(rules, f) : rules[i].protocol = f.protocol}
First(rules, places) == rules[CHOOSE i \in places : \A j \in places : i <= j]

(* The Swift normalizeHostname folds case before it looks for characters   *)
(* outside ASCII, and drops one trailing dot; with another the last label  *)
(* is empty and the name malformed.                                        *)
normalizes(f) == f.spelling # "malformed" /\ f.dots <= 1

evaluate(policy, f, clock) ==
    LET rule == First(policy.rules, Matching(policy.rules, f)) IN
    IF ~f.outbound THEN "deny_inbound_flow"
    ELSE IF ~f.public THEN "deny_private_or_local_address"
    ELSE IF f.name = "none" THEN "deny_missing_hostname"
    ELSE IF f.name = "address" THEN "deny_direct_ip"
    ELSE IF ~normalizes(f) THEN "deny_malformed_hostname"
    ELSE IF Named(policy.rules, f) = {} THEN "deny_unknown_destination"
    ELSE IF Matching(policy.rules, f) = {} THEN "deny_protocol"
    ELSE IF f.port \notin rule.ports THEN "deny_port"
    ELSE IF clock < 0 THEN "deny_clock_unavailable"
    ELSE IF clock >= rule.until THEN "deny_resolution_expired"
    ELSE IF f.address \notin rule.addresses THEN "deny_resolution_mismatch"
    ELSE "permit_pinned_destination"

Destination(f) == <<f.name, f.port, f.protocol>>

exhausts(policy, budget, f) ==
    /\ Destination(f) \notin budget.destinations
    /\ Cardinality(budget.destinations) >= policy.destinations

budgetReason(policy, budget, f) ==
    IF budget.flows >= policy.flows THEN "deny_flow_budget"
    ELSE IF exhausts(policy, budget, f) THEN "deny_destination_budget"
    ELSE "permit_pinned_destination"

decideReason(f, clock) ==
    LET s == SessionOf(f)
        reason == evaluate(Policies[s], f, clock)
    IN IF clock < 0 THEN "deny_clock_unavailable"
       ELSE IF clock >= active.expires THEN "deny_policy_expired"
       ELSE IF Policies[s].mode = "off" THEN "mode_off"
       ELSE IF reason # "permit_pinned_destination" THEN reason
       ELSE budgetReason(Policies[s], budgets[s], f)

InvalidLease == {"deny_clock_unavailable", "deny_policy_expired"}

(* Mutant: an expired lease is answered in the session's mode instead of   *)
(* being enforced.                                                         *)
DecideInMode(f, clock) ==
    IF SessionOf(f) = "none" THEN Unmanaged
    ELSE managedDecision(Policies[SessionOf(f)].mode, decideReason(f, clock))

decideLocked(f, clock) ==
    IF SessionOf(f) = "none" THEN Unmanaged
    ELSE LET reason == decideReason(f, clock) IN
         managedDecision(IF reason \in InvalidLease THEN "enforce"
                         ELSE Policies[SessionOf(f)].mode, reason)

(* A flow that cannot be projected is managed by its process alone.        *)
decideIncomplete(f, clock) ==
    LET s == SessionOf(f) IN
    IF s = "none" THEN Unmanaged
    ELSE IF clock < 0 THEN managedDecision("enforce", "deny_clock_unavailable")
    ELSE IF clock >= active.expires THEN managedDecision("enforce", "deny_policy_expired")
    ELSE managedDecision(Policies[s].mode, "deny_incomplete_native_flow")

(* The vigil-network contract. Its normalize_hostname folds only ASCII and *)
(* drops every trailing dot, an address is compared as it parses, and only *)
(* Enforce and Prompt withhold a flow that is not permitted.               *)
normalize_hostname_ok(f) == f.spelling = "plain"
managed_decision(mode, reason) ==
    Verdict(reason = "permit_pinned_destination" \/ mode \notin {"prompt", "enforce"}, reason)

evaluate_destination(policy, f, clock) ==
    LET named == Named(policy.rules, f)
        first == First(policy.rules, named)
        rule == IF first.protocol = f.protocol THEN first
                ELSE First(policy.rules, Matching(policy.rules, f))
    IN IF ~f.outbound THEN "deny_inbound_flow"
       ELSE IF ~f.public THEN "deny_private_or_local_address"
       ELSE IF f.name = "none" THEN "deny_missing_hostname"
       ELSE IF f.name = "address" THEN "deny_direct_ip"
       ELSE IF ~normalize_hostname_ok(f) THEN "deny_malformed_hostname"
       ELSE IF named = {} THEN "deny_unknown_destination"
       ELSE IF Matching(policy.rules, f) = {} THEN "deny_protocol"
       ELSE IF f.port \notin rule.ports THEN "deny_port"
       ELSE IF clock < 0 THEN "deny_clock_unavailable"
       ELSE IF clock >= rule.until THEN "deny_resolution_expired"
       ELSE IF AddressOf[f.address] \notin {AddressOf[a] : a \in rule.addresses}
            THEN "deny_resolution_mismatch"
       ELSE "permit_pinned_destination"

decide(f, clock) ==
    LET s == Owner[f.process]
        policy == Policies[s]
        candidate == evaluate_destination(policy, f, clock)
    IN IF active.generation = 0 \/ f.process \notin active.attributed THEN Unmanaged
       ELSE IF s \notin active.sessions
            THEN managed_decision("enforce", "deny_unknown_destination")
       ELSE IF clock < 0 THEN managed_decision("enforce", "deny_clock_unavailable")
       ELSE IF clock >= active.expires THEN managed_decision("enforce", "deny_policy_expired")
       ELSE IF policy.mode = "off" THEN Verdict(TRUE, "mode_off")
       ELSE IF candidate = "permit_pinned_destination"
            THEN managed_decision(policy.mode, budgetReason(policy, budgets[s], f))
       ELSE managed_decision(policy.mode, candidate)

-----------------------------------------------------------------------------
(* Signed snapshots: what the extension accepts, and what the crate does.  *)
(* A session and an attribution are listed with the key they are listed    *)
(* under; `signed` says that the envelope is of the format, decodes and is *)
(* signed by the trusted key it names.                                     *)

RuleKey(r) == <<r.name, r.protocol>>

(* A list of the wire has members, and says whether one of them is written *)
(* twice; addresses are members that may denote the same address.          *)
bounded(members, limit) == members # {} /\ Cardinality(members) <= limit
addressesOf(r) == {AddressOf[a] : a \in r.addresses.members}

validRule(r, expires) ==
    /\ r.normal
    /\ bounded(r.ports.members, Limits.ports) /\ 0 \notin r.ports.members /\ ~r.ports.repeated
    /\ bounded(r.addresses.members, Limits.addresses) /\ ~r.addresses.repeated
    /\ "private" \notin addressesOf(r)
    /\ r.until > 0 /\ r.until <= expires

validWindow(s) ==
    s.issued >= 0 /\ s.expires > s.issued /\ s.expires - s.issued <= Limits.lifetime

(* NativeNetworkSnapshot.validate.                                         *)
validate(s) ==
    /\ s.schema /\ s.generation > 0 /\ validWindow(s)
    /\ Cardinality(DOMAIN s.sessions) <= Limits.sessions
    /\ Len(s.attributions) <= Limits.attributions
    /\ \A key \in DOMAIN s.sessions :
          LET p == s.sessions[key] IN
          /\ key = p.id /\ p.named = "plain"
          /\ Len(p.rules) <= Limits.rules
          /\ p.flows \in 1..Limits.flows /\ p.destinations \in 1..Limits.destinations
          /\ \A i \in DOMAIN p.rules :
                /\ validRule(p.rules[i], s.expires)
                /\ \A j \in 1..(i - 1) : RuleKey(p.rules[j]) # RuleKey(p.rules[i])
    /\ \A i \in DOMAIN s.attributions :
          /\ s.attributions[i].process # "zero"
          /\ s.attributions[i].session \in DOMAIN s.sessions
          /\ \A j \in 1..(i - 1) : s.attributions[j].process # s.attributions[i].process

(* NativeSignedNetworkPolicyVerifier.verify.                               *)
accepts(s, clock) ==
    /\ s.signed
    /\ s.instance
    /\ clock >= 0 /\ s.issued <= clock + Limits.skew /\ s.expires > clock
    /\ validate(s)

(* DestinationRule::validate. Ports and parsed addresses are sets by then: *)
(* what the wire repeated is gone.                                         *)
valid_rule(r) ==
    /\ r.normal
    /\ bounded(r.ports.members, Limits.ports) /\ 0 \notin r.ports.members
    /\ bounded(addressesOf(r), Limits.addresses) /\ "private" \notin addressesOf(r)
    /\ r.until # 0

(* SessionNetworkPolicy::validate.                                         *)
valid_session(p) ==
    /\ p.named # "unusable"
    /\ Len(p.rules) <= Limits.rules
    /\ p.flows # 0 /\ p.flows <= Limits.flows
    /\ p.destinations # 0 /\ p.destinations <= Limits.destinations
    /\ \A r \in {p.rules[i] : i \in DOMAIN p.rules} : valid_rule(r)
    /\ Cardinality({RuleKey(p.rules[i]) : i \in DOMAIN p.rules}) = Len(p.rules)

(* NetworkPolicySnapshot::validate.                                        *)
valid_snapshot(s) ==
    /\ s.schema /\ s.generation # 0 /\ validWindow(s)
    /\ Cardinality(DOMAIN s.sessions) <= Limits.sessions
    /\ Len(s.attributions) <= Limits.attributions
    /\ \A key \in DOMAIN s.sessions :
          LET p == s.sessions[key] IN
          /\ valid_session(p)
          /\ key = p.id
          /\ \A i \in DOMAIN p.rules : p.rules[i].until <= s.expires
    /\ LET bindings == {s.attributions[i] : i \in DOMAIN s.attributions} IN
       /\ \A b \in bindings : b.process # "zero" /\ b.session \in DOMAIN s.sessions
       /\ Cardinality({b.process : b \in bindings}) = Len(s.attributions)

(* NetworkPolicyVerifier::verify.                                          *)
verify_contract(s, clock) ==
    /\ s.signed
    /\ valid_snapshot(s)
    /\ s.instance
    /\ clock >= 0 /\ s.issued <= clock + Limits.skew /\ s.expires > clock

(* A rule repeats a port or an address, the same text or another for it.   *)
Repeats(r) ==
    \/ r.ports.repeated \/ r.addresses.repeated
    \/ \E a, b \in r.addresses.members : a # b /\ AddressOf[a] = AddressOf[b]

(* What only the contract accepts: a repetition, or an odd session name.   *)
Loose(p) == p.named = "odd" \/ \E i \in DOMAIN p.rules : Repeats(p.rules[i])

(* The extension accepts no snapshot the contract refuses, and the same    *)
(* ones where no session is loose.                                         *)
AcceptanceParity ==
    \A s \in Snapshots, clock \in -1..MaxTime :
        /\ accepts(s, clock) => verify_contract(s, clock)
        /\ (\A key \in DOMAIN s.sessions : ~Loose(s.sessions[key])) =>
              accepts(s, clock) = verify_contract(s, clock)

-----------------------------------------------------------------------------
(* Provider: flows, reload, start and stop.                                *)

(* project fails for a flow without a remote endpoint or an audit token.    *)
decision(f, clock) == IF f.projected THEN decideLocked(f, clock) ELSE decideIncomplete(f, clock)

NoBudget == [flows |-> 0, destinations |-> {}]

(* handleNewFlow: only a permitted flow leaves a trace in the provider.     *)
HandleFlow(f, clock) ==
    /\ provider = "running"
    /\ LET s == SessionOf(f) IN
       budgets' = IF /\ s # "none"
                     /\ decision(f, clock).reason = "permit_pinned_destination"
                  THEN [budgets EXCEPT ![s].flows = @ + 1,
                                       ![s].destinations = @ \cup {Destination(f)}]
                  ELSE budgets
    /\ UNCHANGED <<files, provider, reading, active, enforced, health, host, prefs, env>>

(* install keeps the budgets of the sessions that survive.                 *)
install(e) ==
    /\ active' = e
    /\ enforced' = IF e.generation > enforced THEN e.generation ELSE enforced
    /\ budgets' = [s \in Sessions |-> IF s \in e.sessions THEN budgets[s] ELSE NoBudget]

(* The policies published here are well formed: what is left of accepts.   *)
verify(e, clock) ==
    /\ e.generation > 0
    /\ e.issued <= clock + Limits.skew /\ e.expires > clock
    /\ \A p \in e.attributed : Owner[p] \in e.sessions

(* Mutant: the envelope is not held against the generation record.         *)
AdmitsWithoutRecord(before, e, after, clock) ==
    before = after /\ verify(e, clock) /\ e.generation >= active.generation

(* A reload accepts the envelope it read between two reads of the record.  *)
admits(before, e, after, clock) ==
    /\ before # NoEnvelope /\ before = after
    /\ verify(e, clock)
    /\ e.generation = after.generation
    /\ e = after
    /\ e.generation >= active.generation

(* A reload starts with a look at the clock and at the record.             *)
Reading == [NoReading EXCEPT !.step = "envelope", !.before = recordFile, !.at = now]

(* startFilter waits here for a reload that outlived the last stopFilter;  *)
(* in the code the two may overlap, and install refuses the older one.     *)
StartFilter ==
    /\ provider = "down" /\ os.config = "ours" /\ os.enabled
    /\ reading = NoReading
    /\ provider' = "starting"
    /\ reading' = Reading
    /\ UNCHANGED <<files, active, budgets, enforced, health, host, prefs, env>>

BeginReload ==
    /\ provider = "running" /\ reading = NoReading
    /\ reading' = Reading
    /\ UNCHANGED <<files, provider, active, budgets, enforced, health, host, prefs, env>>

ReadEnvelope ==
    /\ reading.step = "envelope"
    /\ reading' = [reading EXCEPT !.step = "finish", !.envelope = envelopeFile]
    /\ UNCHANGED <<files, provider, active, budgets, enforced, health, host, prefs, env>>

(* How a reload ends for the filter: it goes on as it was, or its start     *)
(* completes by publishing the health identity, or fails over that with    *)
(* the policy already installed.                                           *)
Started(admitted) ==
    \/ /\ admitted \/ provider # "starting"
       /\ provider' = IF provider = "starting" THEN "running" ELSE provider
       /\ enrollmentFile' = IF provider = "starting" THEN providerKey ELSE enrollmentFile
       /\ UNCHANGED faults
    \/ /\ ~admitted /\ provider = "starting"
       /\ provider' = "down"
       /\ UNCHANGED <<enrollmentFile, faults>>
    \/ /\ admitted /\ provider = "starting" /\ Fault
       /\ provider' = "down"
       /\ enrollmentFile' \in {enrollmentFile, providerKey}

(* Mutant: a running provider keeps the first policy it installed.         *)
FinishReloadOnce ==
    /\ reading.step = "finish"
    /\ reading' = NoReading
    /\ LET admitted == admits(reading.before, reading.envelope, recordFile, reading.at) IN
       /\ Started(admitted)
       /\ IF admitted /\ active.generation = 0 THEN install(reading.envelope)
          ELSE UNCHANGED <<active, budgets, enforced>>
    /\ ran' = IF provider' = "running" THEN ran \cup {<<setBacks, now>>} ELSE ran
    /\ UNCHANGED <<files, providerKey, healthFile, host, prefs, now, setBacks>>

(* A newer generation is installed, the active one is left as it is, and a *)
(* failed reload keeps the last snapshot. The first reload is part of      *)
(* startFilter.                                                            *)
FinishReload ==
    /\ reading.step = "finish"
    /\ reading' = NoReading
    /\ LET admitted == admits(reading.before, reading.envelope, recordFile, reading.at) IN
       /\ Started(admitted)
       /\ IF admitted /\ reading.envelope.generation > active.generation
          THEN install(reading.envelope)
          ELSE UNCHANGED <<active, budgets, enforced>>
    /\ ran' = IF provider' = "running" THEN ran \cup {<<setBacks, now>>} ELSE ran
    /\ UNCHANGED <<files, providerKey, healthFile, host, prefs, now, setBacks>>

(* stopFilter cancels the timers: the policy stays installed, and a reload *)
(* that is under way runs to its end.                                      *)
StopFilter ==
    /\ provider = "running" /\ Fault
    /\ provider' = "down"
    /\ UNCHANGED <<files, reading, active, budgets, enforced, health, host, prefs, time>>

(* The extension's process exits, and its memory is gone.                  *)
ProviderExit ==
    /\ provider # "down" \/ active # NoEnvelope
    /\ Fault
    /\ provider' = "down" /\ reading' = NoReading
    /\ active' = NoEnvelope /\ budgets' = [s \in Sessions |-> NoBudget]
    /\ UNCHANGED <<files, enforced, health, host, prefs, time>>

(* publishOnce: the loop that signs the provider's lease every ten seconds. *)
PublishHealth ==
    /\ provider = "running" /\ active.generation > 0
    /\ healthFile' = [generation |-> active.generation, expires |-> active.expires,
                      observed |-> now, key |-> providerKey, epoch |-> setBacks]
    /\ UNCHANGED <<files, filter, providerKey, enrollmentFile, host, prefs, env>>

(* The provider's keychain item is lost with a reinstallation.             *)
NewProviderKey ==
    /\ provider = "down" /\ Fault
    /\ \E k \in Keys : k > providerKey /\ providerKey' = k
    /\ UNCHANGED <<files, filter, enrollmentFile, healthFile, host, prefs, time>>

-----------------------------------------------------------------------------
(* Publication: the envelope first, the record second, under one lock.     *)

Publish(owner, e, clock) ==
    /\ publishing = NoPublication
    /\ verify(e, clock)
    /\ \/ /\ e.generation > recordFile.generation
          /\ envelopeFile' = e
          /\ publishing' = [owner |-> owner, envelope |-> e]
       \/ /\ e = recordFile                     \* republication completes a lost write
          /\ envelopeFile' = e
          /\ UNCHANGED publishing
    /\ UNCHANGED <<recordFile, committed>>

CommitRecord(owner) ==
    /\ publishing.owner = owner
    /\ recordFile' = publishing.envelope
    /\ committed' = committed \cup {publishing.envelope}
    /\ publishing' = NoPublication
    /\ UNCHANGED envelopeFile

PublishSessions ==
    \E e \in SessionEnvelopes :
        /\ Publish("daemon", e, now)
        /\ UNCHANGED <<filter, health, host, prefs, env>>

CommitSessions == CommitRecord("daemon") /\ UNCHANGED <<filter, health, host, prefs, env>>

(* A publisher that stops, or fails to write, between the two files.       *)
AbandonPublication ==
    /\ publishing.owner = "daemon" /\ Fault
    /\ publishing' = NoPublication
    /\ UNCHANGED <<envelopeFile, recordFile, committed, filter, health, host, prefs, time>>

(* prepare: the policy in the files while it is sound and lasts, otherwise *)
(* the next generation with no sessions.                                   *)
reusable(clock) ==
    /\ recordFile # NoEnvelope /\ envelopeFile = recordFile /\ verify(envelopeFile, clock)
    /\ envelopeFile.expires > clock + ReuseMargin

prepared(clock) ==
    IF reusable(clock) THEN recordFile
    ELSE [generation |-> recordFile.generation + 1, sessions |-> {}, attributed |-> {},
          issued |-> clock, expires |-> clock + Lease]

-----------------------------------------------------------------------------
(* Host: the preference operations.                                        *)

inspect(c) ==
    CASE c.config = "absent" -> "absent"
      [] c.config = "drifted" -> "drifted"
      [] OTHER -> IF c.enabled THEN "enabled" ELSE "disabled"

Done(outcome) == provisioning' = outcome /\ task' = NoTask

(* beginOperation, or the refusal the caller reports.                      *)
BeginOperation(owner) ==
    IF op = NoOp /\ ~outcomeUnknown
    THEN /\ op' = [owner |-> owner, step |-> "load"]
         /\ UNCHANGED <<provisioning, task>>
    ELSE /\ provisioning' = "refused"
         /\ task' = IF owner = "refresh" THEN task ELSE NoTask
         /\ UNCHANGED op

RefreshPreferences ==
    /\ task = NoTask /\ op.owner # "refresh"
    /\ BeginOperation("refresh")
    /\ UNCHANGED <<files, filter, health, host, outcomeUnknown, os, overdue, env>>

(* What follows a load, by who asked for it and how far it has got.        *)
Loaded ==
    /\ op.step \in {"load", "reload"}
    /\ CASE op.owner = "configure" /\ op.step = "load" ->
              op' = [op EXCEPT !.step = "save"] /\ UNCHANGED <<provisioning, task, lastAttempt>>
         [] op.owner = "configure" /\ op.step = "reload" ->
              /\ op' = NoOp
              /\ Done(IF inspect(os) = "enabled" THEN "enabled" ELSE "refused")
              /\ lastAttempt' = IF inspect(os) = "enabled" THEN task.at ELSE lastAttempt
         [] op.owner = "maintain" ->
              /\ op' = NoOp /\ UNCHANGED lastAttempt
              /\ IF inspect(os) = "enabled"
                 THEN task' = [task EXCEPT !.step = "prepare"] /\ UNCHANGED provisioning
                 ELSE Done(inspect(os))
         [] OTHER -> op' = NoOp /\ provisioning' = inspect(os) /\ UNCHANGED <<task, lastAttempt>>
    /\ UNCHANGED <<files, filter, health, activation, request, pin, evidence, outcomeUnknown, os,
                   overdue, env>>

Saved ==
    /\ op.step = "save"
    /\ os' = [config |-> "ours", enabled |-> TRUE]
    /\ op' = [op EXCEPT !.step = "reload"]
    /\ UNCHANGED <<files, filter, health, host, provisioning, task, outcomeUnknown, overdue, env>>

(* An operation fails, or its deadline wins the race: the outcome is       *)
(* unknown, and a save may still take effect.                              *)
OperationFails(timedOut) ==
    /\ op # NoOp /\ Fault
    /\ op' = NoOp
    /\ provisioning' = "refused"
    /\ task' = IF op.owner = "refresh" THEN task ELSE NoTask
    /\ outcomeUnknown' = (outcomeUnknown \/ timedOut)
    /\ overdue' = (overdue \/ (timedOut /\ op.step = "save"))
    /\ UNCHANGED <<files, filter, health, host, os, time>>

OverdueSave ==
    /\ overdue
    /\ overdue' = FALSE
    /\ os' = [config |-> "ours", enabled |-> TRUE]
    /\ UNCHANGED <<files, filter, health, host, provisioning, task, op, outcomeUnknown, env>>

UserChangesPreferences ==
    /\ os.config # "absent" /\ Fault
    /\ os' \in {[os EXCEPT !.enabled = FALSE], [os EXCEPT !.config = "drifted"],
                [config |-> "absent", enabled |-> FALSE]}
    /\ os' # os
    /\ UNCHANGED <<files, filter, health, host, provisioning, task, op, outcomeUnknown,
                   overdue, time>>

(* A request is in flight, or an inspection found one awaiting approval:   *)
(* the buttons are disabled.                                               *)
requestInFlight == activation \in {"submitting", "awaiting"}

(* The configure button: publish a policy, then enable the filter.         *)
ConfigureFilter ==
    /\ task = NoTask /\ ~requestInFlight
    /\ IF activation = "active"
       THEN /\ task' = [NoTask EXCEPT !.kind = "configure", !.step = "prepare", !.at = now]
            /\ UNCHANGED provisioning
       ELSE provisioning' = "refused" /\ UNCHANGED task
    /\ UNCHANGED <<files, filter, health, host, op, outcomeUnknown, os, overdue, env>>

(* The maintenance loop, at most once per reading of the clock.            *)
MaintainPolicy ==
    /\ task = NoTask /\ activation = "active" /\ provisioning = "enabled"
    /\ lastAttempt # now
    /\ lastAttempt' = now
    /\ IF op = NoOp /\ ~outcomeUnknown
       THEN /\ task' = [NoTask EXCEPT !.kind = "maintain", !.step = "status", !.at = now]
            /\ op' = [owner |-> "maintain", step |-> "load"]
            /\ UNCHANGED provisioning
       ELSE provisioning' = "refused" /\ UNCHANGED <<task, op>>
    /\ UNCHANGED <<files, filter, health, activation, request, pin, evidence, outcomeUnknown, os, overdue, env>>

Prepare ==
    /\ task.step = "prepare"
    /\ prepared(task.at).generation <= MaxGeneration
    /\ IF reusable(task.at)
       THEN IF task.kind = "configure"
            THEN task' = [task EXCEPT !.step = "preferences"] /\ UNCHANGED provisioning
            ELSE Done("enabled")
       ELSE /\ task' = [kind |-> task.kind, step |-> "publish", envelope |-> prepared(task.at),
                        at |-> task.at]
            /\ UNCHANGED provisioning
    /\ UNCHANGED <<files, filter, health, host, op, outcomeUnknown, os, overdue, env>>

(* Another publisher may have taken the generation since prepare read it:  *)
(* the publication is refused. Both use the time the task started with.    *)
HostPublish ==
    /\ task.step = "publish" /\ publishing = NoPublication
    /\ \/ /\ Publish("host", task.envelope, task.at)
          /\ task' = [task EXCEPT !.step = "commit"]
          /\ UNCHANGED provisioning
       \/ /\ task.envelope.generation <= recordFile.generation /\ task.envelope # recordFile
          /\ Done("refused")
          /\ UNCHANGED files
    /\ UNCHANGED <<filter, health, host, op, outcomeUnknown, os, overdue, env>>

HostCommit ==
    /\ task.step = "commit"
    /\ CommitRecord("host")
    /\ IF task.kind = "configure"
       THEN task' = [task EXCEPT !.step = "preferences"] /\ UNCHANGED provisioning
       ELSE Done("enabled")
    /\ UNCHANGED <<filter, health, host, op, outcomeUnknown, os, overdue, env>>

EnablePreferences ==
    /\ task.step = "preferences" /\ task.kind = "configure" /\ op.owner # "configure"
    /\ BeginOperation("configure")
    /\ UNCHANGED <<files, filter, health, host, outcomeUnknown, os, overdue, env>>

(* The host quits: the lock is released, what is on disk stays, and a new  *)
(* controller has no unknown outcome.                                      *)
HostRestart ==
    /\ Fault
    /\ publishing' = IF publishing.owner = "host" THEN NoPublication ELSE publishing
    /\ task' = NoTask /\ op' = NoOp /\ outcomeUnknown' = FALSE /\ provisioning' = "notAttempted"
    /\ activation' = "unknown" /\ request' = "none" /\ evidence' = NoHealth /\ lastAttempt' = -1
    /\ UNCHANGED <<envelopeFile, recordFile, committed, filter, health, pin, os, overdue, time>>

-----------------------------------------------------------------------------
(* Host: activation of the system extension and trust in its health.       *)

submit(operation) ==
    /\ request = "none" /\ ~requestInFlight
    /\ request' = operation /\ activation' = "submitting"
    /\ UNCHANGED <<files, filter, health, pin, evidence, lastAttempt, prefs, env>>

(* The delegate's callbacks: approval needed, finished, or found.          *)
NeedsApproval ==
    /\ request = "activate"
    /\ activation' = "awaiting"
    /\ UNCHANGED <<files, filter, health, request, pin, evidence, lastAttempt, prefs, env>>

Answered ==
    /\ request # "none"
    /\ activation' \in {"reboot", "failed"} \cup
          CASE request = "activate"   -> {"active"}
            [] request = "deactivate" -> {"inactive"}
            [] OTHER -> {"active", "inactive", "uninstalling", "awaiting"}
    /\ request' = "none"
    /\ UNCHANGED <<files, filter, health, pin, evidence, lastAttempt, prefs, env>>

(* verify the health envelope with the enrolled key, then pin that key.    *)
healthVerifies ==
    /\ healthFile # NoHealth /\ enrollmentFile # 0
    /\ healthFile.key = enrollmentFile
    /\ healthFile.observed <= now + Limits.skew
    /\ now - healthFile.observed <= MaxEvidenceAge
    /\ now < healthFile.expires

RefreshEnrollment ==
    /\ IF activation = "active" /\ healthVerifies /\ pin \in {0, enrollmentFile}
       THEN pin' = enrollmentFile /\ evidence' = healthFile
       ELSE UNCHANGED pin /\ evidence' = NoHealth
    /\ UNCHANGED <<files, filter, health, activation, request, lastAttempt, prefs, env>>

(* Mutant: evidence is trusted for as long as its policy lasts.            *)
PostureIgnoringAge ==
    IF activation # "active" THEN IF activation = "failed" THEN "broken" ELSE "observe_only"
    ELSE IF provisioning # "enabled" THEN IF provisioning = "drifted" THEN "broken" ELSE "degraded"
    ELSE IF evidence = NoHealth THEN "degraded"
    ELSE IF evidence.observed > now THEN "broken"
    ELSE IF now >= evidence.expires THEN "broken"
    ELSE "flow_evidence_unavailable"

(* evaluate: without a flow probe the best posture is that only the flow   *)
(* evidence is missing.                                                    *)
posture ==
    IF activation # "active" THEN IF activation = "failed" THEN "broken" ELSE "observe_only"
    ELSE IF provisioning # "enabled" THEN IF provisioning = "drifted" THEN "broken" ELSE "degraded"
    ELSE IF evidence = NoHealth THEN "degraded"
    ELSE IF evidence.observed > now THEN "broken"
    ELSE IF now - evidence.observed > MaxEvidenceAge THEN "broken"
    ELSE IF now >= evidence.expires THEN "broken"
    ELSE "flow_evidence_unavailable"

(* The wall clock moves on, or is set back.                                *)
Tick ==
    \E t \in 0..MaxTime :
        /\ \/ t > now /\ UNCHANGED <<setBacks, faults>>
           \/ t < now /\ setBacks' = setBacks + 1 /\ Fault
        /\ now' = t
        /\ ran' = IF provider = "running" THEN ran \cup {<<setBacks', t>>} ELSE ran
        /\ UNCHANGED <<files, filter, health, host, prefs>>

-----------------------------------------------------------------------------
NetworkInit ==
    /\ envelopeFile = NoEnvelope /\ recordFile = NoEnvelope /\ publishing = NoPublication
    /\ provider = "down" /\ reading = NoReading /\ active = NoEnvelope
    /\ budgets = [s \in Sessions |-> NoBudget]
    /\ providerKey = 1 /\ enrollmentFile = 0 /\ healthFile = NoHealth
    /\ activation = "unknown" /\ request = "none" /\ pin = 0 /\ evidence = NoHealth
    /\ provisioning = "notAttempted" /\ task = NoTask /\ op = NoOp /\ outcomeUnknown = FALSE
    /\ lastAttempt = -1
    /\ os = [config |-> "absent", enabled |-> FALSE] /\ overdue = FALSE
    /\ now = 0 /\ faults = 0 /\ setBacks = 0
    /\ committed = {} /\ enforced = 0 /\ ran = {}

Reload == BeginReload \/ ReadEnvelope \/ FinishReload

ProviderStep ==
    \/ \E f \in Flows, clock \in {now, -1} : HandleFlow(f, clock)
    \/ StartFilter \/ Reload \/ StopFilter \/ ProviderExit \/ PublishHealth \/ NewProviderKey

HostStep ==
    \/ \E operation \in {"activate", "deactivate", "inspect"} : submit(operation)
    \/ NeedsApproval \/ Answered \/ RefreshEnrollment
    \/ RefreshPreferences \/ Loaded \/ Saved \/ OverdueSave \/ UserChangesPreferences
    \/ \E timedOut \in BOOLEAN : OperationFails(timedOut)
    \/ ConfigureFilter \/ MaintainPolicy \/ Prepare \/ HostPublish \/ HostCommit
    \/ EnablePreferences \/ HostRestart

NetworkStep ==
    ProviderStep \/ HostStep \/ PublishSessions \/ CommitSessions \/ AbandonPublication \/ Tick

(* The reload loop's timer fires every ten seconds while the provider runs. *)
NetworkSpec == NetworkInit /\ [][NetworkStep]_networkVars /\ WF_networkVars(Reload)

-----------------------------------------------------------------------------
(* The provider enforces only envelopes whose record was committed, and    *)
(* never one older than it enforced before, across its own restarts and    *)
(* publishers that stop between the envelope and the record.               *)
EnforcedWasCommitted ==
    [][active' # active /\ active' # NoEnvelope =>
          active' \in committed /\ active'.generation >= enforced]_networkVars

(* A committed policy is enforced while the provider runs: the reload loop *)
(* reaches it unless the policy does not verify at the clock's reading (it  *)
(* expired, or the clock was set back behind its issue) or a publication is *)
(* left half done.                                                         *)
PublishedIsEnforced ==
    \A g \in 1 .. MaxGeneration :
        (recordFile.generation = g /\ provider = "running") ~>
            \/ active.generation >= g
            \/ provider # "running"
            \/ ~verify(recordFile, now)
            \/ envelopeFile # recordFile

(* The host presents a provider as ready only if it ran at a reading of    *)
(* the clock that is neither ahead of now nor older than the evidence age, *)
(* and of the stretch between two set-backs in which the evidence was      *)
(* signed, although the host reads a file the provider left. (Once the     *)
(* clock has been set back, its readings come round again: evidence of an  *)
(* earlier stretch is then believed although it is older than it looks.)   *)
ReadyMeansRecentlyRunning ==
    posture = "flow_evidence_unavailable" =>
        /\ \E t \in 0..now : <<evidence.epoch, t>> \in ran /\ now - t <= MaxEvidenceAge
        /\ evidence.generation <= enforced

(* Nothing in the flow is read differently by the two implementations.     *)
SameSpelling(f) ==
    /\ f.spelling # "folding" /\ f.dots <= 1
    /\ \A s \in Sessions : \A i \in DOMAIN Policies[s].rules :
          \A a \in Policies[s].rules[i].addresses :
              AddressOf[a] = AddressOf[f.address] => a = f.address

(* The Swift fast path and the portable contract decide a flow alike, to   *)
(* the reason, unless its hostname has a second trailing dot or a          *)
(* character that only Swift folds to ASCII, or a rule writes its address  *)
(* in another text; of these only the folded name is one the extension     *)
(* permits as a pinned destination and the contract not. Of signed snapshots *)
(* the extension accepts none that the contract refuses, and refuses one   *)
(* that the contract accepts only over a repetition or an odd session name. *)
FlowParity ==
    /\ \A f \in Flows, clock \in {now, -1} : f.projected =>
          /\ SameSpelling(f) => decideLocked(f, clock) = decide(f, clock)
          /\ f.spelling # "folding" /\ decideLocked(f, clock) = Pinned =>
                decide(f, clock) = Pinned
    /\ AcceptanceParity

=============================================================================
