# VIGIL: a TLA+ model of its authority, its server and its macOS extensions

VIGIL mediates what an AI agent may do. On a workstation (`vigil-local`, the
`vigil` command, the daemon) it decides each request against a profile, asks a
human where the profile says so, mints bounded leases, charges every effect to
a budget, watches a risk state that only rises, and can contain, terminate and
roll back a session. As a server (`vigil-core`, `vigil-gateway`) it decides tool
calls, signs capabilities for the permitted ones and redeems them. On macOS two
system extensions enforce signed policies on processes and on network flows.

This directory models those three systems, checks them with TLC on small
instances and proves with TLAPS, for every value of the constants, the central
invariants of the local authority, the brokers' ledgers, the event store,
process termination, the commands that read a history back, the MCP registry
and the server. Every definition is written from the source;
docs, comments and ADRs are cited where the code is compared with what they say.

## 1. The system

### 1.1 Inventory

| Component | State | Operations | What must be right |
|---|---|---|---|
| Policy ladder (`policy.rs`) | none (pure) | `evaluate`, `evaluate_in_context`, `evaluate_process`, `degrade_for_risk`, `apply_session_state` | more risk never permits more; protected objects stay refused whatever name reaches them |
| Risk (`risk.rs`, `detection.rs`) | signals, scores, `sessions.risk_state` | `record_risk_signal`, `escalate_risk_to` | monotone; reaching CONTAINED revokes leases in the same transaction |
| Approvals (`approval.rs`) | `approval_requests` | request, grant, deny, retire expired | one live request per fingerprint; a refusal is final; a contained session is granted nothing |
| Leases (`lease.rs`) | `capability_leases` | issue, consume one or several, revoke | never overspent, never used after expiry or revocation; several together or none |
| Authorization (`authorize.rs`, `canary.rs`) | none of its own: a chain of statements over the above | `authorize_decision` | safe whatever happens between two of its statements |
| Clock (`clock.rs`) | `clock_state.high_water` | `observe_now`, `observe_now_reporting` | effective time does not go back |
| Incidents and containment (`incident.rs`, `vigil contain`) | incidents, responses | open, attach, respond, seal | containment is permanent and complete |
| Budgets (`budget.rs`) | counters, reservations and items, destination claims | reserve, commit, refund | two tables that must agree; limits hold under concurrency |
| Brokers (`broker.rs`, `network_`, `process_`, `git_`, `secret_broker.rs`) | the call in flight | authorize, capture, reserve, perform, settle | effects are paid for, failures refunded, holds settled |
| Session lifecycle (`store.rs`, `vigil run`, `vigil session`) | `sessions.status`, process nodes | create, activate, run, finish, close, seal | a closed node has no live process |
| Termination (`terminate.rs`, `process_identity.rs`, `provenance.rs`) | process nodes | confirm, SIGTERM, wait, confirm, SIGKILL | never signals a process that took a recycled PID while VIGIL waited |
| Rollback (`rollback.rs`) | preimages and blobs | capture, check, restore, mark, report | COMPLETE means the original files |
| Store and event chain (`store.rs`, `checkpoint.rs`) | schema version, events, checkpoints | open, migrate, append, verify, checkpoint | an interrupted upgrade can be completed; the chain does not fork |
| MCP (`mcp.rs`, `mcp_proxy.rs`) | servers, tools, drift, a proxy's calls | register, sync, authorize call, quarantine, forward | a server's own words grant nothing; a refused call costs nothing |
| Core (`vigil-core`, `-policy`, `-remit`, `-trace`, `-detect`) | sessions, approval queue, requests in flight | decide, ingest, end session, approve, evict | approvals spent once; nothing leaves unrecorded; failing detectors do not look clean |
| Capabilities and gateway (`vigil-capability`, `vigil-gateway`) | issued tokens, nonces, redemptions in flight | issue, present, consume, invoke | only what was decided is executed, no more often than allowed |
| Audit log (`vigil-audit`) | entries, checkpoints, two files | append, checkpoint, stop, start, verify | a log that loads has every acknowledged record |
| Endpoint extension (`vigil-endpoint`, `VigilEndpointAdapter`) | snapshot, attributions, generation file, XPC requests | install, bind, decide, fork, exec, exit | descendants stay confined; a generation is spent once; Swift decides as Rust |
| Network extension (`vigil-network`, `VigilNetworkAdapter`, `VigilMacSupport`) | envelope and record files, snapshot, budgets, health, preferences | publish, reload, decide flow, publish health, configure, maintain | only committed policies are enforced, and they are; health evidence is recent |
| Sequences and reconciliation (`sequence.rs`, `reconcile.rs`, `vigil analyze`, `vigil reconcile`) | detections, risk signals, observations | read the history back, find stories and disagreements, record and charge each | a story is charged once; a refusal reported as observed has something behind it |
| Identity, protocol, common | none of their own | encodings | see section 6 |

### 1.2 How the parts interact

There is no server in the local system. Every broker, every `vigil` command and
the daemon is a process of its own that opens the same SQLite database. What is
atomic is one transaction, or one autocommitted statement; `authorize_decision`
is a chain of a dozen of them, and `vigil contain` is another chain. A
process may die after any of them. The system clock may be set either way, and
`clock_state` holds the highest reading seen. Processes of the agent are known
only by their PID, which the operating system reuses.

The core is one process with concurrent requests. A decision takes the session
lock once per stage and awaits the detectors in between. Sessions, approvals and
nonces are in memory and forgotten by a restart; the signing seeds and the audit
file are not. Core and gateway share the signing key and the clock: an agent
carries the token from one to the other.

An extension, the operating system and the host application are three actors.
The kernel blocks a process until its authorization is answered; policies come
over XPC (endpoint) or through two files in an App Group (network); either side
may be restarted at any time.

### 1.3 What is hard here

State read in one statement and used in a later one (risk before the lease is
spent, risk before a seal, the budget before the charge, the head before the
checkpoint); two askers of the same thing; the last use of a lease or the last
unit of a budget; a crash between an effect and its settlement, between a
record and its line end, between a rename and the sync of its directory, between
two files of one publication, between two files of one rollback; a PID that
changes hands during a grace period; an answer that is late; a clock that goes
back; the same contract written twice, in Rust and in Swift. `PROJECT.json`
lists each as a hazard at its line, with the properties that would catch it.

## 2. Modules

| Module | Models | Extends |
|---|---|---|
| `LocalPolicy` | `policy.rs`, the thresholds of `risk.rs` and the rules of `detection.rs`, as pure operators | |
| `PolicyLadder` | one question asked again and again while its session changes | `LocalPolicy` |
| `Retrospection` | the history of a session, and the commands that analyse and reconcile it, beside that question | `PolicyLadder` |
| `LocalAuthority` | `authorize_decision`, approvals, leases, risk, clock, grant, deny and contain over one database | `LocalPolicy` |
| `HumanAuthority` | what all of that promises: uses come only from a human's grant | |
| `Brokers` | the broker calls and the budget of one session | `LocalPolicy` |
| `EventStore` | open and migrate, the event chain and its checkpoints | |
| `McpProxy` | registry, drift, authorization of a call over all its resources, the proxy's two threads | `LocalPolicy` |
| `SessionLifecycle` | a session's status, its processes, termination by PID | |
| `Rollback` | brokered changes to files and their rollback, over the life of the session | `SessionLifecycle` |
| `DecisionRules` | the pure part of a server decision: lattice, manifests, remits, trace, rule language, risk score | |
| `Detectors` | the built-in detectors and their failures | `DecisionRules` |
| `CorePipeline` | Core: decisions as the steps between locks and awaits, sessions, approvals, issue, audit, restart | `Detectors` |
| `Gateway` | redemption of Core's tokens, the nonce store, restart; composes with Core | `CorePipeline` |
| `AuditLog` | the hash chain, its file and its checkpoints under failing writes and stops | |
| `EndpointSecurity` | the endpoint extension, its control channel and the kernel's messages; the Rust contract beside it | |
| `NetworkFilter` | publication, reload, flows, health, host tasks of the network extension; the Rust contract beside it | |
| `LocalAuthorityProofs`, `BrokersProofs`, `RetrospectionProofs`, `McpProofs` | theorems about the module they are named for | that module, `TLAPS` |
| `DurabilityProofs`, `LifecycleProofs`, `ServerProofs` | theorems about `EventStore`, `AuditLog` and `NetworkFilter`; about `SessionLifecycle`, `Rollback` and `EndpointSecurity`; about `Gateway` with all of Core | those modules, `TLAPS` |
| `CountingTheorems` | the least natural number of a set, and sums over finite sets, for the other proofs | `Functions`, `TLAPS` |
| `MC...` | instances for TLC | |

Operators named as a mutant in their comment are plausible bugs. They are used
in no specification: they exist so that each property can be shown to fail
when the code it watches is wrong.

### 2.1 LocalPolicy, PolicyLadder and Retrospection

Risk states are 0..4 in the order of the Rust enum. A path is a record of what
the ladder can learn about it: the category its name matches, whether it
resolves inside or outside the workspace or not at all, and the category of
what it resolves to. An executable is its resolution and its class. The evaluators
keep the source's order of checks: named category, resolution, resolved category,
the observe profile, then the profile ladder. `ApplySessionState` applies a lease
first and the risk floor last, as the code does.

`PolicyLadder` fixes a question and lets the session change under it: a risk
signal, an escalation, a lease that appears or goes. `decision` is always the
current answer.

`Retrospection` adds the session's log, what the operating system saw, and two
kinds of command that read them. `vigil analyze` reads the log, computes its
findings as a set (one operator per rule of `sequence.rs`), reads which of them
are recorded already, and takes the rest one by one: insert the detection,
charge the risk, open the incident or raise it, attach. `vigil reconcile`
compares declarations with observations and takes all it finds through the same
four statements, without looking up what was recorded before. The charge changes
the risk under which `PolicyLadder`'s question is answered. `bypassed` is
history: the operations that went past the brokers.

### 2.2 LocalAuthority

Variables are the tables (`scores`, `risk`, `status`, `approvals`, `leases`,
`mark`), the system clock `wall`, and where each process stands: `caller` for
`authorize_decision`, `operator` for the clock reading a grant or deny holds,
`responder` for `vigil contain`. `spent` is history: the uses that permitted
something.

A caller runs clock, (regression report), risk, consume, canary, detection,
denied?, pending?, insert, fatigue. Each is one statement or one transaction of
the code, and `CallerDies` may take it anywhere. The clock's read and update of its
mark are one step; the code's update is guarded so that it never moves the mark
back, and a reading takes effect where it reads the mark. A responder revokes,
raises the risk, and if it seals reads the status, reads the risk, then writes both.

An ask stands for a fingerprint (session, action, resolved resource) together
with the base decision the ladder gives it. Lease rows are keyed by the approval
that minted them. `RecordRiskSignal` includes the lease revocation, which the code
does in the same transaction.

### 2.3 HumanAuthority

Three variables: who holds a grant, the credit left on it, which sessions are
contained. A human grants to a session that is not contained; a use is spent;
credit is withdrawn; a session becomes contained and loses all its credit, for
good. `LocalAuthority` implements it under the mapping `HolderOf`, `CreditOf`,
`ContainedSessions`.

### 2.4 Brokers

One session, its counters, reservations and destination claims, and a set of
one-shot calls. A call goes through permit, capture, reserve, verify, perform,
commit or refund in the order of its kind (`Following`, from one order per broker method):
a delete captures before it reserves, a write and a rename after, and a git stage, which is
charged nothing (`FreeKinds`), goes from its permit to its effect without a reservation and
without a second look at the session. Every error path of the code is there,
including the ones that return with the reservation still held (a rename whose
capture fails, an executable that changed identity), which end in `gone` like
a dead process. `effect` is history: what has happened to the world, `late` if it
happened under a git child that was then killed, or a secret's provider, and was reported
as failed, `astray` if a connection was made to an address outside its validated
resolution (`PerformAstray`), which the broker refunds after the fact.

### 2.5 EventStore

Every process opens the store, and every open migrates it: thirteen steps, each
guarded by a read of `user_version` that is a statement of its own
(`CheckVersion`). Steps 1 to 7 and 9, 10, 12, 13 are one transaction that also
stores the version; the first seven create what is missing, the others create
unconditionally and fail if they find their work done. Step 8 lists the columns,
adds each missing one, links every event and stores the version, in separate
statements; step 11 fills counters and stores the version. A failed step refuses
the open.

The log is a sequence of events with their `previous_hash` and `chain_hash`. A
hash is the sequence of event numbers it commits to, so two hashes are equal
exactly when they cover the same history. An append is one transaction. A
checkpoint writer walks the rows, compares their number with the AUTOINCREMENT
mark, reads the last sequence and stores head and sequence: four statements. The
verifier lists the checkpoints, walks, and compares. `result` is what the process
last reported. Nobody tampers with the log in this model, so every alarm is a false
one. `contended` is history: whether two opens overlapped.

### 2.6 McpProxy

One session, one server name, its registered hash and baseline of tools. A proxy
has an agent side (`BeginCall` to `Forward`, one step per transaction of
`authorize_mcp_call`) and a server side (`ServerLists`, whose drift is queued in
`reports` and recorded against the session by `RecordDrift`). The operator
registers, synchronises, quarantines, grants, denies and contains. A call names
a sequence of resources: each is checked against the tool's capabilities and the
ladder, then all leases are spent in one transaction (`spent`, `Spend`) or the
missing ones are asked for, one approval per missing place of the call, in order. `declared`, `reached` and `usesEnded` are history.

### 2.7 SessionLifecycle and Rollback

`os` maps a PID to the process that holds it: a serial number nobody but the
model sees, an image (what `ps` prints), and whether it is alive or waiting to be
reaped. A launcher spawns, marks the session running (`vigil run`), records the
node, waits, closes the node and finishes the session, and may die anywhere. The
stopper is `vigil contain --terminate`: per node confirm, SIGTERM, poll, confirm
again, SIGKILL, poll. `hit` remembers who the last signal reached, and `late` and
`alike` why it may have reached somebody else: the PID changed hands between the
check and the signal right after it, or `ps` rendered both processes alike.

In `Rollback` a writer is one brokered write, delete or rename: admission, the
preimages with the clock's reading, then the change. A rollback takes the records
newest first: check, restore, mark, and a final report. `Abort` is an error or a
kill anywhere. `Foreign` is another program writing to a file. Timestamps are
ranks that may come in any order (the clock is read before the file and may be
set).

### 2.8 DecisionRules, Detectors, CorePipeline, Gateway

`DecisionRules` and `Detectors` are functions. Scores are integers in
ten-thousandths, the precision `round_score` keeps. A text is given by what the
tables and patterns find in it. `assess` combines the contributions in order.

A task of `CorePipeline` is one HTTP request: `Receive` (authentication, identity,
manifest), `Analyze` (trace under the session lock), `CheckBudget` (again under
it), `Evaluate` (approval, policy, detectors, risk, final decision), `Issue` or
`RaiseApproval`, `Record` (charges the session), `RecordDecision` (the audit
append, which may fail, and the release of the answer). Other handlers and the
maintenance loop interleave. `grants`, `tokens`, `audit` and `released` are what
has left: signed approvals, signed capabilities, records and answers.

A session's budget counts tool calls and model calls apart, as the ledger does.

`Gateway` redeems: `Present` (lifetime, caller and binding against the clock),
`Consume` (look and count under one hold of the nonce lock), `Invoke`. A restart forgets nonces;
nothing in the program purges them. Its `Next`
composes with every step of Core.

### 2.9 AuditLog

A file is a sequence of pieces: records, torn pieces, line ends. An append writes
the record, the line end, and syncs; each may fail. A process that stops leaves what it
wrote, synced or not; a power loss keeps what was synced and any prefix of the rest. A start
loads or refuses. `acknowledged` is what callers were told; `hasty` remembers that a
checkpoint was signed over a record that was not synced.

### 2.10 EndpointSecurity

Kernel (`procs`, `queue`), fast path (`policy`, `attributions`), control service and
generation store (`persisted`, `generation`, `disk`, `durable`), XPC listener and
client (`peers`, `wire`, `replies`, `requests`). `Handle` is one message from the
kernel: the decision, the attribution it moves, then the deadline guard. An install
is `Serve`, then `SyncDirectory`, which may fail. `disk` is what a reader finds,
`durable` what a power loss leaves. An exec in the queue reserves the token its new
image would have. An open asks for a set of flags, and each side has a mask of its own
(`knownOpenFlags`, `open_flags_known`). `lineage`, `deserted`, `breaches` and
`activated` are history: `lineage` is the session a process was put under by a bind, a
handled fork or an exec that happened, `deserted` the processes that lost it through an
approved exec that did not happen or a late fork that replaced it, with their descendants. `evaluate` is the Rust contract, `decideLocked` the Swift
fast path.

### 2.11 NetworkFilter

Publishers write the envelope, then the record; the provider reads record,
envelope, record (`BeginReload`, `ReadEnvelope`, `FinishReload`). `HandleFlow` decides
and charges a budget. The host activates the extension, configures and maintains
the filter through preference operations that may time out and still take effect
(`OverdueSave`), and judges signed health evidence (`posture`), against a clock that may be
set either way; `ran` and `epoch` are history: at which readings the provider ran, and how often
the clock had been set back (`setBacks`) by then. A start that installed its policy may still fail over its key or
enrollment (`Started`); `StopFilter` leaves the installed policy in memory, and only
`ProviderExit` loses it. `decideLocked` is the
Swift filter, `decide` the Rust contract. A hostname has a name, a spelling (plain, malformed, or
with a character only Swift folds to ASCII) and trailing dots; an address is a text, and `AddressOf`
(external: the address parsers of both platforms) says which address it writes. Snapshots are decoded lists, with
what each side checks of them, session names included.

## 3. Runs

| Run | Instance | Shows |
|---|---|---|
| `policy_ladder` | all profiles and actions, 12 path shapes, every executable class the ladder treats differently, 3 dimensions, weights 20 and 40; or one question while a session of 3 events is analysed and reconciled by 2 commands | `ProtectedIsNeverPermitted`; `AuthorityOnlyShrinks`: no sequence of signals, escalations, lease changes and commands widens an answer except by a lease; `OneDetectionPerStory`; `DeniedMeansTouched` |
| `reconcile_bypass` | as `policy_ladder` | violated: `DeniedMeansBypassed` |
| `authority_callers` | 2 callers, 1 ask, 2 request rows, time 0..1, leases of 1 or 2 uses | `LeaseLedger`, `OneLiveRequest`, `ExpiredBeforeAskNeverSpent`, `RefusedIsNotAskedAgain` |
| `authority_contain` | 1 caller, 3 asks (one a canary, one a labelled denial), 2 responders, 1 request row | `ContainedHoldsNoLease`, `ContainedSpendsNothing`, `ContainmentSticks`, `ImplementsHumanAuthority` (refinement) |
| `brokers` | 2 calls of any kind, every limit 1 to 3 | `LedgerBalances`, `EffectIsHeld`, `DestinationsPaidOnce`, `EndedSessionDrains`, `EveryHoldSettles` (liveness) |
| `mcp` | 1 proxy, 1 tool, 3 calls (two resources, the same twice, VIGIL's own files), leases of 2 uses, time 0..1 | `RefusalsAreFree`: a refused call leaves every lease as it was; `WireGrantsNothing`; `BaselineOnlyNarrows` |
| `lifecycle` | 2 launches or 2 writers, 1 PID, 2 images, 2 files (one too large to preserve), 1 foreign write; or an event log, 2 processes, a store at version 0, 7 or 13 with up to 3 events | `ClosedMeansStopped`, `StrangersAreSpared`, `CompleteMeansOriginal`; `LinksCoverHistory`, `NoFalseBreak`, `LoneOpenSucceeds` |
| `checkpoint_race` | the event log of `lifecycle` | violated: `CheckpointIsTheHead` |
| `server` | 2 requests in flight, 2 redemptions, a model call and a mail that needs approval, a budget of 1 tool call and 1 model call, failing injection detector, time 0..1, a restart of either side; or an audit log of 2 events, 3 records, 2 checkpoints, 2 stops | `ApprovalSpentOnce`, `ExecutionsAreDecided`, `BudgetOverrunBounded`, `SingleUsePerLife`; `NothingSilentlyLost`, `CleanLogVerifies` |
| `endpoint` | 2 sessions, 2 generations, the second keeping one of them, 3 process tokens, a table of 2 attributions, 3 kernel messages, 3 control requests, 1 restart, 5 of these three kinds in all | `GenerationsAreSpent`, `ConfinedUnlessDeserted`, `EndpointParity` |
| `network` | a session policy and the bootstrap policy, 2 generations, 17 flows, time 0..1 in both directions, 1 fault (a set-back of the clock is one), 2 provider keys, some 350 snapshots that differ from a sound one | `EnforcedWasCommitted`, `PublishedIsEnforced` (liveness), `ReadyMeansRecentlyRunning`, `FlowParity` |
| `endpoint_exec` | as `endpoint` | violated: `ManagedStaysConfined` |

### 3.1 Bounds, and why they are enough

*Policy ladder.* The ladder sees a path only through the classes enumerated. One
worker's findings can be recorded by another between its look-up and its insert;
two commands and three events (a refused read, a connection, a process) give
every rule of the analysis a story, and windows of zero and one second have both
sides of each boundary.

*Local authority.* Time 0..1 with lifetimes of one second has every case of the
clock code: a reading before, at and after an expiry, and a system clock behind
the mark (tolerance 0 makes every regression material). Two request rows let one
expire or be denied and another be opened. Two callers are what a race between
askers needs; two responders what a race between seals needs. Scores saturate at
the highest threshold, above which no rule tells them apart. The two authority
runs divide the work: one varies time and askers, the other risk and responders;
the theorems of section 4 join them.

*Brokers.* Limits of one or two units make the second call contend, and a write of
three bytes fails the single-write bound. Calls interact through the counters,
the claims and the risk only; that the limits hold for any number of calls is
proved.

*Event store.* It is explored in the same run as the session, as a part of its own
(`Parts`), since the models share no variable. The store is found fresh, just before the chain step, or current:
the three kinds of upgrade. Three events give a log that had events before the
chain, and an append during a checkpoint and after it.

*MCP.* One proxy has both threads, so a listing can arrive at every point of a
call; the operator and the clock act between any two steps. A call of two
resources can find one lease and miss the other, a call that names one resource
twice can find one use left. Two hashes let the binary be replaced.

*Lifecycle.* `Workloads` chooses one of `vigil run`, brokered processes and brokered
files per behaviour. Brokered processes and brokered files share the session's status
and nothing else, and combining them multiplies the states without a step of one
enabling a step of the other. One PID shared by two launches, strangers and the
stopper is the worst case of reuse. Two writers overlap, follow one another or
fail between record and change; renames touch both files; a rollback may be
interrupted and run again any number of times.

*Server.* Two requests check the budget before either charges it, and can present
one approval; two redemptions race for one nonce. `Opening` starts from a Core
with a mail approved and granted or one whose budget is spent, so that both ends of a
session's life are within two decisions.

*Audit log.* Three records let one be torn, the next be glued to it and another
follow; two stops let a resumed log stop again. The audit log is explored in the same run as Core
and the gateway, each with the other in its first state: Core's own `audit` stands for a log
that keeps what it took, and the two share no variable.

*Endpoint and network.* Both are explored in two planes (`plane` in the MC module),
each with the steps that can disturb one another: for the endpoint the control
channel with its faults, and the kernel's messages with control requests one at a
time, of which three install a policy and bind two processes; for the network the publishers, provider and flows, and the host with its
preferences and health evidence. In the network's host plane a system extension
request is answered, or put to the user, before the next step. A table of two
attributions with three tokens makes a fork meet a full table. An open asks to read, or to read and
execute. Two generations are
a policy and its successor, and the daemon's session policy and the host's bootstrap
policy compete for them.

Symmetry is used for callers, request rows, processes, launchers, images, writers,
tokens, tasks and redeemers: none has a distinguished member, and no run with
symmetry checks liveness.

### 3.2 Fairness and stopping

`Brokers`: weak fairness of each begun call's own steps. A call is straight-line
code on a thread of its own, and every external wait in it has a deadline.
`BrokerDies` is not fair and not excluded: `EveryHoldSettles` says that a hold
settles or its call is gone. `Begin`, `SessionEnds` and `RiskRises` are not fair.

`NetworkFilter`: weak fairness of `Reload`, the timer of
`NativeNetworkProviderPolicyReloadLoop`, which fires every ten seconds while the
provider runs and calls straight-line code. Publishers, the host and the clock are
not fair. `PublishedIsEnforced` excepts a provider that stops, a policy that does not verify (it expired, or
the clock was set back behind its issue) and a publication that is left half done.

Deadlock is checked in the authority runs. The others may stop: calls,
writers and requests are one-shot or bounded, and a quarantined session without a
lease has nowhere to go.

### 3.3 What the violations mean

`endpoint_exec`: the Endpoint Security handler first lets the fast path decide, and
an allowed `AUTH_EXEC` moves the session's attribution from the old audit token to
the target's. Only then does it look at the deadline, and if the margin is gone it
answers deny. The process keeps its old image and token, is no longer attributed,
and everything it does from then on is decided as unmanaged, that is, allowed.
`ENDPOINT_SECURITY_MODEL.md:45` says that attribution moves "only after allow".
`ConfinedUnlessDeserted` passes in the same instance, with more excepted than this: a process
bound to a session and then put under its parent's by a late fork message, and, because
`lineage` follows what the adapter was told, every descendant whose fork message was dropped
or met a full table, and every process attributed before a restart or under a session the installed policy no
longer lists. `ENDPOINT_SECURITY_MODEL.md:51` says that the child inherits the session, without
these limits.

`reconcile_bypass`: `declared_intents` reads a `REQUIRE_APPROVAL` event as a refusal, and
`reconcile` asks only whether some refusal names the observed path. What was sent to a
human, granted and executed by VIGIL itself is then reported as a denied operation observed, as
is what was executed first and refused later. `reconcile.rs:16` calls that finding "proof the broker was bypassed".
What does hold is `DeniedMeansTouched`.

`checkpoint_race`: `write_checkpoint` gets the head from a walk and the sequence from a later
statement. An event appended in between puts the old head under the new sequence, and from
then on the honest log fails its own checkpoint. `checkpoint.rs:44` calls it "A signed commitment to the chain head
at one sequence". What does hold is `CheckpointNamesAHead` (proved): the head is one the log had
at that sequence or before.

## 4. Theorems

All constants are arbitrary, under the named assumptions of the modules:
`AskAssumption` and `BoundAssumption` (asks are records of the shape
`authorize_decision` takes, bounds are numbers), `BrokerAssumption` (a finite set of calls,
limits and charges are numbers), `LadderAssumption`, `RetroAssumption`,
`StoreAssumption`, `AuditAssumption`, `LifecycleAssumption` (finitely many launchers), `RollbackAssumption` (a brokered
change names files of the workspace and is a write, a delete or a rename),
`McpAssumption` (finitely many tools and proxies, a manifest is what `tools/list` gives),
`CoreAssumption` (finitely many requests are in flight, and the states in which a Core may
be found are ones it can reach: its approvals are records of requests it has had, its
sessions are within their limits), `GatewayAssumption`, `EndpointAssumption` (envelopes and limits are
what the verifiers read, file authorizations are the four subscribed to) and
`NetworkAssumption` (a policy has one of the four modes, a decoded snapshot has lists and unsigned
numbers, addresses have texts). TLC evaluates
each on the instance of its run. Where TLC can evaluate an inductive invariant (those that
say of a record only that it has the fields of its kind it cannot) it was an invariant of a
run before it was proved.

`LocalAuthorityProofs`. `IInv` is `TypeInv /\ SealFollowsContainment /\
LeaseLedger /\ ContainedHoldsNoLease`. `ContainedHoldsNoLease` alone is not
inductive: a seal writes a remembered risk state, so one must also know that a
responder past its raise has a contained session and remembers a contained state
(`SealFollowsContainment`). Every step is first classified by
what it does to the tables (the lemmas on `AuthorityChange`: nothing, a signal,
a revocation, a charge, an insertion, a grant, a denial, a seal), and each kind
is then shown to preserve the invariant. The same classification gives
`ContainmentIsPermanent`, `ContainmentStopsSpending` and the refinement
`ImplementsHuman`. The three request properties rest on a second invariant, `RInv`,
over the callers' places: a refusal a caller began under still stands
(`RefusalsStand`), no caller past the lookup of refusals began under one
(`AskersKnowOfNoRefusal`; a refusal that comes after that look is not covered), and a caller's clock reading is not behind the mark it
began under (`ReadingsReachFloor`). That two inserts of one fingerprint do not both
succeed is the unique index's doing.

`BrokersProofs`. `IInv` is `TypeOK /\ StageHolds /\ EffectIsHeld`, where
`StageHolds` says which reservation a call at each stage holds: without it a
refund could be imagined after any effect. `EffectIsHeld` names the effects that are not held: a git
stage, a late one, and a connection that went astray. From it follow the limits
(`CountersStayWithinLimit`), `EffectsStayHeld` and the action property
`EndedSessionsDrain`. `CountersAreTheReservations` says that each counter is the
sum of the reservations behind it: a step that changes one reservation changes
the sum by its charge (the lemmas on sums). `EveryDestinationIsPaidOnce` needs to know
who owns each claim of a destination reached and kept: a pending claim belongs to the one call whose reservation
will settle it (`ClaimInv`).

`CountingTheorems`. A sum over a finite set is defined by the library through a choice of
the element to take next. That the order does not matter is proved by taking a
smallest set on which two orders disagree. The induction is on the cardinality, as
a statement about the least natural number of a set, which needs no induction
theorem with an operator as a parameter.

`RetrospectionProofs`. `AuthorityShrinks` and `ProtectedStaysProtected` are facts about
the evaluators, lifted to every step through the monotonicity of the scores.
`RetroInv` says of each command in flight which findings it has recorded and which
it still holds; `StoriesAreRecordedOnce` and `DenialsObservedHaveEvidence` follow.

`DurabilityProofs`. `ChainInv` ties the schema version and the place of each open
in the migration to the links of the log, and the place of each walk to the
prefix it has read; `LinksCoverHistory`, `NoFalseBreak` and `CheckpointNamesAHead`
follow. `LoneInv` adds, for opens that never overlapped, which work of the steps
exists at which version; `LoneOpenSucceeds` follows.
For the audit log, `KeptInv` is `Filed /\ Halfway /\ Acked`: an append that holds the lock
has its record behind everything synced, and the records acknowledged lie at increasing places
of the synced part (`AcknowledgedIsKept`). A file is read back as its records by their rank, the
number of records up to them, and the record of a rank is found as the end of the shortest prefix
that has so many. A prefix of the file therefore has a prefix of the records, which gives
`CleanInv`, `Chained /\ Checkpointed`: without a failed append the file and the chain in memory
hold the same records, each the successor of the one before, and a checkpoint names one of
the synced records, which no step takes away. `CleanLogsVerify` follows check by check of `verify_bundle`.

`LifecycleProofs`. `LifeInv` is `Tables /\ Serials /\ Holding /\ Stopping /\
ClosedMeansStopped`: a serial names one process for good, which launcher holds
which PID (an unreaped child keeps its PID, so the launcher's own signal cannot
miss), and what the stopper has confirmed at each of its steps. `CompleteRollbacksRestore`
rests on `RollInv`: the rows a rollback has turned back are later than those still ahead of
it, and a file nobody else disturbed, whose rows carry timestamps in the order they were made,
holds what the earliest row behind preserved, or what it held at the start. Rows recorded while it runs do not change the order of those it read. That a
newest row exists is again a least natural number.
The endpoint extension has three results there. `SpentInv` is `Numbers /\ Renamed /\ Told /\
Asking`: the generation file only moves up and its durable copy is behind it, a policy is
activated only after its directory was synced, so an activated generation is at most the durable
one, and a request that was told "ok", or will be by a reply on its way, is durable too;
`EveryGenerationIsSpentOnce` follows. `ConfInv` is `Typed /\ Following /\ Queued /\ Binding /\
ConfinedUnlessDeserted`: a process that was put under a session and is not deserted is attributed
to exactly that session as long as the installed policy lists it (`Following`), which needs to know that the processes the queue and
the requests name exist or are reserved, and that no two queued execs share a new image
(`Queued`, `Binding`); `ManagedAreConfined` follows. `AdapterKeepsTheContract` compares the Swift
and the Rust decision for each shape of event, an open that asks for execution excepted, and the
verifiers of the envelope bound by bound.

For the network filter (`DurabilityProofs`), `NetInv` is `Committing /\ Enforcing /\ Evidence`. A reload admits only what
both reads of the record name, so what is installed is the record of the moment, and the
record only moves up, because a publisher past its first write holds a higher generation
(`Committing`). What was ever enforced is therefore behind the record (`Enforcing`), and
`CommittedIsEnforced` follows. A health file and the evidence the host took from it carry a reading of the
clock, and a count of its set-backs, at which the provider ran (`Evidence`); that the host refuses evidence
dated ahead of its clock or too old then gives `ReadyProvidersRanRecently`. `ContractsAgree` compares the two
implementations definition by definition: that "the first rule of the name, or else the first of
name and protocol" is the first rule of both, that a list names as many things as it is long just
when it repeats none, and that the order of the checks makes no difference to the answer. The
theorem is stated up to the spellings and texts listed in section 5, and for those as far as one side is the stricter.

`McpProofs`. `McpInv` says that a registered tool has no capability beyond those an operator
declared (`Registry`), and that a call past its admission asks for nothing beyond them
either (`Calling`), although the registry may change between admission and forwarding.
That no synchronisation widens a baseline (`BaselinesOnlyNarrow`) comes from lemmas on
`drift`: it is empty only for a manifest that differs in nothing but fewer capabilities, and a
drift leaves the baseline alone.
`LeaseInv` keeps an account of the leases: what those of a resource have lost is what has ended
with a call plus what calls about to be forwarded carry. The loop of `consume_leases_atomically`
is a recursive function over the resources of a call; it is shown to exist up to any turn, and to
have taken, when it reports nothing missing, one use for each resource the call needs one for,
each from the lease that expires first among those still usable after the turns before.
`RefusedCallsAreFree` follows.

`ServerProofs`. `CoreInv` (`Logs`, `Tasking`, `Approving`, `Spending`, `Deciding`,
`Redeeming`) follows an approval from the queue to the token that rests on it and a
token from its signature to the record of its decision and to its execution, across
tasks in any number; `ApprovalsAreSpentOnce` and `OnlyDecidedIsExecuted` follow.
`UseInv` adds what the nonce of a token remembers: Core signs tokens for one use, and as long as
a token's count is below it no redemption of the token has run or is running in this life of the gateway. `TokensAreUsedOnce` follows.
`BudgetInv` counts, for each session and each kind of call, what it has spent and the tasks the budget check let
through that have not been charged: the sum stays below the limit plus the number of tasks,
because whoever is let through found a call to spare, and a charge takes its task out of the
count. That nothing later lets on a task the check refused needs the decision lattice: once a
layer says Deny, no policy, remit, detector, review or approval makes a permission of it
(`OutcomesWithinBudget`). A session that ended and came back starts at nothing, with the tasks
of its former life still to charge it. `OverrunIsBounded` follows.

Every safety invariant and action property of the passing runs is stated by a theorem. Only
model-checked, being out of the prover's reach, are `EveryHoldSettles` and
`PublishedIsEnforced` (liveness under fairness) and what the recursive score of
`assess` computes for every input.

## 5. Known differences

Behaviour of the code that the models have, that a run reaches, or that was met while
modelling, and that a comment, an ADR or a reader might not expect. No property of a passing run
excludes these, since the code does them; three are violations of section 3.3.

Local authority:
- `incident.rs:310`: a seal reads the risk state in one statement and `seal_session` writes it
  back in another, so a quarantine in between is lowered to CONTAINED, against
  `policy.rs:227` "it never decreases". It never leaves containment
  (`ContainmentSticks`, proved): a responder raises the risk to CONTAINED before it reads
  what it will write back.
- `approval.rs:293`: an expired request is stored as `denied`; the next ask is answered
  `PreviouslyDenied` and judged as probing, although `approval.rs:149` says "A human already
  refused this exact request".
- `policy.rs:496`: in an ELEVATED session an allowed mutation becomes an approval after the lease
  was looked at, so no lease satisfies it (ADR 0018 line 65, ADR 0017 line 12).
- `mcp.rs:1189`: the MCP path spends leases by the raw system clock, so a clock set back revives
  one; its preflight reads the risk before the spending transaction.
- `git_broker.rs:289`: a commit or push that landed before the deadline killed git is refunded,
  against `git_broker.rs:305`; a secret's provider that fails after acting is refunded alike.
- `network_broker.rs:290`: a connection found to have reached an address outside the validated resolution is
  refunded, with its destination claim, after it was made: the budget does not bound how many there are.
- `git_broker.rs:256`: a stage reserves nothing, so the session is not looked at again in a
  transaction, and a stage that had begun acts after the session has ended.
- `secret_broker.rs:234`: secret use reads grants and the status, never the risk (ADR 0018 lines
  65 and 68).
- A write of zero bytes is always refused and counted as a budget signal; a crash with a pending
  destination claim blocks that destination for the session.

Analysis and reconciliation:
- `reconcile.rs:417` takes a `REQUIRE_APPROVAL` for a refusal, so an operation that was asked for, approved
  and executed is reported as a denied operation observed (critical, weight 80), although
  `reconcile.rs:16` calls that "proof the broker was bypassed" (`reconcile_bypass`). The order of refusal and
  observation is not looked at either.
- The fingerprint of a finding contains counts and the other session, so a story that has grown is recorded
  again; two analyses that overlap record it twice; an analysis that dies between the detection
  and its charge leaves a story that is never charged. `reconcile` looks nothing up and charges again
  at every run.
- A rename declares only its destination. `interpreter_cascade` follows recorded parents, and no
  caller records one.

Store, lifecycle, rollback:
- `store.rs:998`: `migrate` reads `user_version` outside the step's transaction, and two racing opens
  of an old store can set the version back below existing tables, after which it does not
  open (`store.rs:947`, `:1393`). Crashes alone do no harm (`LoneOpenSucceeds`).
- `store.rs:793`: a checkpoint takes head and sequence from two statements; an append in between is given
  the old head, and every later verification of the honest log reports a mismatch (`checkpoint_race`).
- `store.rs:729`: a verification beside an append may report records removed from the end, once.
- `main.rs:3080` and `mark_running`: the status is overwritten unguarded, so a sealed session can become
  running or completed again.
- Rollback orders records by a clock that is read before the file. Overlapping writers or a clock set back,
  together with a write that failed or is still pending, can make a rollback report
  COMPLETE over content that is not the original (`rollback.rs:343`). `CompleteMeansOriginal` excepts
  files whose records are out of order.
- A record whose prior and later states are both absent makes every rollback of the session abort when
  it removes the file. A brokered write still in flight lands after a rollback that is
  reported complete. Only `running` sessions are refused; `starting` ones are not.
- No caller records a parent process, so "deepest first" has nothing to order. Start times have a
  resolution of one second: two processes that took one PID within a second read alike.

MCP:
- The first live listing of a server without a baseline records its tools with no capabilities, which then
  blocks the operator's own declaration; a listing in pages reads as drift; a server
  cannot be registered again; resources beyond the extraction limits are forwarded unchecked; the
  executable can change between verification and spawn.

Server:
- The nonce store is forgotten by a restart, so `SingleUsePerLife` speaks of one life of the gateway;
  `purge_expired` is called by a unit test only, and nonces are kept until the restart.
- A session's budget can be overrun by the requests in flight (`BudgetOverrunBounded` says by how much).
- A process that stops between its write and its `sync_all` leaves a record that the next start loads and nobody
  syncs; a checkpoint signed over it is synced, so a power loss before the next append leaves a log that reports
  `TruncatedBelowCheckpoint` although nobody touched it (`lib.rs:301`, `sink.rs:110`). `CleanLogVerifies` excepts it.
- `sink.rs:104` says "written in a single call"; there are two, so a stop can leave a record without its
  line end, and the next record on the same line. A log like that is refused at the next start.
- `remit_version` of a capability is never read; `PresentedAction` has no target for a
  database action; `must_fail_closed` has no caller; the injection detector sees trace content only when the adapter
  passes it along.

Endpoint and network:
- A process that is bound to a session before its fork notification is handled is put under its parent's session
  when it is (`NativeFastPathPolicy.swift:422`; the Rust contract inherits the same way), and its children with it.
- A root that is bound after it forked leaves the earlier children unmanaged, as does a dropped fork message or a
  full table. Binding a token that has exited leaves an entry nobody removes.
- The Rust contract allows an event with a zero actor token as unmanaged where Swift denies it, and denies an
  attributed process without a policy where Swift treats it as unmanaged. `EndpointParity` is about managed
  processes while the lease lasts.
- Rust's `Path::components` drops an interior `.`, so the contract takes `/work/./x` where Swift calls it
  malformed. Swift's network verifier rejects repeated ports and addresses, and session names with characters
  the Rust contract accepts.
- `vigil-endpoint/src/lib.rs:30` knows read, write and execute flags of an open, `NativeFastPathPolicy.swift:320` only read and
  write: an open that asks for execution is judged by its path in Rust and refused in Swift. `EndpointParity` excepts it.
- Rust trims every trailing dot of a host name, Swift one, so Swift refuses a second dot as malformed. Swift lowercases by
  Unicode, where the Kelvin sign becomes a plain k, and permits a name Rust refuses. A rule's address is compared as text
  in Swift (`NativeNetworkPolicy.swift:380`) and as a parsed address in Rust (`lib.rs:462`), so another text of a
  pinned address is refused by Swift only. `FlowParity` is stated outside these three.
- Rust denies an attributed process whose session is missing (`lib.rs:353`), Swift treats it as unmanaged (`NativeNetworkPolicy.swift:303`);
  no snapshot either verifier accepts has one.
- Health evidence dated ahead of the host's clock is refused (`NetworkEnforcementHealth.swift:215`); but once the clock is
  set back and comes round to an old reading, evidence from before is believed although it is older than it looks.
- A reload that was under way when the filter stopped may finish after a new start began; the model lets the start wait for
  it (`StartFilter`), since `install` refuses the older of the two.
- Preparing the bootstrap policy near its expiry replaces a session policy by an empty one. Dropping and re-adding a
  session, or a provider restart, replenishes its flow budget.
- A preference operation that times out blocks renewal until the application is started again; `inspect` answered
  by "awaiting user approval" leaves a request in flight.

## 6. Not modelled

Text: path resolution, category tables, host and argument validation, glob
matching, redaction, encodings, hashes and signatures are represented by their
verdicts. Evidence rows (events, detections, incidents) are kept
only where a modelled command reads them back (`Retrospection`, `EventStore`). The standing a workspace inherits from earlier sessions, canary planting, secret
metadata, the keychain, DNS and address policy of the network broker, the daemon's
framing and confined reads, HTTP transport, the gateway's credential brokers, the
user interface, the Python SDK and the laboratories are not modelled.
`PROJECT.json` gives the reason for each.

## 7. Plan

What remains to state and prove:
1. Abstract specifications, and their refinement, for the components that have none yet.
