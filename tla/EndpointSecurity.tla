-------------------------- MODULE EndpointSecurity --------------------------
(***************************************************************************)
(* The macOS Endpoint Security extension: the signed policy it installs   *)
(* over XPC, the generation it persists so that an accepted policy is     *)
(* never accepted again, the attribution of processes to agent sessions,  *)
(* and the decisions it makes on the kernel's messages.                   *)
(*                                                                         *)
(*   NativeXPCControlClient      ClientSend, ClientReceive, ClientTimeout  *)
(*   NativeXPCControlListener    Accept, Refuse, ExpirePeer               *)
(*   NativeEndpointControlService  Serve, FinishInstall                    *)
(*   NativeGenerationStore       commit, SyncDirectory, OtherCommit        *)
(*   NativeFastPathPolicyState   installSnapshot, bindRoot, decideLocked   *)
(*   MacOSEndpointSecuritySource Handle                                    *)
(*                                                                         *)
(* The kernel is external: it delivers the messages of one client in      *)
(* order, blocks a process until its authorization is answered, may drop  *)
(* a notification, and gives a process a new audit token when it executes *)
(* another image.  The second half of the decision rules is the portable  *)
(* contract of the vigil-endpoint crate, which the adapter must agree     *)
(* with.                                                                  *)
(***************************************************************************)
EXTENDS Integers, Sequences, FiniteSets

CONSTANTS
    Tokens,             \* audit tokens; a token names one execution and is never reused
    Sessions,           \* agent sessions
    Envelopes,          \* policies the client sends, as the verifiers read them
    Limits,             \* their bounds: lifetime, skew and how much they may list
    Strangers,          \* XPC peers the verifier does not authenticate
    Roots,              \* [Sessions -> workspace path classes]
    Executables,        \* [Sessions -> executable path classes]
    FilePaths,          \* the path classes managed processes name
    FileOperations,     \* the file authorizations they ask for
    OpenModes,          \* the sets of flags their opens ask for
    MaxAttributions,    \* the bound of the attribution table
    MaxPeers,           \* the bound of the listener's peers
    MaxOutstanding,     \* the bound of the client's outstanding requests
    MaxRequests,        \* bound: requests the client sends
    MaxMessages,        \* bound: messages the kernel sends
    MaxRestarts,        \* bound: restarts, power losses and competing instances
    MaxEffort,          \* bound: the three together
    MaxTime             \* bound: readings of the wall clock

None == "none"
Client == "client"
Protected == {"protected"}

(* The bits of an open's flags: the three the contract names, and any other. *)
OpenBits == {"read", "write", "execute", "other"}

Generations == {e.generation : e \in Envelopes}

ASSUME EndpointAssumption ==
    /\ None \notin Tokens /\ None \notin Sessions /\ IsFiniteSet(Sessions)
    /\ FileOperations \subseteq {"open", "create", "rename", "unlink"}
    /\ OpenModes \subseteq SUBSET OpenBits
    /\ \A s \in Sessions : "absent" \notin Executables[s]
    /\ Envelopes \subseteq
          [signed : BOOLEAN, schema : BOOLEAN, instance : BOOLEAN, normal : BOOLEAN,
           generation : Int, issued : Int, expires : Int, sessions : SUBSET Sessions,
           copies : Nat, roots : Nat, executables : Nat, prefixes : Nat]
    /\ Limits \in [lifetime : Nat, skew : Nat, sessions : Nat, roots : Nat, executables : Nat,
                   prefixes : Nat]

VARIABLES
    procs,          \* kernel: Tokens -> free, reserved, running, blocked or gone
    queue,          \* kernel: messages not yet handled by the extension
    sent,           \* kernel: number of messages sent so far
    attributions,   \* fast path: Tokens -> session or None
    policy,         \* fast path: the installed snapshot, generation 0 when there is none
    persisted,      \* control service: persistedGeneration
    generation,     \* generation store: its cached generation
    disk,           \* the generation file as a reader finds it
    durable,        \* the generation file as a power loss would leave it
    installing,     \* the install request between rename and directory sync
    peers,          \* listener: accepted peers
    wire,           \* requests on their way to the extension
    replies,        \* replies on their way to the client
    requests,       \* client: what it sent, with the outcome reported to its caller
    invalidated,    \* client: the connection is cancelled
    now,            \* wall clock
    restarts,
    lineage,        \* ghost: the session a live process was put under and never left
    deserted,       \* ghost: processes whose approved exec did not happen, or whose session a
                    \*   late fork replaced, and their children
    breaches,       \* ghost: of the managed processes granted what their session is not,
                    \*   whether each was deserted then
    activated       \* ghost: how often each generation became the enforced one

kernel  == <<procs, queue, sent>>
fast    == <<attributions, policy>>
store   == <<persisted, generation, disk, durable, installing>>
xpc     == <<peers, wire, replies, requests, invalidated>>
ghosts  == <<lineage, deserted, breaches, activated>>
endpointVars == <<kernel, fast, store, xpc, now, restarts, ghosts>>

(* Tokens no process has; a pending exec has reserved the one of its image. *)
Unborn == {"free", "reserved"}

(* Room for one more request, message or restart.                          *)
Within(count, bound) == count < bound /\ Len(requests) + sent + restarts < MaxEffort

NoPolicy  == [generation |-> 0, sessions |-> {}, expires |-> 0]
NoInstall == [id |-> 0, envelope |-> NoPolicy]

-----------------------------------------------------------------------------
(* Paths and decisions, as the Swift fast path makes them. A path class    *)
(* stands for all paths with the same answers to pathStatus and contains.  *)

Deny(reason)  == [allow |-> FALSE, reason |-> reason]
Allow(reason) == [allow |-> TRUE, reason |-> reason]

pathStatus(path) ==
    IF path = "truncated" THEN {Deny("truncated_path")}
    ELSE IF path = "malformed" THEN {Deny("malformed_path")}
    ELSE IF path \in Protected THEN {Deny("protected_path")}
    ELSE {}

decidePath(path, session) ==
    IF path = "absent" THEN Deny("malformed_path")
    ELSE IF pathStatus(path) # {} THEN CHOOSE d \in pathStatus(path) : TRUE
    ELSE IF path \in Roots[session] THEN Allow("workspace_path")
    ELSE Deny("outside_workspace")

(* Mutant: the allow list of executables is read before the protected paths. *)
DecideExecAllowFirst(target, path, session) ==
    IF target = None THEN Deny("malformed_identity")
    ELSE IF path \in Executables[session] THEN Allow("exact_executable")
    ELSE IF pathStatus(path) # {} THEN CHOOSE d \in pathStatus(path) : TRUE
    ELSE Deny("executable")

decideExec(target, path, session) ==
    IF target = None THEN Deny("malformed_identity")
    ELSE IF pathStatus(path) # {} THEN CHOOSE d \in pathStatus(path) : TRUE
    ELSE IF path \in Executables[session] THEN Allow("exact_executable")
    ELSE Deny("executable")

(* FREAD and FWRITE are all the adapter knows; an open asks for some of them. *)
knownOpenFlags(flags) == flags # {} /\ flags \subseteq {"read", "write"}

Notifications == {"fork", "exit"}

(* The verdict on an authorization message, before the attribution moves.  *)
(* A clock that cannot be read is -1.                                      *)
decideLocked(e, clock) ==
    LET session == IF e.actor = None THEN None ELSE attributions[e.actor] IN
    IF e.kind \in Notifications THEN Allow("notification")
    ELSE IF e.actor = None THEN Deny("malformed_identity")
    ELSE IF session = None THEN Allow("unmanaged")
    ELSE IF clock < 0 THEN Deny("clock_failure")
    ELSE IF clock >= policy.expires THEN Deny("expired_policy")
    ELSE IF session \notin policy.sessions THEN Deny("missing_session")
    ELSE IF e.kind = "exec" THEN decideExec(e.target, e.path, session)
    ELSE IF e.kind = "open" /\ ~knownOpenFlags(e.flags) THEN Deny("unknown_open_flags")
    ELSE IF e.kind = "rename" /\ decidePath(e.path, session).allow
    THEN decidePath(e.destination, session)
    ELSE decidePath(e.path, session)

Held == {t \in Tokens : attributions[t] # None}

(* Mutant: the last entry of the attribution table is never used.          *)
InheritBelowLimit(parent, child) ==
    IF /\ attributions[parent] # None
       /\ child # None
       /\ Cardinality(Held) < MaxAttributions - 1 \/ child \in Held
    THEN [attributions EXCEPT ![child] = attributions[parent]]
    ELSE attributions

(* inheritAttribution: a full table, or a child without a token, inherits nothing. *)
inheritAttribution(parent, child) ==
    IF /\ attributions[parent] # None
       /\ child # None
       /\ Cardinality(Held) < MaxAttributions \/ child \in Held
    THEN [attributions EXCEPT ![child] = attributions[parent]]
    ELSE attributions

(* What decideLocked leaves in the attribution table.                      *)
attributionsAfter(e, decision) ==
    CASE e.kind = "fork" -> inheritAttribution(e.actor, e.target)
      [] e.kind = "exit" -> [attributions EXCEPT ![e.actor] = None]
      [] e.kind = "exec" /\ decision.allow /\ attributions[e.actor] # None ->
             [attributions EXCEPT ![e.actor] = None, ![e.target] = attributions[e.actor]]
      [] OTHER -> attributions

-----------------------------------------------------------------------------
(* The same decision as the vigil-endpoint crate states it.                *)

path_status(path) ==
    IF path = "truncated" THEN "truncated_path"
    ELSE IF path \in {"malformed", "absent"} THEN "malformed_path"
    ELSE IF path \in Protected THEN "protected_path"
    ELSE "usable"

evaluate_workspace_path(path, session) ==
    IF path_status(path) # "usable" THEN Deny(path_status(path))
    ELSE IF path \in Roots[session] THEN Allow("workspace_path")
    ELSE Deny("outside_workspace")

evaluate_executable(target, path, session) ==
    IF target = None THEN Deny("malformed_identity")
    ELSE IF path_status(path) # "usable" THEN Deny(path_status(path))
    ELSE IF path \in Executables[session] THEN Allow("exact_executable")
    ELSE Deny("executable")

(* OPEN_KNOWN_FLAGS also holds the bit of an open for execution.           *)
open_flags_known(flags) == flags # {} /\ flags \subseteq {"read", "write", "execute"}

(* evaluate has no policy lease: expiry belongs to the snapshot verifier.  *)
evaluate(e, session, overdue) ==
    LET source == evaluate_workspace_path(e.path, session)
        destination == evaluate_workspace_path(e.destination, session)
    IN IF e.kind \in Notifications THEN Allow("notification")
       ELSE IF session = None THEN Allow("unmanaged")
       ELSE IF session \notin policy.sessions THEN Deny("missing_session")
       ELSE IF overdue THEN Deny("deadline_guard")
       ELSE IF e.kind = "exec" THEN evaluate_executable(e.target, e.path, session)
       ELSE IF e.kind = "open" /\ ~open_flags_known(e.flags) THEN Deny("unknown_open_flags")
       ELSE IF e.kind = "rename" /\ source.allow THEN destination
       ELSE source

(* What it leaves in the crate's attribution table.                        *)
apply_successful_transition(e, decision) ==
    LET session == attributions[e.actor] IN
    CASE e.kind = "exec" /\ decision.allow /\ session # None ->
             [attributions EXCEPT ![e.actor] = None, ![e.target] = session]
      [] /\ e.kind = "fork" /\ e.target # None /\ session # None
         /\ Cardinality(Held) < MaxAttributions \/ attributions[e.target] # None ->
             [attributions EXCEPT ![e.target] = session]
      [] e.kind = "exit" -> [attributions EXCEPT ![e.actor] = None]
      [] OTHER -> attributions

bind_root(process, session) ==
    IF process = None THEN "invalid_value"
    ELSE IF session \notin policy.sessions THEN "not_found"
    ELSE IF attributions[process] \notin {None, session} THEN "unauthorized"
    ELSE IF attributions[process] = None /\ Cardinality(Held) >= MaxAttributions
    THEN "budget_exhausted"
    ELSE "ok"

(* SessionEnforcementPolicy::validate, for every session listed.           *)
valid_sessions(e) ==
    e.sessions # {} => e.roots \in 1..Limits.roots /\ e.executables <= Limits.executables

(* FastPathState::new: the bounds of the table, paths that are complete,   *)
(* absolute and normalized, and no session twice.                          *)
valid_state(e) ==
    /\ Cardinality(e.sessions) * e.copies <= Limits.sessions
    /\ e.prefixes <= Limits.prefixes
    /\ e.normal
    /\ valid_sessions(e)
    /\ e.sessions # {} => e.copies = 1

validate_structure(e) ==
    /\ e.schema
    /\ e.generation > 0
    /\ e.issued >= 0 /\ e.expires > e.issued /\ e.expires - e.issued <= Limits.lifetime
    /\ valid_state(e)

(* EndpointPolicyVerifier::verify; `signed` says that the envelope is of   *)
(* the format, decodes, and is signed by the trusted key it names.         *)
verify_contract(e, clock) ==
    /\ e.signed
    /\ validate_structure(e)
    /\ e.instance
    /\ clock >= 0 /\ e.issued <= clock + Limits.skew /\ e.expires > clock

-----------------------------------------------------------------------------
(* The kernel's messages.                                                  *)

NoMessage ==
    [kind |-> "none", actor |-> None, target |-> None, path |-> "absent",
     destination |-> "absent", flags |-> {}]

Message(kind, actor) == [NoMessage EXCEPT !.kind = kind, !.actor = actor]

ForkMessage(p, c) == [Message("fork", p) EXCEPT !.target = c]
ExecMessage(p, t, path) == [Message("exec", p) EXCEPT !.target = t, !.path = path]
FileMessage(kind, p, path, destination, flags) ==
    [Message(kind, p) EXCEPT !.path = path, !.destination = destination, !.flags = flags]

Fork(p, c) ==
    /\ procs[p] = "running" /\ procs[c] = "free"
    /\ Within(sent, MaxMessages)
    /\ sent' = sent + 1
    /\ procs' = [procs EXCEPT ![c] = "running"]
    /\ queue' \in {queue, Append(queue, ForkMessage(p, c))}
    /\ UNCHANGED <<fast, store, xpc, now, restarts, ghosts>>

ExitProcess(p) ==
    /\ procs[p] = "running" /\ Within(sent, MaxMessages)
    /\ sent' = sent + 1
    /\ procs' = [procs EXCEPT ![p] = "gone"]
    /\ queue' \in {queue, Append(queue, Message("exit", p))}
    /\ UNCHANGED <<fast, store, xpc, now, restarts, ghosts>>

Request(p) ==
    /\ procs[p] = "running" /\ Within(sent, MaxMessages)
    /\ sent' = sent + 1
    /\ \/ \E t \in Tokens, path \in FilePaths :
              /\ procs[t] = "free"
              /\ procs' = [procs EXCEPT ![p] = "blocked", ![t] = "reserved"]
              /\ queue' = Append(queue, ExecMessage(p, t, path))
       \/ \E kind \in FileOperations, path \in FilePaths, destination \in FilePaths,
             flags \in OpenModes \cup {{}} :
              /\ kind # "rename" => destination = path
              /\ IF kind = "open" THEN flags \in OpenModes ELSE flags = {}
              /\ procs' = [procs EXCEPT ![p] = "blocked"]
              /\ queue' = Append(queue, FileMessage(kind, p, path, destination, flags))
    /\ UNCHANGED <<fast, store, xpc, now, restarts, ghosts>>

ExecTarget(e) == IF e.kind = "exec" THEN {e.target} ELSE {}

(* A fork puts the child under its parent's session, unless a session was  *)
(* bound to it first or the attribution table is full.                     *)
Adopts(e) ==
    /\ e.kind = "fork" /\ lineage[e.target] = None
    /\ Cardinality(Held) < MaxAttributions \/ e.target \in Held

(* The fork of a process that was bound to a session before it was handled *)
(* replaces that session by the parent's.                                  *)
Overrides(e) ==
    /\ e.kind = "fork" /\ e.target \in Held
    /\ attributions[e.actor] \notin {None, attributions[e.target]}

(* Handle one message: the deadline before the decision, the decision with *)
(* its attribution transition, the deadline after it, the answer. A denial *)
(* after the deadline replaces the answer and not the transition; the      *)
(* kernel may also fail an allowed exec for a reason of its own.           *)
Handle(early, late, fails, clock) ==
    /\ queue # <<>>
    /\ LET e == Head(queue)
           auth == e.kind \notin Notifications
           decided == ~auth \/ early
           decision == decideLocked(e, clock)
           allow == decided /\ decision.allow /\ ~(auth /\ late)
           executes == allow /\ e.kind = "exec" /\ ~fails
           strays == /\ decided /\ decision.allow /\ e.kind = "exec" /\ ~executes
                     /\ attributions[e.actor] # None
           s == lineage[e.actor]
       IN
       /\ queue' = Tail(queue)
       /\ attributions' = IF decided THEN attributionsAfter(e, decision) ELSE attributions
       /\ procs' = [t \in Tokens |->
            CASE t = e.actor /\ auth -> IF executes THEN "gone" ELSE "running"
              [] t \in ExecTarget(e) -> IF executes THEN "running" ELSE "gone"
              [] OTHER -> procs[t]]
       /\ lineage' = IF executes THEN [lineage EXCEPT ![e.actor] = None, ![e.target] = s]
                     ELSE IF Adopts(e) THEN [lineage EXCEPT ![e.target] = s]
                     ELSE IF e.kind = "exit" THEN [lineage EXCEPT ![e.actor] = None]
                     ELSE lineage
       /\ deserted' = IF strays THEN deserted \cup {e.actor}
                      ELSE IF \/ e.actor \in deserted /\ (executes \/ Adopts(e))
                              \/ Overrides(e)
                      THEN deserted \cup {e.target}
                      ELSE deserted
       /\ breaches' = IF /\ allow /\ auth /\ s # None
                         /\ ~evaluate(e, s, FALSE).allow
                      THEN breaches \cup {e.actor \in deserted} ELSE breaches
    /\ UNCHANGED <<sent, policy, store, xpc, now, restarts, activated>>

-----------------------------------------------------------------------------
(* The client of the control channel.                                      *)

Body(op) == [op |-> op, envelope |-> NoPolicy, token |-> None, session |-> None, generation |-> 0]

Pending == {i \in DOMAIN requests : requests[i].outcome = "pending"}

(* Report one outcome for each request still pending: the primary one gets *)
(* its own error, the others lose their connection.                        *)
invalidateAll(primary, error) ==
    [i \in DOMAIN requests |->
        IF i \notin Pending THEN requests[i]
        ELSE [requests[i] EXCEPT !.outcome = IF i = primary THEN error
                                             ELSE "connection_invalidated"]]

ClientSend(body) ==
    /\ Within(Len(requests), MaxRequests)
    /\ LET outcome == IF invalidated THEN "client_invalidated"
                      ELSE IF Cardinality(Pending) >= MaxOutstanding THEN "too_many_outstanding"
                      ELSE "pending"
       IN /\ requests' = Append(requests, [body |-> body, outcome |-> outcome])
          /\ wire' = IF outcome = "pending" THEN Append(wire, Len(requests) + 1) ELSE wire
    /\ UNCHANGED <<kernel, fast, store, peers, replies, invalidated, now,
                   restarts, ghosts>>

SendInstall == \E e \in Envelopes : ClientSend([Body("install_policy") EXCEPT !.envelope = e])

SendBind ==
    \E t \in Tokens, s \in Sessions, g \in Generations :
        /\ procs[t] \notin Unborn
        /\ ClientSend([Body("bind_root") EXCEPT !.token = t, !.session = s, !.generation = g])

ClientReceive ==
    \E r \in replies :
        /\ replies' = replies \ {r}
        /\ requests' = IF r.id \in Pending
                       THEN [requests EXCEPT ![r.id].outcome = r.code] ELSE requests
        /\ UNCHANGED <<kernel, fast, store, peers, wire, invalidated, now,
                       restarts, ghosts>>

(* A deadline, or an error of the connection, ends it for every request.   *)
ClientTimeout ==
    \E i \in Pending :
        /\ requests' = invalidateAll(i, "deadline_exceeded_outcome_unknown")
        /\ invalidated' = TRUE
        /\ UNCHANGED <<kernel, fast, store, peers, wire, replies, now,
                       restarts, ghosts>>

ConnectionLost ==
    /\ ~invalidated /\ Client \notin peers /\ Pending # {}
    /\ requests' = invalidateAll(0, "connection_invalidated")
    /\ invalidated' = TRUE
    /\ UNCHANGED <<kernel, fast, store, peers, wire, replies, now, restarts,
                   ghosts>>

NewClient ==
    /\ invalidated /\ Client \notin peers
    /\ invalidated' = FALSE /\ wire' = <<>> /\ replies' = {}
    /\ UNCHANGED <<kernel, fast, store, peers, requests, now, restarts,
                   ghosts>>

-----------------------------------------------------------------------------
(* The listener: a bounded set of peers, each dropped when it is idle,     *)
(* when it fails authentication, or when its connection ends.              *)

Accept(p) ==
    /\ p \notin peers
    /\ p = Client => ~invalidated
    /\ IF Cardinality(peers) < MaxPeers
       THEN peers' = peers \cup {p} /\ UNCHANGED <<requests, invalidated>>
       ELSE /\ p = Client
            /\ requests' = invalidateAll(0, "connection_invalidated")
            /\ invalidated' = TRUE
            /\ UNCHANGED peers
    /\ UNCHANGED <<kernel, fast, store, wire, replies, now, restarts, ghosts>>

Remove(p) ==
    /\ p \in peers
    /\ peers' = peers \ {p}
    /\ wire' = IF p = Client THEN <<>> ELSE wire
    /\ UNCHANGED <<kernel, fast, store, replies, requests, invalidated, now,
                   restarts, ghosts>>

(* An unauthenticated peer gets one fixed rejection and is disconnected;   *)
(* the idle timer removes any peer.                                        *)
Refuse(p) == p \in Strangers /\ Remove(p)
ExpirePeer(p) == Remove(p)

-----------------------------------------------------------------------------
(* The control service and the generation store.                           *)

Larger(a, b) == IF a > b THEN a ELSE b

(* NativeSignedPolicyVerifier.verify: the envelope, the schema and the      *)
(* instance, the window, the clock, and then the policies inside.          *)
verify(e, clock) ==
    /\ e.signed /\ e.schema /\ e.instance
    /\ e.generation > 0 /\ e.issued >= 0 /\ e.expires > e.issued
    /\ e.expires - e.issued <= Limits.lifetime
    /\ clock >= 0 /\ e.issued <= clock + Limits.skew /\ e.expires > clock
    /\ e.normal /\ e.prefixes <= Limits.prefixes
    /\ \/ e.sessions = {}
       \/ /\ e.roots > 0 /\ e.roots <= Limits.roots /\ e.executables <= Limits.executables
          /\ Cardinality(e.sessions) <= Limits.sessions /\ e.copies = 1

isReady(clock) == clock >= 0 /\ policy.generation > 0 /\ clock < policy.expires

(* A reply nobody waits for any more is discarded with its connection.     *)
reply(id, code) ==
    replies' = IF id \in Pending THEN replies \cup {[id |-> id, code |-> code]} ELSE replies

(* installSnapshot keeps the attributions of the sessions that survive.    *)
carriedAttributions(e) ==
    [t \in Tokens |-> IF attributions[t] \in e.sessions THEN attributions[t] ELSE None]

(* commit up to the rename: the cached generation, then, under the file    *)
(* lock, the generation on disk, then a synced temporary file and rename.  *)
commit(id, e) ==
    LET g == e.generation
        seen == Larger(generation, disk)
    IN
    \/ /\ g <= generation
       /\ persisted' = Larger(persisted, generation)
       /\ reply(id, "stale_generation")
       /\ UNCHANGED <<generation, disk, installing>>
    \/ /\ g > generation /\ g <= seen
       /\ generation' = seen
       /\ persisted' = Larger(persisted, seen)
       /\ reply(id, "stale_generation")
       /\ UNCHANGED <<disk, installing>>
    \/ /\ g > seen                              \* the temporary file cannot be written
       /\ generation' = seen
       /\ reply(id, "internal_failure")
       /\ UNCHANGED <<persisted, disk, installing>>
    \/ /\ g > seen
       /\ generation' = g /\ disk' = g
       /\ installing' = [id |-> id, envelope |-> e]
       /\ UNCHANGED <<persisted, replies>>

ServeInstall(id, e, clock) ==
    /\ IF ~verify(e, clock)
       THEN reply(id, "policy_rejected") /\ UNCHANGED <<persisted, generation, disk, installing>>
       ELSE IF e.generation <= persisted
       THEN reply(id, "stale_generation") /\ UNCHANGED <<persisted, generation, disk, installing>>
       ELSE commit(id, e)
    /\ UNCHANGED <<durable, attributions, ghosts>>

bindCode(b, clock) ==
    IF ~isReady(clock) THEN "not_ready"
    ELSE IF policy.generation # b.generation THEN "stale_generation"
    ELSE IF b.session \notin policy.sessions THEN "policy_rejected"
    ELSE IF attributions[b.token] = b.session THEN "ok"
    ELSE IF attributions[b.token] # None THEN "attribution_conflict"
    ELSE IF Cardinality(Held) >= MaxAttributions THEN "internal_failure"
    ELSE "ok"

ServeBind(id, b, clock) ==
    LET bound == bindCode(b, clock) = "ok" IN
    /\ reply(id, bindCode(b, clock))
    /\ attributions' = IF bound THEN [attributions EXCEPT ![b.token] = b.session]
                       ELSE attributions
    /\ lineage' = IF bound THEN [lineage EXCEPT ![b.token] = b.session] ELSE lineage
    /\ deserted' = IF bound THEN deserted \ {b.token} ELSE deserted
    /\ UNCHANGED <<store, breaches, activated>>

Serve(clock) ==
    /\ Client \in peers /\ wire # <<>> /\ installing = NoInstall
    /\ wire' = Tail(wire)
    /\ LET id == Head(wire)
           b == requests[id].body
       IN \/ b.op = "install_policy" /\ ServeInstall(id, b.envelope, clock)
          \/ b.op = "bind_root" /\ ServeBind(id, b, clock)
    /\ UNCHANGED <<kernel, policy, peers, requests, invalidated, now, restarts>>

(* Mutant: the snapshot is swapped in although the directory sync failed.  *)
SyncDirectoryRegardless(synced) ==
    /\ installing # NoInstall
    /\ installing' = NoInstall
    /\ LET e == installing.envelope IN
          /\ durable' = IF synced THEN disk ELSE durable
          /\ persisted' = e.generation
          /\ policy' = [generation |-> e.generation, sessions |-> e.sessions,
                        expires |-> e.expires]
          /\ attributions' = carriedAttributions(e)
          /\ lineage' = [t \in Tokens |->
                            IF lineage[t] \in e.sessions THEN lineage[t] ELSE None]
          /\ activated' = [activated EXCEPT ![e.generation] = @ + 1]
          /\ reply(installing.id, "ok")
    /\ UNCHANGED <<kernel, generation, disk, peers, wire, requests, invalidated,
                   now, restarts, deserted, breaches>>

(* The end of commit and of install: only a synced directory activates the *)
(* snapshot; a failed sync has used up the generation for this process.    *)
SyncDirectory(synced) ==
    /\ installing # NoInstall
    /\ installing' = NoInstall
    /\ IF synced
       THEN LET e == installing.envelope IN
            /\ durable' = disk
            /\ persisted' = e.generation
            /\ policy' = [generation |-> e.generation, sessions |-> e.sessions,
                          expires |-> e.expires]
            /\ attributions' = carriedAttributions(e)
            /\ lineage' = [t \in Tokens |->
                              IF lineage[t] \in e.sessions THEN lineage[t] ELSE None]
            /\ activated' = [activated EXCEPT ![e.generation] = @ + 1]
            /\ reply(installing.id, "ok")
       ELSE /\ reply(installing.id, "internal_failure")
            /\ UNCHANGED <<durable, persisted, fast, lineage, activated>>
    /\ UNCHANGED <<kernel, generation, disk, peers, wire, requests, invalidated,
                   now, restarts, deserted, breaches>>

(* Another instance of the extension, alive while the system replaces it,  *)
(* commits through the same file lock.                                     *)
OtherCommit(e) ==
    /\ installing = NoInstall
    /\ Within(restarts, MaxRestarts)
    /\ restarts' = restarts + 1
    /\ verify(e, now) /\ e.generation > disk
    /\ disk' = e.generation /\ durable' = e.generation
    /\ activated' = [activated EXCEPT ![e.generation] = @ + 1]
    /\ UNCHANGED <<kernel, fast, persisted, generation, installing, xpc, now, lineage,
                   deserted, breaches>>

(* The extension starts again; a power loss also forgets a rename that no  *)
(* directory sync confirmed, unless it reached the disk anyway.            *)
Restart(power) ==
    /\ Within(restarts, MaxRestarts)
    /\ restarts' = restarts + 1
    /\ disk' \in IF power THEN {disk, durable} ELSE {disk}
    /\ durable' = IF power THEN disk' ELSE durable
    /\ persisted' = disk' /\ generation' = disk' /\ installing' = NoInstall
    /\ policy' = NoPolicy /\ attributions' = [t \in Tokens |-> None]
    /\ queue' = <<>>
    /\ procs' = [t \in Tokens |-> CASE procs[t] = "blocked" -> "running"
                                    [] procs[t] = "reserved" -> "gone"
                                    [] OTHER -> procs[t]]
    /\ peers' = {} /\ wire' = <<>> /\ replies' = {}
    /\ requests' = IF power THEN invalidateAll(0, "lost") ELSE requests
    /\ invalidated' = (power \/ invalidated)
    /\ lineage' = [t \in Tokens |-> None] /\ deserted' = {}
    /\ UNCHANGED <<sent, now, breaches, activated>>

Tick ==
    /\ now < MaxTime
    /\ now' = now + 1
    /\ UNCHANGED <<kernel, fast, store, xpc, restarts, ghosts>>

-----------------------------------------------------------------------------
EndpointInit ==
    /\ procs \in {[t \in Tokens |-> IF t = root THEN "running" ELSE "free"] : root \in Tokens}
    /\ queue = <<>> /\ sent = 0
    /\ attributions = [t \in Tokens |-> None] /\ policy = NoPolicy
    /\ persisted = 0 /\ generation = 0 /\ disk = 0 /\ durable = 0 /\ installing = NoInstall
    /\ peers = {} /\ wire = <<>> /\ replies = {} /\ requests = <<>>
    /\ invalidated = FALSE
    /\ now = 0 /\ restarts = 0
    /\ lineage = [t \in Tokens |-> None] /\ deserted = {} /\ breaches = {}
    /\ activated = [g \in Generations |-> 0]

(* What processes do, and the extension's handling of it.                  *)
KernelStep ==
    \/ \E p, c \in Tokens : Fork(p, c)
    \/ \E p \in Tokens : ExitProcess(p) \/ Request(p)
    \/ \E early, late, fails \in BOOLEAN, clock \in {now, -1} : Handle(early, late, fails, clock)

(* Control requests that meet no fault.                                    *)
ControlStep ==
    \/ SendInstall \/ SendBind \/ ClientReceive
    \/ Accept(Client)
    \/ \E clock \in {now, -1} : Serve(clock)
    \/ \E synced \in BOOLEAN : SyncDirectory(synced)

FaultStep ==
    \/ ClientTimeout \/ ConnectionLost \/ NewClient
    \/ \E p \in Strangers : Accept(p) \/ Refuse(p)
    \/ \E p \in Strangers \cup {Client} : ExpirePeer(p)
    \/ \E e \in Envelopes : OtherCommit(e)
    \/ \E power \in BOOLEAN : Restart(power)

EndpointStep == KernelStep \/ ControlStep \/ FaultStep \/ Tick

EndpointSpec == EndpointInit /\ [][EndpointStep]_endpointVars

-----------------------------------------------------------------------------
(* A policy generation is spent once: whatever restarts, power losses,     *)
(* failed directory syncs and competing instances of the extension occur,  *)
(* no generation is activated twice, and an install the client was told    *)
(* succeeded survives a power loss.                                        *)
GenerationsAreSpent ==
    /\ \A g \in Generations : activated[g] <= 1
    /\ \A i \in DOMAIN requests :
          /\ requests[i].body.op = "install_policy" /\ requests[i].outcome = "ok"
          => durable >= requests[i].body.envelope.generation

(* A process under a session is granted no path and no executable that the *)
(* session's policy refuses, through forks, executions, policy swaps and   *)
(* reordered control requests.  ENDPOINT_SECURITY_MODEL.md says the child  *)
(* of a fork inherits the session; a descendant of a bound root is under   *)
(* it here only if, at every fork between them, the notification reached   *)
(* the extension and the attribution table had room for the child, if the  *)
(* extension has not restarted since, and if the installed policy still    *)
(* lists the session: the processes lost in those ways are unmanaged to    *)
(* decideLocked, which allows them everything, and are not covered.  Two   *)
(* kinds of covered process are excepted as well, with their children: one *)
(* whose approved execution did not happen, and one that was bound to a    *)
(* session and then put under its parent's by a late fork notification.    *)
ConfinedUnlessDeserted == FALSE \notin breaches

(* The claim without the exception: the adapter moves attribution only     *)
(* with an execution that happens, so a managed process stays managed.     *)
ManagedStaysConfined == breaches = {}

ProbePaths == {"workspace", "outside", "protected", "truncated", "malformed", "tool"}

(* One event for each way a path, an open flag, a rename destination, a    *)
(* child or an executed process can look; the actor is filled in.          *)
Probes(t) ==
         {Message("exit", t)}
    \cup {ForkMessage(t, u) : u \in Tokens \cup {None}}
    \cup {ExecMessage(t, u, path) : u \in {None, t}, path \in ProbePaths}
    \cup {FileMessage("open", t, path, path, {"read"}) : path \in ProbePaths \cup {"absent"}}
    \cup {FileMessage("open", t, path, path, flags) :
             path \in {"workspace", "outside"}, flags \in SUBSET OpenBits}
    \cup {FileMessage(kind, t, path, path, {}) : kind \in {"create", "unlink"}, path \in ProbePaths}
    \cup {FileMessage("rename", t, path, destination, {}) :
             path \in ProbePaths, destination \in {"workspace", "protected"}}

(* The policy e, and every policy that differs from it in one respect.     *)
Altered(e) ==
    {[e EXCEPT ![change[1]] = change[2]] :
        change \in ({"signed", "schema", "instance", "normal"} \X BOOLEAN)
              \cup ({"issued", "expires"} \X (-1..(Limits.lifetime + 2)))
              \cup ({"generation", "copies", "roots", "executables", "prefixes"} \X (0..2))}

Answers == [ok |-> "ok", not_found |-> "policy_rejected", unauthorized |-> "attribution_conflict",
            budget_exhausted |-> "internal_failure"]

(* The one difference between the two masks: an open that also asks for    *)
(* execution and for nothing the contract does not know.                   *)
AsksToExecute(e) ==
    e.kind = "open" /\ "execute" \in e.flags /\ open_flags_known(e.flags)

(* The extension and the portable contract agree.  For every event of a    *)
(* managed process, while the snapshot's lease lasts and the deadline      *)
(* allows an answer: on the verdict, the reason and the attributions left, *)
(* except that an open which asks for execution (OPEN_EXECUTE, a bit of    *)
(* the contract's mask that decideLocked's mask lacks) is judged by its    *)
(* path in the contract and refused for its flags by the extension, if the *)
(* session has a policy. On which process may be bound to which session.   *)
(* And, when a policy comes in, on accepting it or any policy that differs *)
(* in one respect.                                                         *)
EndpointParity ==
    /\ \A t \in Tokens : attributions[t] # None /\ now < policy.expires =>
          \A e \in Probes(t) :
             /\ decideLocked(e, now) =
                    IF AsksToExecute(e) /\ attributions[t] \in policy.sessions
                    THEN Deny("unknown_open_flags")
                    ELSE evaluate(e, attributions[t], FALSE)
             /\ \A d \in {decideLocked(e, now)} :
                    attributionsAfter(e, d) = apply_successful_transition(e, d)
    /\ isReady(now) => \A t \in Tokens, s \in Sessions :
          bindCode([token |-> t, session |-> s, generation |-> policy.generation], now)
              = Answers[bind_root(t, s)]
    /\ wire # <<>> => \A e \in {e \in Envelopes : e = requests[Head(wire)].body.envelope} :
          \A a \in Altered(e) : verify(a, now) = verify_contract(a, now)

=============================================================================
