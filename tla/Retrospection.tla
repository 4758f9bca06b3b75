---------------------------- MODULE Retrospection ----------------------------
(***************************************************************************)
(* What VIGIL concludes about a session after the fact: `vigil analyze`    *)
(* (sequence.rs analyze_session) looks for stories that take several       *)
(* events, `vigil reconcile` (reconcile.rs reconcile_session) compares     *)
(* what the session declared with what the operating system saw.  Both     *)
(* record detections, load the risk of the session and open its incident   *)
(* (detection.rs, incident.rs), so both change the answer to the question  *)
(* PolicyLadder asks.                                                      *)
(*                                                                         *)
(* A command is a chain of statements: it reads the log, reads what was    *)
(* found before, and then per finding inserts the detection, loads the     *)
(* risk, opens the incident and attaches to it.  Other commands and the    *)
(* session itself act in between, and a command may die anywhere.          *)
(*                                                                         *)
(* An event is what its readers take from it.  The event each command ends *)
(* with (analysis.completed, reconcile.report) is a step of no story and   *)
(* declares nothing, and is left out, as is interpreter_cascade: it        *)
(* follows recorded parents, and no caller records one.                    *)
(***************************************************************************)
EXTENDS PolicyLadder, Sequences, FiniteSetsExt

CONSTANTS
    Doings,               \* events the session may leave in the log, but for their time
    Bypasses,             \* operations that reach the system past the brokers
    Refusals,             \* detections of other sessions that name a resource
    Inside,               \* resources inside the workspace
    ArchiveTools,         \* ARCHIVE_TOOLS
    SequenceWindow,       \* SEQUENCE_WINDOW
    FanOutWindow,         \* FAN_OUT_WINDOW
    FanOutThreshold,      \* FAN_OUT_THRESHOLD
    CollectionThreshold,  \* COLLECTION_THRESHOLD
    LaunderingWindow,     \* LAUNDERING_WINDOW
    Workers,              \* processes that analyze or reconcile
    MaxEvents,            \* bound on the events of the session
    MaxNow,               \* bound on the clock
    MaxJobs               \* bound on the commands run

Findings == {"sensitive_read_then_egress", "archive_before_egress", "process_fan_out",
             "capability_laundering"}
Mismatches == {"denied_operation_observed", "intent_resource_mismatch",
               "undeclared_side_effect", "undeclared_child_process", "scope_expansion"}

(* The order in which a command reports what it found.                     *)
Order == <<"sensitive_read_then_egress", "archive_before_egress", "process_fan_out",
           "capability_laundering", "denied_operation_observed", "intent_resource_mismatch",
           "undeclared_side_effect", "undeclared_child_process", "scope_expansion">>

Events == [category: STRING, action: STRING, decision: STRING, label: STRING, resource: STRING,
           at: Nat]

ASSUME RetroAssumption ==
    /\ \A label \in Findings \cup Mismatches : RuleForLabel(label).dimension \in Dimensions
    /\ Doings \subseteq Events
    /\ FanOutThreshold \in Nat \ {0} /\ CollectionThreshold \in Nat \ {0}
    /\ SequenceWindow \in Nat /\ FanOutWindow \in Nat /\ LaunderingWindow \in Nat
    /\ MaxEvents \in Nat /\ MaxNow \in Nat /\ MaxJobs \in Nat

VARIABLES
    now,         \* the system clock
    log,         \* the session's events
    others,      \* detections of other sessions, with their time
    observed,    \* what the operating system saw
    bypassed,    \* the part of it no broker did (history)
    detections,  \* the session's rows of `detections`
    incident,    \* severity of the session's open incident, or "none"
    worker,      \* where each command is
    jobs,        \* commands begun so far
    overlapped   \* whether two commands ever ran at once (history)

retroVars == <<now, log, others, observed, bypassed, detections, incident, worker, jobs,
               overlapped>>

NoStory   == [count |-> 0, from |-> "none", to |-> "none"]
NoFinding == [label |-> NoLabel, story |-> NoStory]
Idle      == [pc |-> "idle", todo |-> {}, finding |-> NoFinding]

RetroInit ==
    /\ Init
    /\ now = 0 /\ log = <<>> /\ others = {} /\ observed = {} /\ bypassed = {}
    /\ detections = <<>> /\ incident = "none"
    /\ worker = [w \in Workers |-> Idle] /\ jobs = 0 /\ overlapped = FALSE

-----------------------------------------------------------------------------
(* The session and its surroundings.                                       *)

(* What the operating system sees of an event: an executed operation on a  *)
(* file, or a process started.                                             *)
kinds == [a \in {"fs.read", "process.exec"} \cup MutationActions |->
            CASE a = "fs.read" -> "read" [] a = "process.exec" -> "exec"
              [] a = "fs.write" -> "write" [] a = "fs.create" -> "create"
              [] a = "fs.delete" -> "delete" [] a = "fs.rename" -> "rename"]

seen(e) == IF e.decision = "EXECUTED" /\ e.action \in DOMAIN kinds
           THEN {[kind |-> kinds[e.action], resource |-> e.resource, allowed |-> TRUE]} ELSE {}

Act(e) ==
    /\ Len(log) < MaxEvents
    /\ log' = Append(log, [e EXCEPT !.at = now])
    /\ observed' = observed \cup seen(e)
    /\ UNCHANGED <<vars, now, others, bypassed, detections, incident, worker, jobs, overlapped>>

Bypass(op) ==
    /\ op \notin bypassed /\ bypassed' = bypassed \cup {op} /\ observed' = observed \cup {op}
    /\ UNCHANGED <<vars, now, log, others, detections, incident, worker, jobs, overlapped>>

(* Another session is refused something, for a reason a rule names.        *)
OtherRefused(r) ==
    /\ others' = others \cup {[r EXCEPT !.at = now]} /\ others' # others
    /\ UNCHANGED <<vars, now, log, observed, bypassed, detections, incident, worker, jobs,
                   overlapped>>

ClockMoves ==
    /\ now' \in (0..MaxNow) \ {now}
    /\ UNCHANGED <<vars, log, others, observed, bypassed, detections, incident, worker, jobs,
                   overlapped>>

-----------------------------------------------------------------------------
(* Stories.  timeline numbers the events that are steps of one.            *)

reaches  == {i \in DOMAIN log : /\ log[i].category \in {"policy", "filesystem"}
                                /\ log[i].label \in {"credential_access", "persistence_attempt",
                                                     "security_control_modification"}}
egresses == {i \in DOMAIN log : /\ log[i].category \in {"network", "policy"}
                                /\ log[i].action = "network.connect"} \ reaches
execs    == {i \in DOMAIN log : /\ log[i].category = "process"
                                /\ log[i].action \in {"process.spawn", "process.exec"}}

within(i, j, seconds) == log[j].at >= log[i].at /\ log[j].at - log[i].at <= seconds

Found(label, count, from, to) ==
    {[label |-> label, story |-> [count |-> count, from |-> from, to |-> to]]}

(* The first reach that an egress follows in time, and the first such.     *)
sensitive_read_then_egress ==
    LET after(i) == {j \in egresses : j > i /\ within(i, j, SequenceWindow)}
        first    == Min({i \in reaches : after(i) # {}})
    IN  IF \A i \in reaches : after(i) = {} THEN {}
        ELSE Found("sensitive_read_then_egress", 0, log[first].resource,
                   log[Min(after(first))].resource)

(* Reaches enough, then an archive tool after the first of them, then an   *)
(* egress, in the order of the log and at any distance.                    *)
archive_before_egress ==
    LET archives == {i \in execs : log[i].resource \in ArchiveTools /\ i > Min(reaches)}
        after    == {j \in egresses : j > Min(archives)}
    IN  IF Cardinality(reaches) < CollectionThreshold \/ archives = {} \/ after = {} THEN {}
        ELSE Found("archive_before_egress", Cardinality(reaches),
                   log[Min(archives)].resource, log[Min(after)].resource)

(* Starts within a window of the first of them, up to the first outside.   *)
process_fan_out ==
    LET burst(i) == {j \in execs : j >= i /\ \A k \in execs \cap (i..j) : within(i, k, FanOutWindow)}
        first    == Min({i \in execs : Cardinality(burst(i)) >= FanOutThreshold})
    IN  IF \A i \in execs : Cardinality(burst(i)) < FanOutThreshold THEN {}
        ELSE Found("process_fan_out", Cardinality(burst(first)), "none", "none")

(* resources_refused_to_other_sessions, in no particular order: the first  *)
(* that this session reached for counts.                                   *)
laundered == {r \in others : /\ r.at > now - LaunderingWindow
                             /\ \E i \in reaches : log[i].resource = r.resource}

capability_laundering ==
    IF laundered = {} THEN {{}}
    ELSE {Found("capability_laundering", 0, r.session, r.resource) : r \in laundered}

-----------------------------------------------------------------------------
(* Declarations and observations.                                          *)

(* declares_mutation.                                                      *)
mutations == MutationActions \cup {"process.exec"}

permitted(e) == e.decision \in {"EXECUTED", "ALLOW", "OBSERVED"}
refused(e)   == e.decision \in {"DENY", "REQUIRE_APPROVAL"}

(* declared_intents: decisions that name a resolved resource.              *)
declared_intents ==
    {[action |-> log[i].action, resource |-> log[i].resource, permitted |-> permitted(log[i])] :
        i \in {j \in DOMAIN log : /\ permitted(log[j]) \/ refused(log[j])
                                  /\ log[j].action # "network.connect"
                                  /\ log[j].resource # "none"}}

(* Mutant: an operation the system refused counts as one that happened.    *)
EffectiveAttempts == observed

effective == {op \in observed : op.allowed}

(* reconcile, for one operation: a refusal of its resource comes first,    *)
(* then a process nobody declared, then an undeclared resource, then a     *)
(* change where only reading was declared.                                 *)
mismatch(op) ==
    LET here == {d \in declared_intents : d.resource = op.resource}
    IN  IF \E d \in here : ~d.permitted THEN "denied_operation_observed"
        ELSE IF op.kind = "exec" THEN IF here = {} THEN "undeclared_child_process" ELSE "none"
        ELSE IF here = {} THEN IF op.resource \in Inside THEN "scope_expansion"
                               ELSE "intent_resource_mismatch"
        ELSE IF op.kind # "read" /\ \A d \in here : d.action \notin mutations
             THEN "undeclared_side_effect" ELSE "none"

(* One finding per class.                                                  *)
reconcile ==
    {[label |-> class, story |-> NoStory] :
        class \in {c \in Mismatches : \E op \in effective : mismatch(op) = c}}

-----------------------------------------------------------------------------
(* The commands.                                                           *)

Begin(w, state) ==
    /\ worker[w] = Idle /\ jobs < MaxJobs /\ jobs' = jobs + 1
    /\ worker' = [worker EXCEPT ![w] = state]
    /\ overlapped' = (overlapped \/ \E v \in Workers : worker[v] # Idle)
    /\ UNCHANGED <<vars, now, log, others, observed, bypassed, detections, incident>>

Working(todo) == IF todo = {} THEN Idle ELSE [Idle EXCEPT !.pc = "record", !.todo = todo]

(* analyze_session reads the events, and what other sessions were refused. *)
Analyze(w) ==
    \E l \in capability_laundering :
        Begin(w, [pc |-> "known", finding |-> NoFinding,
                  todo |-> UNION {sensitive_read_then_egress, archive_before_egress,
                                  process_fan_out, l}])

(* Mutant: what was found before is not looked up.                         *)
LookUpSkipped(w) ==
    /\ worker[w].pc = "known"
    /\ worker' = [worker EXCEPT ![w] = Working(@.todo)]
    /\ UNCHANGED <<vars, now, log, others, observed, bypassed, detections, incident, jobs,
                   overlapped>>

(* The fingerprints on record are left out.                                *)
Known(f) == \E i \in DOMAIN detections : /\ detections[i].label = f.label
                                         /\ detections[i].story = f.story

LookUp(w) ==
    /\ worker[w].pc = "known"
    /\ worker' = [worker EXCEPT ![w] = Working({f \in worker[w].todo : ~Known(f)})]
    /\ UNCHANGED <<vars, now, log, others, observed, bypassed, detections, incident, jobs,
                   overlapped>>

(* reconcile_session reads the events and compares; it looks nothing up.   *)
Reconcile(w) == Begin(w, Working(reconcile))

rank(f) == CHOOSE i \in DOMAIN Order : Order[i] = f.label
rule(w) == RuleForLabel(worker[w].finding.label)
Continue(w) == worker' = [worker EXCEPT ![w] = Working(@.todo)]
Goto(w, pc) == worker' = [worker EXCEPT ![w].pc = pc]

(* record_detection, for the next finding in order.                        *)
Record(w) ==
    /\ worker[w].pc = "record"
    /\ \E f \in worker[w].todo :
          /\ \A g \in worker[w].todo : rank(f) <= rank(g)
          /\ worker' = [worker EXCEPT ![w] = [pc |-> "charge", todo |-> @.todo \ {f}, finding |-> f]]
          /\ detections' = Append(detections, [label |-> f.label, story |-> f.story,
                                               attached |-> FALSE])
    /\ UNCHANGED <<vars, now, log, others, observed, bypassed, incident, jobs, overlapped>>

(* record_risk_signal; a severe rule or a contained session is an incident.*)
Charge(w) ==
    /\ worker[w].pc = "charge"
    /\ RecordRiskSignal(rule(w).dimension, rule(w).weight)
    /\ IF rule(w).severity = "critical" \/ RevokesLeases(risk') THEN Goto(w, "open") ELSE Continue(w)
    /\ UNCHANGED <<now, log, others, observed, bypassed, detections, incident, jobs, overlapped>>

Severity == [s \in {"none", "medium", "high", "critical"} |->
               CASE s = "none" -> 0 [] s = "medium" -> 1 [] s = "high" -> 2 [] s = "critical" -> 3]

(* open_incident: a new one, or the open one made more severe.             *)
OpenIncident(w) ==
    /\ worker[w].pc = "open" /\ Goto(w, "attach")
    /\ incident' = IF Severity[rule(w).severity] > Severity[incident] THEN rule(w).severity
                   ELSE incident
    /\ UNCHANGED <<vars, now, log, others, observed, bypassed, detections, jobs, overlapped>>

(* attach_detections: every detection of the session not yet attached.     *)
Attach(w) ==
    /\ worker[w].pc = "attach" /\ Continue(w)
    /\ detections' = [i \in DOMAIN detections |-> [detections[i] EXCEPT !.attached = TRUE]]
    /\ UNCHANGED <<vars, now, log, others, observed, bypassed, incident, jobs, overlapped>>

WorkerDies(w) ==
    /\ worker[w] # Idle /\ worker' = [worker EXCEPT ![w] = Idle]
    /\ UNCHANGED <<vars, now, log, others, observed, bypassed, detections, incident, jobs,
                   overlapped>>

Command(w) == \/ Analyze(w) \/ LookUp(w) \/ Reconcile(w)
              \/ Record(w) \/ Charge(w) \/ OpenIncident(w) \/ Attach(w) \/ WorkerDies(w)

RetroNext ==
    \/ Next /\ UNCHANGED retroVars
    \/ \E e \in Doings : Act(e)
    \/ \E op \in Bypasses : Bypass(op)
    \/ \E r \in Refusals : OtherRefused(r)
    \/ ClockMoves
    \/ \E w \in Workers : Command(w)

retrospective == <<vars, retroVars>>
RetroSpec == RetroInit /\ [][RetroNext]_retrospective

-----------------------------------------------------------------------------
(* Analysing a session again, after any number of analyses that ended or   *)
(* died, adds no detection for a story already on record (sequence.rs      *)
(* "Re-analyzing must not inflate risk"), unless two commands overlapped.  *)
OneDetectionPerStory ==
    \A i, j \in DOMAIN detections :
        /\ detections[i].story # NoStory /\ detections[i].label = detections[j].label
        /\ detections[i].story = detections[j].story
        => i = j \/ overlapped

(* The finding that an operation VIGIL refused was observed means that the *)
(* operation got past the brokers (reconcile.rs:17 "That is proof the      *)
(* broker was bypassed").  The code does not keep this: reconcile compares *)
(* by resource alone, so what VIGIL sent to a human and then executed, or  *)
(* executed and later refused, is reported as well.                        *)
DeniedMeansBypassed ==
    (\E i \in DOMAIN detections : detections[i].label = "denied_operation_observed") =>
        \E i \in DOMAIN log :
            /\ refused(log[i])
            /\ \E op \in bypassed : op.allowed /\ op.resource = log[i].resource

(* What it does keep: VIGIL refused something, and some operation on the   *)
(* same resource took effect, past the brokers or through one of them,     *)
(* before the refusal or after it.                                         *)
DeniedMeansTouched ==
    (\E i \in DOMAIN detections : detections[i].label = "denied_operation_observed") =>
        \E i \in DOMAIN log :
            /\ refused(log[i])
            /\ \/ \E op \in bypassed : op.allowed /\ op.resource = log[i].resource
               \/ \E j \in DOMAIN log : log[j].decision = "EXECUTED" /\ log[j].resource = log[i].resource
=============================================================================
