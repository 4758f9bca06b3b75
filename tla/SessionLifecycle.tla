--------------------------- MODULE SessionLifecycle ---------------------------
(***************************************************************************)
(* One session of vigil-local from its creation to its end: the status row *)
(* (store.rs), the processes VIGIL starts for it and records by PID        *)
(* (`vigil run`, process_broker.rs, provenance.rs), and the termination of *)
(* that tree by `vigil contain --terminate` (incident.rs, terminate.rs,    *)
(* process_identity.rs), which has only the PID to signal by.              *)
(*                                                                         *)
(* Launchers, the containing command and the operating system interleave.  *)
(* A process keeps its PID until it is reaped; then the PID may be given   *)
(* to any process.  What `ps` shows of a process, its start time in        *)
(* seconds and its command, is one value, its image, which two processes   *)
(* may share and which exec changes.  Every recorded node is a root:       *)
(* no caller passes a parent, so all generations are 0 and the order of    *)
(* termination is that of random node identifiers.                         *)
(***************************************************************************)
EXTENDS Naturals, Sequences, FiniteSets

CONSTANTS
    Workloads,   \* bound: what the agent does, of "run", "exec" and "files"
    Launchers,   \* invocations of the process broker, or the one `vigil run`, one process each
    Pids,        \* process identifiers, outside of which VIGIL's own may lie
    Images       \* start time and command, as ps renders them

ASSUME LifecycleAssumption ==
    /\ Workloads \subseteq {"run", "exec", "files"} /\ IsFiniteSet(Launchers)
    /\ Images \cap {"none", "defunct", "unread", "gone", "error"} = {}

VARIABLES
    workload,  \* "run": observe-only supervisor; "exec", "files": brokered
    status,    \* sessions.status
    os,        \* the process table
    nodes,     \* the rows of `processes`, in the order they were recorded
    launcher,  \* per launcher: where it is, its child, its node
    stopper    \* the command containing the session

processVars == <<os, nodes, launcher>>
lifeVars    == <<workload, status, os, nodes, launcher, stopper>>

NoProcess == [serial |-> 0, image |-> "none", state |-> "none"]
Nowhere   == "elsewhere"

(* The containing command's history: whether its last reading took a       *)
(* stranger for its target (alike), whether the PID changed hands since    *)
(* the step it is at began (late), and whom its last signal hit.           *)
Idle      == [pc |-> "idle", pid |-> Nowhere, seal |-> FALSE, todo |-> {}, node |-> 0,
              alike |-> FALSE, late |-> FALSE, hit |-> "none"]
Over      == [pc |-> "over", pid |-> Nowhere, node |-> 0]

(* `vigil run` has created its session; a semantic session is created and  *)
(* then activated.                                                         *)
InitLife ==
    /\ workload \in Workloads /\ status = "starting"
    /\ os = [p \in Pids |-> NoProcess] /\ nodes = <<>>
    /\ launcher = [l \in Launchers |-> [pc |-> "ready", pid |-> Nowhere, node |-> 0]]
    /\ stopper = Idle

-----------------------------------------------------------------------------
(* The status row.                                                         *)

(* activate_semantic_session: from starting only.                          *)
Activate ==
    /\ workload # "run" /\ status = "starting" /\ status' = "running"
    /\ UNCHANGED <<workload, processVars, stopper>>

(* close_semantic_session: from running only.                              *)
Close ==
    /\ workload # "run" /\ status = "running" /\ status' = "completed"
    /\ UNCHANGED <<workload, processVars, stopper>>

-----------------------------------------------------------------------------
(* Launching a process and recording it.                                   *)

Stop(l) == launcher' = [launcher EXCEPT ![l] = Over]
Move(l, pc) == launcher' = [launcher EXCEPT ![l].pc = pc]

(* Whether a launcher has not yet reaped the child it started under p.     *)
holds(l, p) == launcher[l].pid = p /\ launcher[l].pc \in {"spawned", "marked", "waiting"}

held(p) == \E l \in Launchers : holds(l, p)

(* A process comes to a free PID.                                          *)
Occupy(p, serial) ==
    /\ os[p] = NoProcess /\ stopper.pid # p
    /\ \E i \in Images : os' = [os EXCEPT ![p] = [serial |-> serial, image |-> i, state |-> "alive"]]
    /\ stopper' = [stopper EXCEPT !.late = @ \/ (stopper.node # 0 /\ nodes[stopper.node].pid = p)]

spawned == Cardinality({l \in Launchers : launcher[l].pc # "ready"})

(* The child is started, with its handle held: until it is reaped its PID  *)
(* belongs to it.  The process broker needs a running session.             *)
Spawn(l) ==
    /\ launcher[l].pc = "ready"
    /\ \/ workload = "run" /\ \A k \in Launchers : launcher[k].pc = "ready"
       \/ workload = "exec" /\ status = "running"
    /\ \E p \in Pids :
         /\ Occupy(p, spawned + 1)
         /\ launcher' = [launcher EXCEPT ![l] =
                           [pc |-> IF workload = "run" THEN "spawned" ELSE "marked",
                            pid |-> p, node |-> 0]]
    /\ UNCHANGED <<workload, status, nodes>>

(* The executable cannot be started: `vigil run` finishes its session.     *)
SpawnFails(l) ==
    /\ workload = "run" /\ \A k \in Launchers : launcher[k].pc = "ready"
    /\ Stop(l) /\ status' = "failed"
    /\ UNCHANGED <<workload, os, nodes, stopper>>

(* mark_running, which asks nothing of the status it replaces.             *)
MarkRunning(l) ==
    /\ launcher[l].pc = "spawned" /\ Move(l, "marked") /\ status' = "running"
    /\ UNCHANGED <<workload, os, nodes, stopper>>

(* identify at launch: the image, the image of a zombie, or nothing.       *)
observed(p) == {IF os[p].state = "zombie" THEN "defunct" ELSE os[p].image, "unread"}

(* record_process_start: refused while an open node of the session holds   *)
(* the PID.  Then the broker kills and reaps its child.                    *)
Record(l) ==
    /\ launcher[l].pc = "marked"
    /\ LET p == launcher[l].pid
           taken == \E n \in DOMAIN nodes : nodes[n].pid = p /\ nodes[n].status = "running"
       IN  \/ /\ ~taken
              /\ \E i \in observed(p) :
                   nodes' = Append(nodes, [pid |-> p, serial |-> os[p].serial, image |-> i,
                                           status |-> "running"])
              /\ launcher' = [launcher EXCEPT ![l].pc = "waiting", ![l].node = Len(nodes) + 1]
              /\ UNCHANGED os
           \/ /\ taken /\ Stop(l)
              /\ os' = [os EXCEPT ![p] = NoProcess]
              /\ UNCHANGED nodes
    /\ UNCHANGED <<workload, status, stopper>>

(* record_process_exit: closes an open node, and changes nothing else.     *)
record_process_exit(n, s) ==
    nodes' = IF nodes[n].status = "running" THEN [nodes EXCEPT ![n].status = s] ELSE nodes

(* The launcher's wait returns: the child is reaped and its PID free,      *)
(* before the node is closed.  The broker reaches this by killing a child  *)
(* that overran its timeout, too.                                          *)
Reap(l) ==
    /\ launcher[l].pc = "waiting"
    /\ os[launcher[l].pid].state = "zombie" \/ workload = "exec"
    /\ os' = [os EXCEPT ![launcher[l].pid] = NoProcess]
    /\ Move(l, "reaped")
    /\ UNCHANGED <<workload, status, nodes, stopper>>

(* The node is closed with what was seen, or as unknown by the guard that  *)
(* closes it on an error path.                                             *)
CloseNode(l) ==
    /\ launcher[l].pc = "reaped"
    /\ \E s \in {"exited", "unknown"} : record_process_exit(launcher[l].node, s)
    /\ IF workload = "run" THEN Move(l, "finishing") ELSE Stop(l)
    /\ UNCHANGED <<workload, status, os, stopper>>

(* The wait of `vigil run` fails: the child is left, the node unknown.     *)
WaitFails(l) ==
    /\ launcher[l].pc = "waiting" /\ workload = "run"
    /\ record_process_exit(launcher[l].node, "unknown")
    /\ Move(l, "finishing")
    /\ UNCHANGED <<workload, status, os, stopper>>

(* finish_session, which asks nothing of the status it replaces either.    *)
Finish(l) ==
    /\ launcher[l].pc = "finishing" /\ Stop(l)
    /\ status' \in {"completed", "failed"}
    /\ UNCHANGED <<workload, os, nodes, stopper>>

(* The launcher dies.  Its child lives on, or is reaped by the system.     *)
LauncherDies(l) ==
    /\ launcher[l].pc \notin {"ready", "over"} /\ Stop(l)
    /\ os' = [p \in Pids |-> IF holds(l, p) /\ os[p].state = "zombie" THEN NoProcess ELSE os[p]]
    /\ UNCHANGED <<workload, status, nodes, stopper>>

-----------------------------------------------------------------------------
(* The operating system.                                                   *)

(* A process ends, of itself or by a signal: a zombie while its launcher   *)
(* holds the handle, gone otherwise.                                       *)
Exit(p) ==
    /\ os[p].state = "alive"
    /\ os' = [os EXCEPT ![p] = IF held(p) THEN [@ EXCEPT !.state = "zombie"] ELSE NoProcess]
    /\ UNCHANGED <<workload, status, nodes, launcher, stopper>>

(* exec replaces the command of a process of the session.                  *)
Exec(p) ==
    /\ os[p].state = "alive" /\ os[p].serial # 0
    /\ \E i \in Images \ {os[p].image} : os' = [os EXCEPT ![p].image = i]
    /\ UNCHANGED <<workload, status, nodes, launcher, stopper>>

(* Free PIDs that the session recorded.                                    *)
recyclable == {p \in Pids : os[p] = NoProcess /\ stopper.pid # p
                            /\ \E n \in DOMAIN nodes : nodes[n].pid = p}

(* One of them is given to a stranger.                                     *)
Recycle(p) ==
    /\ p \in recyclable
    /\ Occupy(p, 0)
    /\ UNCHANGED <<workload, status, nodes, launcher>>

-----------------------------------------------------------------------------
(* `vigil contain`.                                                        *)

Step(pc, hit) == stopper' = [stopper EXCEPT !.pc = pc, !.late = FALSE, !.hit = hit]
Leave == stopper' = [Idle EXCEPT !.pc = "next", !.pid = stopper.pid, !.seal = stopper.seal,
                                 !.todo = stopper.todo]

(* contain_session, past the revocation and the restriction (those are     *)
(* LocalAuthority's): terminate_session_tree takes the running nodes.  The *)
(* command may itself run under a PID the session recorded.  One that has  *)
(* nothing to stop and nothing to seal changes nothing here.               *)
Contain ==
    /\ stopper.pc = "idle"
    /\ \E terminate, seal \in BOOLEAN, p \in recyclable \cup {Nowhere} :
         LET live == {n \in DOMAIN nodes : terminate /\ nodes[n].status = "running"}
         IN  /\ (seal /\ status # "sealed") \/ live # {}
             /\ stopper' = [Idle EXCEPT !.pc = "next", !.pid = p, !.seal = seal, !.todo = live]
    /\ UNCHANGED <<workload, status, processVars>>

(* terminate_node begins.  VIGIL's own process is left alone.              *)
NextNode ==
    /\ stopper.pc = "next"
    /\ \E n \in stopper.todo :
         stopper' = [stopper EXCEPT !.todo = @ \ {n},
                       !.pc = IF nodes[n].pid = stopper.pid THEN "next" ELSE "check",
                       !.node = IF nodes[n].pid = stopper.pid THEN 0 ELSE n]
    /\ UNCHANGED <<workload, status, processVars>>

target == nodes[stopper.node].pid

(* What identify says of a PID: nothing there or a zombie, the image of    *)
(* what is, or that it could not be read.                                  *)
readings(p) == {IF os[p].state = "alive" THEN os[p].image ELSE "gone", "error"}

(* matches_recorded: start time and command both.  No reading is like what *)
(* a node recorded without an identity, or of a zombie, holds.             *)
matches_recorded(i) == i = nodes[stopper.node].image

(* The reading before a signal.  An identity that is unreadable or another *)
(* process's refuses; an exit closes the node as s; a match goes on.       *)
Confirm(pc, s, next) ==
    /\ stopper.pc = pc
    /\ \E i \in readings(target) :
         \/ i = "gone" /\ record_process_exit(stopper.node, s) /\ Leave
         \/ i # "gone" /\ ~matches_recorded(i) /\ Leave /\ UNCHANGED nodes
         \/ i # "gone" /\ matches_recorded(i) /\ UNCHANGED nodes
            /\ stopper' = [stopper EXCEPT !.pc = next, !.late = FALSE,
                             !.alike = os[target].serial # nodes[stopper.node].serial]
    /\ UNCHANGED <<workload, status, os, launcher>>

(* kill(1).  A PID nobody holds fails, and kill may fail to run.           *)
Signal(pc, next) ==
    /\ stopper.pc = pc
    /\ \/ Leave
       \/ /\ os[target] # NoProcess
          /\ Step(next, IF os[target].serial = nodes[stopper.node].serial THEN "recorded"
                        ELSE IF stopper.alike THEN "alike"
                        ELSE IF stopper.late THEN "late" ELSE "stranger")
    /\ UNCHANGED <<workload, status, os, nodes, launcher>>

(* Mutant: a PID whose identity cannot be read counts as gone.             *)
SeesExitWhenUnreadable(p) == \E i \in readings(p) : i \in {"gone", "error"}

(* What ends wait_for_exit early: an unreadable identity is not an exit.   *)
sees_exit(p) == "gone" \in readings(p)

(* wait_for_exit: polls until it sees the exit, or the grace period ends   *)
(* and the caller gives up or escalates.                                   *)
Wait(pc, next) ==
    /\ stopper.pc = pc
    /\ \/ sees_exit(target) /\ record_process_exit(stopper.node, "terminated") /\ Leave
       \/ /\ IF next = "refused" THEN Leave ELSE Step(next, "none")
          /\ UNCHANGED nodes
    /\ UNCHANGED <<workload, status, os, launcher>>

(* Mutant: SIGKILL follows the grace period without another look.          *)
EscalateAtOnce == Confirm("check", "exited", "term") \/ Signal("term", "grace")
    \/ Wait("grace", "kill") \/ Signal("kill", "killed") \/ Wait("killed", "refused")

(* terminate_node: confirm, SIGTERM, wait, confirm again, SIGKILL, wait.   *)
TerminateNode ==
    \/ Confirm("check", "exited", "term") \/ Signal("term", "grace")
    \/ Wait("grace", "recheck") \/ Confirm("recheck", "terminated", "kill")
    \/ Signal("kill", "killed") \/ Wait("killed", "refused")

(* The tree is done; seal_session if asked.  Or the command dies.          *)
ContainEnds ==
    /\ stopper.pc # "idle"
    /\ \/ stopper.pc = "next" /\ stopper.todo = {}
          /\ status' = IF stopper.seal THEN "sealed" ELSE status
       \/ UNCHANGED status
    /\ stopper' = Idle
    /\ UNCHANGED <<workload, processVars>>

NextLife ==
    \/ Activate \/ Close \/ Contain \/ NextNode \/ TerminateNode \/ ContainEnds
    \/ \E l \in Launchers : Spawn(l) \/ SpawnFails(l) \/ MarkRunning(l) \/ Record(l) \/ Reap(l)
                            \/ CloseNode(l) \/ WaitFails(l) \/ Finish(l) \/ LauncherDies(l)
    \/ \E p \in Pids : Exit(p) \/ Exec(p) \/ Recycle(p)

-----------------------------------------------------------------------------
(* Properties.                                                             *)

(* A node recorded as exited or terminated has no live process, whoever    *)
(* closed it and however its PID was reused meanwhile: containment and the *)
(* launchers never report a process stopped that still runs.               *)
ClosedMeansStopped ==
    \A n \in DOMAIN nodes :
        nodes[n].status \in {"exited", "terminated"} =>
            ~ \E p \in Pids : os[p].serial = nodes[n].serial /\ os[p].state = "alive"

(* Termination signals a process other than the recorded one only if that  *)
(* process took the PID between the identity check and the signal right    *)
(* after it, never while VIGIL waited, or if ps rendered both alike.       *)
StrangersAreSpared == stopper.hit # "stranger"
=============================================================================
