--------------------------- MODULE LifecycleProofs ---------------------------
(***************************************************************************)
(* A session's processes and their termination (process_broker.rs,         *)
(* terminate.rs, process_identity.rs), the rollback of its files           *)
(* (rollback.rs) and the Endpoint Security extension that confines its     *)
(* processes, in this order, for any number of launchers, PIDs, images,    *)
(* files, writers, audit tokens, sessions and policies.                    *)
(*                                                                         *)
(* A process is told from every other by its serial, which VIGIL never     *)
(* sees.  A launcher that has not reaped its child keeps the child under   *)
(* its PID, so the node it records names that child; the child never moves *)
(* to another PID and no later process bears its serial.  Hence what is    *)
(* seen to have stopped under a recorded PID is the recorded process or a  *)
(* successor of it, and in both cases the recorded one has stopped.        *)
(*                                                                         *)
(* Between an identity check that matched and the signal after it, the PID *)
(* still belongs to whom the check saw, is free, or has changed hands in   *)
(* just that interval.                                                     *)
(*                                                                         *)
(* A policy generation is activated only after the file that spends it is  *)
(* on the disk, and the file only moves up.  The attribution of a process  *)
(* moves as the session it was put under does, message by message, but for *)
(* the two cases the deserted processes record.                            *)
(***************************************************************************)
EXTENDS Rollback, EndpointSecurity, CountingTheorems

IsSeq(rows) == \E n \in Nat : rows = [i \in 1..n |-> rows[i]]

IsProcess(e) ==
    /\ e = [serial |-> e.serial, image |-> e.image, state |-> e.state]
    /\ e.serial \in Nat
    /\ e.state = "alive" => e.image \in Images

IsNode(e) ==
    /\ e = [pid |-> e.pid, serial |-> e.serial, image |-> e.image, status |-> e.status]
    /\ e.pid \in Pids /\ e.serial \in Nat \ {0}

IsLauncher(r) == r = [pc |-> r.pc, pid |-> r.pid, node |-> r.node]

IsStopper(r) ==
    r = [pc |-> r.pc, pid |-> r.pid, seal |-> r.seal, todo |-> r.todo, node |-> r.node,
         alike |-> r.alike, late |-> r.late, hit |-> r.hit]

Tables ==
    /\ os = [p \in Pids |-> os[p]] /\ \A p \in Pids : IsProcess(os[p])
    /\ IsSeq(nodes) /\ \A n \in DOMAIN nodes : IsNode(nodes[n])
    /\ launcher = [l \in Launchers |-> launcher[l]] /\ \A l \in Launchers : IsLauncher(launcher[l])
    /\ IsStopper(stopper)

(* Serials are given out once, and name one process under one PID.         *)
Serials ==
    /\ \A p \in Pids : os[p].serial <= spawned
    /\ \A n \in DOMAIN nodes : nodes[n].serial <= spawned
    /\ \A p, q \in Pids : os[p].serial = os[q].serial /\ os[p].serial # 0 => p = q
    /\ \A n \in DOMAIN nodes, p \in Pids : os[p].serial = nodes[n].serial => p = nodes[n].pid

Stopped(s) == \A p \in Pids : os[p].serial = s => os[p].state # "alive"

HoldingPcs == {"spawned", "marked", "waiting"}
NodePcs    == {"waiting", "reaped"}

Holds(l) ==
    /\ launcher[l].pc \in HoldingPcs => launcher[l].pid \in Pids /\ os[launcher[l].pid].serial # 0
    /\ launcher[l].pc \in NodePcs => launcher[l].node \in DOMAIN nodes
    /\ launcher[l].pc = "waiting" => os[launcher[l].pid].serial = nodes[launcher[l].node].serial
    /\ launcher[l].pc = "reaped" => Stopped(nodes[launcher[l].node].serial)

Holding ==
    /\ \A l \in Launchers : Holds(l)
    /\ \A l, k \in Launchers :
          /\ launcher[l].pc \in HoldingPcs /\ launcher[k].pc \in HoldingPcs
          /\ launcher[l].pid = launcher[k].pid
          => l = k

(* Whom a signal sent now would hit.                                       *)
Aimed == \/ stopper.alike \/ stopper.late
         \/ os[target] = NoProcess
         \/ os[target].serial = nodes[stopper.node].serial

TargetPcs == {"check", "term", "grace", "recheck", "kill", "killed"}

Stopping ==
    /\ stopper.todo \subseteq DOMAIN nodes
    /\ stopper.node # 0 => stopper.node \in DOMAIN nodes
    /\ stopper.pc \in TargetPcs => stopper.node # 0
    /\ stopper.pc \in {"term", "kill"} => Aimed
    /\ StrangersAreSpared

LifeInv == Tables /\ Serials /\ Holding /\ Stopping /\ ClosedMeansStopped
-----------------------------------------------------------------------------
(* Sequences and serials.                                                  *)

LEMMA LengthOf ==
    ASSUME NEW s, NEW n \in Nat, s = [i \in 1..n |-> s[i]]
    PROVE  Len(s) = n
  OBVIOUS

LEMMA Appended ==
    ASSUME NEW s, IsSeq(s), NEW e, NEW t, t = Append(s, e)
    PROVE  /\ IsSeq(t) /\ DOMAIN t = DOMAIN s \cup {Len(s) + 1} /\ t[Len(s) + 1] = e
           /\ \A i \in DOMAIN s : t[i] = s[i]
           /\ Len(s) + 1 # 0 /\ 0 \notin DOMAIN s
<1>1. PICK n \in Nat : s = [i \in 1..n |-> s[i]]
  BY DEF IsSeq
<1>2. Len(s) = n /\ DOMAIN s = 1..n
  BY <1>1, LengthOf
<1>3. t = [i \in 1..(n+1) |-> t[i]] /\ t[n+1] = e /\ \A i \in 1..n : t[i] = s[i]
  BY <1>1
<1>4. DOMAIN t = 1..n \cup {n+1}
  BY <1>3
<1>5. IsSeq(t)
  <2>1. n + 1 \in Nat
    OBVIOUS
  <2> QED
    BY <1>3, <2>1 DEF IsSeq
<1> QED
  BY <1>2, <1>3, <1>4, <1>5

Started == {l \in Launchers : launcher[l].pc # "ready"}

LEMMA SpawnedIsNat == IsFiniteSet(Started) /\ spawned \in Nat /\ spawned = Cardinality(Started)
<1>1. Started \in SUBSET Launchers
  BY DEF Started
<1>2. IsFiniteSet(Started)
  BY <1>1, LifecycleAssumption, FS_Subset
<1> QED
  BY <1>2, FS_CardinalityType DEF spawned, Started

LEMMA SpawnedIsNatNext == IsFiniteSet(Started') /\ spawned' \in Nat /\ spawned' = Cardinality(Started')
<1>1. Started' \in SUBSET Launchers
  BY DEF Started
<1>2. IsFiniteSet(Started')
  BY <1>1, LifecycleAssumption, FS_Subset
<1> QED
  BY <1>2, FS_CardinalityType DEF spawned, Started

LEMMA SpawnedGrows ==
    ASSUME \A l \in Launchers : launcher[l].pc # "ready" => launcher'[l].pc # "ready"
    PROVE  spawned <= spawned'
<1>1. Started \in SUBSET Started'
  BY DEF Started
<1> QED
  BY <1>1, SpawnedIsNat, SpawnedIsNatNext, FS_Subset

LEMMA SpawnCounts ==
    ASSUME NEW l \in Launchers, launcher[l].pc = "ready", launcher'[l].pc # "ready",
           \A k \in Launchers \ {l} : launcher'[k] = launcher[k]
    PROVE  spawned' = spawned + 1
<1>1. Started' = Started \cup {l} /\ l \notin Started
  BY DEF Started
<1> QED
  BY <1>1, SpawnedIsNat, SpawnedIsNatNext, FS_AddElement

-----------------------------------------------------------------------------
(* Processes age: they stop, they exec, they are reaped.                   *)

Aged ==
    /\ os' = [p \in Pids |-> os'[p]]
    /\ \A p \in Pids :
          \/ os'[p] = NoProcess
          \/ /\ IsProcess(os'[p])
             /\ os[p] # NoProcess /\ os'[p].serial = os[p].serial
             /\ os'[p].state = "alive" => os[p].state = "alive"

SameNodes ==
    /\ IsSeq(nodes') /\ DOMAIN nodes' = DOMAIN nodes
    /\ \A n \in DOMAIN nodes : /\ IsNode(nodes'[n])
                               /\ nodes'[n].pid = nodes[n].pid /\ nodes'[n].serial = nodes[n].serial

ClosedStates == {"exited", "terminated"}

(* Nodes are closed only once what they name has stopped.                  *)
ClosesStopped ==
    \A n \in DOMAIN nodes :
        nodes'[n].status \in ClosedStates => nodes[n].status \in ClosedStates \/ Stopped(nodes[n].serial)

LEMMA NoProcessIsProcess ==
    /\ IsProcess(NoProcess) /\ NoProcess.serial = 0 /\ NoProcess.state = "none"
  BY DEF IsProcess, NoProcess

LEMMA UnchangedAges ==
    ASSUME Tables
    PROVE  (UNCHANGED os => Aged) /\ (UNCHANGED nodes => SameNodes /\ ClosesStopped)
  BY NoProcessIsProcess DEF Tables, Aged, SameNodes, ClosesStopped

LEMMA AgingKeepsSerials ==
    ASSUME Tables, Serials, Aged, SameNodes, spawned <= spawned'
    PROVE  /\ Serials' /\ \A p \in Pids : IsProcess(os'[p])
           /\ \A s \in Nat \ {0} : Stopped(s) => Stopped(s)'
<1>1. ASSUME NEW p \in Pids
      PROVE  /\ os'[p].serial = 0 \/ os'[p].serial = os[p].serial
             /\ os'[p].serial # 0 /\ os'[p].state = "alive" => os[p].state = "alive"
             /\ IsProcess(os'[p]) /\ os'[p].serial \in Nat
  BY <1>1, NoProcessIsProcess DEF Aged, IsProcess
<1>2. spawned \in Nat /\ spawned' \in Nat
  BY SpawnedIsNat, SpawnedIsNatNext
<1>3. \A n \in DOMAIN nodes : nodes[n].serial \in Nat \ {0} /\ nodes'[n].serial = nodes[n].serial
                              /\ nodes'[n].pid = nodes[n].pid
  BY DEF Tables, IsNode, SameNodes
<1>4. \A p \in Pids : os[p].serial \in Nat
  BY DEF Tables, IsProcess
<1>5. \A p \in Pids : os'[p].serial <= spawned'
  BY <1>1, <1>2, <1>4 DEF Serials
<1>6. \A n \in DOMAIN nodes : nodes'[n].serial <= spawned'
  BY <1>2, <1>3 DEF Serials
<1>7. \A p, q \in Pids : os'[p].serial = os'[q].serial /\ os'[p].serial # 0 => p = q
  BY <1>1 DEF Serials
<1>8. \A n \in DOMAIN nodes, p \in Pids : os'[p].serial = nodes'[n].serial => p = nodes'[n].pid
  BY <1>1, <1>3 DEF Serials
<1>9. Serials'
  BY <1>5, <1>6, <1>7, <1>8 DEF Serials, SameNodes
<1>10. \A s \in Nat \ {0} : Stopped(s) => Stopped(s)'
  BY <1>1 DEF Stopped
<1> QED
  BY <1>1, <1>9, <1>10

LEMMA AgingKeepsClosed ==
    ASSUME Tables, Serials, Aged, SameNodes, spawned <= spawned', ClosesStopped, ClosedMeansStopped
    PROVE  ClosedMeansStopped'
<1> SUFFICES ASSUME NEW n \in DOMAIN nodes', nodes'[n].status \in ClosedStates
             PROVE  Stopped(nodes[n].serial)'
  BY DEF ClosedMeansStopped, Stopped, ClosedStates
<1>1. n \in DOMAIN nodes /\ nodes'[n].serial = nodes[n].serial /\ nodes[n].serial \in Nat \ {0}
  BY DEF SameNodes, Tables, IsNode
<1>2. Stopped(nodes[n].serial)
  BY <1>1 DEF ClosesStopped, ClosedMeansStopped, Stopped, ClosedStates
<1>3. ASSUME NEW s \in Nat \ {0}, Stopped(s) PROVE Stopped(s)'
  BY <1>3, AgingKeepsSerials
<1> QED
  BY <1>1, <1>2, <1>3 DEF Stopped

(* What a signal is aimed at does not change by ageing.                    *)
LEMMA AgingKeepsStopping ==
    ASSUME Tables, Stopping, Aged, SameNodes, UNCHANGED stopper
    PROVE  Stopping'
<1>1. CASE stopper.pc \in {"term", "kill"}
  <2>1. stopper.node \in DOMAIN nodes /\ nodes'[stopper.node].pid = target /\ target \in Pids
        /\ nodes'[stopper.node].serial = nodes[stopper.node].serial
    BY <1>1 DEF Stopping, TargetPcs, SameNodes, target, Tables, IsNode
  <2>2. os'[target] = NoProcess \/ (os[target] # NoProcess /\ os'[target].serial = os[target].serial)
    BY <2>1 DEF Aged
  <2>3. Aimed
    BY <1>1 DEF Stopping
  <2>4. Aimed'
    BY <2>1, <2>2, <2>3 DEF Aimed, target
  <2> QED
    BY <2>4 DEF Stopping, SameNodes, StrangersAreSpared
<1>2. CASE stopper.pc \notin {"term", "kill"}
  BY <1>2 DEF Stopping, SameNodes, StrangersAreSpared
<1> QED
  BY <1>1, <1>2
-----------------------------------------------------------------------------
(* Steps of a launcher.                                                    *)

Turned(l) == /\ launcher' = [k \in Launchers |-> launcher'[k]]
             /\ \A k \in Launchers \ {l} : launcher'[k] = launcher[k]

Spared(k) == launcher[k].pc \in HoldingPcs => os'[launcher[k].pid].serial = os[launcher[k].pid].serial

LEMMA HoldsOn ==
    ASSUME Tables, Serials, Aged, SameNodes, spawned <= spawned',
           NEW k \in Launchers, Holds(k), Spared(k), launcher'[k] = launcher[k]
    PROVE  Holds(k)'
<1>1. CASE launcher[k].pc = "reaped"
  <2>1. launcher[k].node \in DOMAIN nodes /\ Stopped(nodes[launcher[k].node].serial)
        /\ nodes[launcher[k].node].serial \in Nat \ {0}
    BY <1>1 DEF Holds, NodePcs, Tables, IsNode
  <2>2. ASSUME NEW s \in Nat \ {0}, Stopped(s) PROVE Stopped(s)'
    BY <2>2, AgingKeepsSerials
  <2>3. Stopped(nodes[launcher[k].node].serial)'
    BY <2>1, <2>2 DEF Stopped, SameNodes
  <2> QED
    BY <1>1, <2>1, <2>3 DEF Holds, SameNodes, HoldingPcs
<1>2. CASE launcher[k].pc # "reaped"
  BY <1>2 DEF Holds, SameNodes, HoldingPcs, NodePcs, Spared
<1> QED
  BY <1>1, <1>2

LEMMA LauncherKeeps ==
    ASSUME LifeInv, NEW l \in Launchers, Aged, SameNodes, ClosesStopped, UNCHANGED stopper,
           Turned(l), IsLauncher(launcher'[l]), launcher'[l].pc # "ready", Holds(l)',
           launcher'[l].pc \in HoldingPcs =>
               launcher[l].pc \in HoldingPcs /\ launcher'[l].pid = launcher[l].pid,
           \A k \in Launchers \ {l} : Spared(k)
    PROVE  LifeInv'
<1>1. Tables /\ Serials /\ Holding /\ Stopping /\ ClosedMeansStopped
  BY DEF LifeInv
<1>2. spawned <= spawned'
  BY SpawnedGrows DEF Turned
<1>3. Serials' /\ \A p \in Pids : IsProcess(os'[p])
  BY <1>1, <1>2, AgingKeepsSerials
<1>4. Stopping' /\ ClosedMeansStopped'
  BY <1>1, <1>2, AgingKeepsStopping, AgingKeepsClosed
<1>5. Tables'
  <2>1. \A k \in Launchers : IsLauncher(launcher'[k])
    BY <1>1 DEF Turned, Tables
  <2> QED
    BY <1>1, <1>3, <2>1 DEF Tables, Aged, SameNodes, Turned, IsProcess, IsNode, IsLauncher, IsStopper, IsSeq
<1>6. Holding'
  <2>1. ASSUME NEW k \in Launchers PROVE Holds(k)'
    <3>1. CASE k = l
      BY <3>1
    <3>2. CASE k # l
      BY <1>1, <1>2, <3>2, HoldsOn DEF Holding, Turned
    <3> QED
      BY <3>1, <3>2
  <2>2. ASSUME NEW j \in Launchers, NEW k \in Launchers,
               launcher'[j].pc \in HoldingPcs, launcher'[k].pc \in HoldingPcs,
               launcher'[j].pid = launcher'[k].pid
        PROVE  j = k
    <3>1. \A i \in {j, k} : launcher[i].pc \in HoldingPcs /\ launcher'[i].pid = launcher[i].pid
      BY <2>2 DEF Turned
    <3> QED
      BY <1>1, <2>2, <3>1 DEF Holding
  <2> QED
    BY <2>1, <2>2 DEF Holding
<1> QED
  BY <1>3, <1>4, <1>5, <1>6 DEF LifeInv

LEMMA StopTurns ==
    ASSUME Tables, NEW l \in Launchers, Stop(l)
    PROVE  /\ Turned(l) /\ IsLauncher(launcher'[l]) /\ launcher'[l].pc # "ready"
           /\ launcher'[l].pc \notin HoldingPcs /\ Holds(l)'
<1>1. Turned(l) /\ launcher'[l] = Over
  BY DEF Tables, Stop, Turned
<1>2. IsLauncher(Over) /\ Over.pc = "over"
  BY DEF Over, IsLauncher
<1> QED
  BY <1>1, <1>2 DEF HoldingPcs, NodePcs, Holds

LEMMA MoveTurns ==
    ASSUME Tables, NEW l \in Launchers, NEW pc, Move(l, pc)
    PROVE  /\ Turned(l) /\ IsLauncher(launcher'[l])
           /\ launcher'[l].pc = pc /\ launcher'[l].pid = launcher[l].pid
           /\ launcher'[l].node = launcher[l].node
<1> DEFINE r == [launcher[l] EXCEPT !.pc = pc]
<1>1. Turned(l) /\ launcher'[l] = r
  BY DEF Tables, Move, Turned
<1>2. r = [pc |-> pc, pid |-> launcher[l].pid, node |-> launcher[l].node]
  BY DEF Tables, IsLauncher
<1> QED
  BY <1>1, <1>2 DEF IsLauncher

LEMMA ClosingNodes ==
    ASSUME Tables, NEW n \in DOMAIN nodes, NEW s, record_process_exit(n, s)
    PROVE  /\ SameNodes
           /\ \A m \in DOMAIN nodes : \/ nodes'[m].status = nodes[m].status
                                      \/ m = n /\ nodes'[m].status = s
<1>1. PICK len \in Nat : nodes = [i \in 1..len |-> nodes[i]]
  BY DEF Tables, IsSeq
<1> DEFINE r == [nodes[n] EXCEPT !.status = s]
<1>2. CASE nodes[n].status = "running"
  <2>1. nodes' = [nodes EXCEPT ![n] = r]
    BY <1>2 DEF record_process_exit
  <2>2. r = [pid |-> nodes[n].pid, serial |-> nodes[n].serial, image |-> nodes[n].image, status |-> s]
    BY DEF Tables, IsNode
  <2>3. IsNode(r) /\ r.pid = nodes[n].pid /\ r.serial = nodes[n].serial /\ r.status = s
    BY <2>2 DEF Tables, IsNode
  <2> HIDE DEF r
  <2>4. nodes' = [i \in 1..len |-> nodes'[i]] /\ nodes'[n] = r
        /\ \A m \in DOMAIN nodes \ {n} : nodes'[m] = nodes[m]
    BY <1>1, <2>1
  <2> QED
    BY <1>1, <2>3, <2>4 DEF SameNodes, IsSeq, Tables
<1>3. CASE nodes[n].status # "running"
  <2>1. nodes' = nodes
    BY <1>3 DEF record_process_exit
  <2> QED
    BY <2>1 DEF SameNodes, Tables
<1> QED
  BY <1>2, <1>3
LEMMA FreedAges ==
    ASSUME Tables, Holding, NEW l \in Launchers, launcher[l].pc \in HoldingPcs,
           os' = [os EXCEPT ![launcher[l].pid] = NoProcess]
    PROVE  /\ Aged /\ os'[launcher[l].pid] = NoProcess /\ \A k \in Launchers \ {l} : Spared(k)
           /\ \A p \in Pids \ {launcher[l].pid} : os'[p] = os[p]
<1>1. launcher[l].pid \in Pids
  BY DEF Holding, Holds
<1>2. /\ os' = [p \in Pids |-> os'[p]] /\ os'[launcher[l].pid] = NoProcess
      /\ \A p \in Pids \ {launcher[l].pid} : os'[p] = os[p]
  BY <1>1 DEF Tables
<1>3. Aged
  BY <1>2, UnchangedAges DEF Aged, Tables
<1>4. \A k \in Launchers \ {l} : Spared(k)
  BY <1>2 DEF Holding, Holds, Spared
<1> QED
  BY <1>2, <1>3, <1>4

LEMMA LauncherSteps ==
    ASSUME LifeInv, NEW l \in Launchers,
           \/ SpawnFails(l) \/ MarkRunning(l) \/ Reap(l) \/ CloseNode(l) \/ WaitFails(l)
           \/ Finish(l) \/ LauncherDies(l)
    PROVE  LifeInv'
<1>0. Tables /\ Serials /\ Holding /\ Holds(l)
  BY DEF LifeInv, Holding
<1>a. (UNCHANGED os => Aged /\ \A k \in Launchers : Spared(k)) /\ (UNCHANGED nodes => SameNodes /\ ClosesStopped)
  BY <1>0, UnchangedAges DEF Spared
<1>1. CASE SpawnFails(l)
  BY <1>0, <1>1, <1>a, StopTurns, LauncherKeeps DEF SpawnFails
<1>2. CASE MarkRunning(l)
  <2>1. UNCHANGED <<os, nodes, stopper>> /\ launcher[l].pc = "spawned" /\ Move(l, "marked")
    BY <1>2 DEF MarkRunning
  <2>2. Turned(l) /\ IsLauncher(launcher'[l]) /\ launcher'[l].pc = "marked" /\ launcher'[l].pid = launcher[l].pid
    BY <1>0, <2>1, MoveTurns
  <2>3. launcher[l].pc \in HoldingPcs /\ Holds(l)'
    BY <1>0, <2>1, <2>2 DEF Holds, HoldingPcs, NodePcs
  <2> QED
    BY <1>a, <2>1, <2>2, <2>3, LauncherKeeps
<1>3. CASE Reap(l)
  <2>1. /\ UNCHANGED <<nodes, stopper>> /\ launcher[l].pc = "waiting" /\ Move(l, "reaped")
        /\ launcher[l].pc \in HoldingPcs /\ os' = [os EXCEPT ![launcher[l].pid] = NoProcess]
    BY <1>3 DEF Reap, HoldingPcs
  <2>2. Turned(l) /\ IsLauncher(launcher'[l]) /\ launcher'[l].pc = "reaped" /\ launcher'[l].node = launcher[l].node
    BY <1>0, <2>1, MoveTurns
  <2>3. /\ Aged /\ os'[launcher[l].pid] = NoProcess /\ \A k \in Launchers \ {l} : Spared(k)
        /\ \A p \in Pids \ {launcher[l].pid} : os'[p] = os[p]
    BY <1>0, <2>1, FreedAges
  <2> DEFINE n == launcher[l].node
  <2>4. n \in DOMAIN nodes /\ os[launcher[l].pid].serial = nodes[n].serial /\ launcher[l].pid \in Pids
        /\ nodes[n].serial # 0
    BY <1>0, <2>1 DEF Holds, HoldingPcs, NodePcs, Tables, IsNode
  <2>5. \A p \in Pids : os[p].serial = nodes[n].serial => p = launcher[l].pid
    BY <1>0, <2>4 DEF Serials
  <2>6. \A p \in Pids : os'[p].serial # nodes[n].serial
    BY <2>3, <2>4, <2>5, NoProcessIsProcess
  <2>7. Holds(l)'
    BY <2>1, <2>2, <2>4, <2>6 DEF Holds, Stopped, HoldingPcs, NodePcs
  <2>8. launcher'[l].pc # "ready" /\ launcher'[l].pc \notin HoldingPcs
    BY <2>2 DEF HoldingPcs
  <2> QED
    BY <1>a, <2>1, <2>2, <2>3, <2>7, <2>8, LauncherKeeps
<1>4. CASE CloseNode(l)
  <2>1. PICK s \in {"exited", "unknown"} : record_process_exit(launcher[l].node, s)
    BY <1>4 DEF CloseNode
  <2>2. UNCHANGED <<os, stopper>> /\ launcher[l].pc = "reaped" /\ (Move(l, "finishing") \/ Stop(l))
    BY <1>4 DEF CloseNode
  <2>3. launcher[l].node \in DOMAIN nodes /\ Stopped(nodes[launcher[l].node].serial)
    BY <1>0, <2>2 DEF Holds, NodePcs
  <2>4. SameNodes /\ ClosesStopped
    BY <1>0, <2>1, <2>3, ClosingNodes DEF ClosesStopped, ClosedStates
  <2>5. CASE Stop(l)
    BY <1>0, <1>a, <2>2, <2>4, <2>5, StopTurns, LauncherKeeps
  <2>6. CASE Move(l, "finishing")
    <3>1. Turned(l) /\ IsLauncher(launcher'[l]) /\ launcher'[l].pc = "finishing"
      BY <1>0, <2>6, MoveTurns
    <3>2. Holds(l)' /\ launcher'[l].pc \notin HoldingPcs
      BY <3>1 DEF Holds, HoldingPcs, NodePcs
    <3> QED
      BY <1>a, <2>2, <2>4, <3>1, <3>2, LauncherKeeps
  <2> QED
    BY <2>2, <2>5, <2>6
<1>5. CASE WaitFails(l)
  <2>1. UNCHANGED <<os, stopper>> /\ launcher[l].pc = "waiting" /\ Move(l, "finishing")
        /\ record_process_exit(launcher[l].node, "unknown")
    BY <1>5 DEF WaitFails
  <2>2. launcher[l].node \in DOMAIN nodes
    BY <1>0, <2>1 DEF Holds, NodePcs
  <2>3. SameNodes /\ ClosesStopped
    BY <1>0, <2>1, <2>2, ClosingNodes DEF ClosesStopped, ClosedStates
  <2>4. Turned(l) /\ IsLauncher(launcher'[l]) /\ launcher'[l].pc = "finishing"
    BY <1>0, <2>1, MoveTurns
  <2>5. Holds(l)' /\ launcher'[l].pc \notin HoldingPcs
    BY <2>4 DEF Holds, HoldingPcs, NodePcs
  <2> QED
    BY <1>a, <2>1, <2>3, <2>4, <2>5, LauncherKeeps
<1>6. CASE Finish(l)
  BY <1>0, <1>6, <1>a, StopTurns, LauncherKeeps DEF Finish
<1>7. CASE LauncherDies(l)
  <2>1. /\ UNCHANGED <<nodes, stopper>> /\ Stop(l)
        /\ os' = [p \in Pids |-> IF holds(l, p) /\ os[p].state = "zombie" THEN NoProcess ELSE os[p]]
    BY <1>7 DEF LauncherDies
  <2>2. /\ os' = [p \in Pids |-> os'[p]]
        /\ \A p \in Pids : os'[p] = os[p] \/ (holds(l, p) /\ os'[p] = NoProcess)
    BY <2>1
  <2>3. Aged
    BY <1>0, <2>2, UnchangedAges DEF Aged, Tables
  <2>4. ASSUME NEW k \in Launchers \ {l} PROVE Spared(k)
    BY <1>0, <2>2, <2>4 DEF Holding, Holds, Spared, holds, HoldingPcs
  <2> QED
    BY <1>0, <1>a, <2>1, <2>3, <2>4, StopTurns, LauncherKeeps
<1> QED
  BY <1>1, <1>2, <1>3, <1>4, <1>5, <1>6, <1>7

(* record_process_start: the node names the child the launcher holds.      *)
LEMMA RecordKeeps ==
    ASSUME LifeInv, NEW l \in Launchers, Record(l)
    PROVE  LifeInv'
<1> DEFINE p == launcher[l].pid
<1>0. Tables /\ Serials /\ Holding /\ Holds(l) /\ Stopping /\ ClosedMeansStopped
  BY DEF LifeInv, Holding
<1>1. launcher[l].pc = "marked" /\ launcher[l].pc \in HoldingPcs /\ UNCHANGED stopper
      /\ p \in Pids /\ os[p].serial # 0 /\ os[p].serial \in Nat
  BY <1>0 DEF Record, HoldingPcs, Holds, Tables, IsProcess
<1>2. CASE Stop(l) /\ os' = [os EXCEPT ![p] = NoProcess] /\ UNCHANGED nodes
  <2>1. Aged /\ \A k \in Launchers \ {l} : Spared(k)
    BY <1>0, <1>1, <1>2, FreedAges
  <2> QED
    BY <1>0, <1>1, <1>2, <2>1, UnchangedAges, StopTurns, LauncherKeeps
<1>3. ASSUME NEW i, UNCHANGED os,
             nodes' = Append(nodes, [pid |-> p, serial |-> os[p].serial, image |-> i,
                                     status |-> "running"]),
             launcher' = [launcher EXCEPT ![l].pc = "waiting", ![l].node = Len(nodes) + 1]
      PROVE  LifeInv'
  <2> DEFINE e == [pid |-> p, serial |-> os[p].serial, image |-> i, status |-> "running"]
             m == Len(nodes) + 1
             a == [launcher[l] EXCEPT !.pc = "waiting"]
             r == [a EXCEPT !.node = m]
  <2>1. IsNode(e) /\ e.pid = p /\ e.serial = os[p].serial /\ e.status = "running"
    BY <1>1 DEF IsNode
  <2> HIDE DEF e
  <2>2. /\ IsSeq(nodes') /\ DOMAIN nodes' = DOMAIN nodes \cup {m} /\ nodes'[m] = e
        /\ \A n \in DOMAIN nodes : nodes'[n] = nodes[n]
    <3>1. IsSeq(nodes) /\ nodes' = Append(nodes, e)
      BY <1>0, <1>3 DEF Tables, e
    <3>2. IsSeq(Append(nodes, e))
      BY <3>1, Appended
    <3>3. /\ DOMAIN Append(nodes, e) = DOMAIN nodes \cup {m} /\ Append(nodes, e)[m] = e
          /\ \A n \in DOMAIN nodes : Append(nodes, e)[n] = nodes[n]
      BY <3>1, Appended
    <3> QED
      BY <3>1, <3>2, <3>3
  <2>3. launcher' = [launcher EXCEPT ![l] = r]
    BY <1>0, <1>3 DEF Tables
  <2> HIDE DEF m
  <2>4. a = [pc |-> "waiting", pid |-> p, node |-> launcher[l].node]
    BY <1>0 DEF Tables, IsLauncher
  <2> HIDE DEF a
  <2>5. r = [pc |-> "waiting", pid |-> p, node |-> m]
    BY <2>4
  <2> HIDE DEF r
  <2>6. Turned(l) /\ launcher'[l] = [pc |-> "waiting", pid |-> p, node |-> m]
    BY <1>0, <2>3, <2>5 DEF Tables, Turned
  <2>7. spawned <= spawned' /\ spawned \in Nat /\ spawned' \in Nat
    <3>1. \A k \in Launchers : launcher[k].pc # "ready" => launcher'[k].pc # "ready"
      BY <2>6 DEF Turned
    <3> QED
      BY <3>1, SpawnedGrows, SpawnedIsNat, SpawnedIsNatNext
  <2>8. Tables'
    <3>1. \A k \in Launchers : IsLauncher(launcher'[k])
      BY <1>0, <2>6 DEF Turned, Tables, IsLauncher
    <3>2. \A n \in DOMAIN nodes' : IsNode(nodes'[n])
      BY <1>0, <2>1, <2>2 DEF Tables
    <3> QED
      BY <1>0, <1>1, <1>3, <2>2, <2>6, <3>1, <3>2
         DEF Tables, Turned, IsProcess, IsNode, IsLauncher, IsStopper, IsSeq
  <2>9. Serials'
    <3>1. \A q \in Pids : os'[q] = os[q] /\ os[q].serial \in Nat /\ os[q].serial <= spawned
      BY <1>0, <1>3 DEF Serials, Tables, IsProcess
    <3>2. \A n \in DOMAIN nodes : nodes[n].serial \in Nat /\ nodes[n].serial <= spawned
      BY <1>0 DEF Serials, Tables, IsNode
    <3>3. \A q \in Pids : os'[q].serial <= spawned'
      BY <2>7, <3>1
    <3>4. \A n \in DOMAIN nodes' : nodes'[n].serial <= spawned'
      BY <1>1, <2>1, <2>2, <2>7, <3>1, <3>2
    <3>5. \A n \in DOMAIN nodes', q \in Pids : os'[q].serial = nodes'[n].serial => q = nodes'[n].pid
      BY <1>0, <1>1, <2>1, <2>2, <3>1 DEF Serials
    <3> QED
      BY <1>0, <3>1, <3>3, <3>4, <3>5 DEF Serials
  <2>10. Holding'
    <3>1. Holds(l)'
      BY <1>1, <1>3, <2>1, <2>2, <2>6 DEF Holds, HoldingPcs, NodePcs
    <3>2. ASSUME NEW k \in Launchers \ {l} PROVE Holds(k)'
      <4>1. launcher'[k] = launcher[k] /\ Holds(k)
        BY <1>0, <2>6 DEF Turned, Holding
      <4> QED
        BY <1>3, <2>2, <4>1 DEF Holds, HoldingPcs, NodePcs, Stopped
    <3>3. \A k \in Launchers : launcher'[k].pc \in HoldingPcs =>
             launcher[k].pc \in HoldingPcs /\ launcher'[k].pid = launcher[k].pid
      BY <1>1, <2>6 DEF Turned
    <3> QED
      BY <1>0, <3>1, <3>2, <3>3 DEF Holding
  <2>11. Stopping'
    BY <1>0, <1>1, <1>3, <2>2 DEF Stopping, Aimed, target, TargetPcs, StrangersAreSpared
  <2>12. ClosedMeansStopped'
    BY <1>0, <1>3, <2>1, <2>2 DEF ClosedMeansStopped
  <2> QED
    BY <2>8, <2>9, <2>10, <2>11, <2>12 DEF LifeInv
<1> QED
  BY <1>2, <1>3 DEF Record
-----------------------------------------------------------------------------
(* The operating system.                                                   *)

LEMMA SystemKeeps ==
    ASSUME LifeInv, Aged, UNCHANGED <<nodes, launcher, stopper>>, \A k \in Launchers : Spared(k)
    PROVE  LifeInv'
<1>1. Tables /\ Serials /\ Holding /\ Stopping /\ ClosedMeansStopped /\ SameNodes /\ ClosesStopped
  BY UnchangedAges DEF LifeInv
<1>2. spawned <= spawned'
  BY SpawnedGrows
<1>3. Serials' /\ \A p \in Pids : IsProcess(os'[p])
  BY <1>1, <1>2, AgingKeepsSerials
<1>4. Stopping' /\ ClosedMeansStopped'
  BY <1>1, <1>2, AgingKeepsStopping, AgingKeepsClosed
<1>5. Tables'
  BY <1>1, <1>3 DEF Tables, Aged, IsProcess, IsNode, IsLauncher, IsStopper, IsSeq
<1>6. \A k \in Launchers : Holds(k)'
  BY <1>1, <1>2, HoldsOn DEF Holding
<1>7. Holding'
  BY <1>1, <1>6 DEF Holding
<1> QED
  BY <1>3, <1>4, <1>5, <1>7 DEF LifeInv

LEMMA ExitAndExecKeep ==
    ASSUME LifeInv, NEW p \in Pids, Exit(p) \/ Exec(p)
    PROVE  LifeInv'
<1>0. Tables /\ Holding /\ UNCHANGED <<nodes, launcher, stopper>> /\ os[p].state = "alive" /\ IsProcess(os[p])
  BY DEF LifeInv, Exit, Exec, Tables
<1>1. os[p] # NoProcess
  BY <1>0, NoProcessIsProcess
<1>2. ASSUME NEW e, os' = [os EXCEPT ![p] = e], IsProcess(e), e.serial = os[p].serial PROVE LifeInv'
  <2>1. os' = [q \in Pids |-> os'[q]] /\ os'[p] = e /\ \A q \in Pids \ {p} : os'[q] = os[q]
    BY <1>0, <1>2 DEF Tables
  <2>2. Aged
    BY <1>0, <1>1, <1>2, <2>1, UnchangedAges DEF Aged, Tables
  <2>3. \A k \in Launchers : Spared(k)
    BY <1>0, <1>2, <2>1 DEF Spared, Holding, Holds
  <2> QED
    BY <1>0, <2>2, <2>3, SystemKeeps
<1>3. CASE Exit(p) /\ held(p)
  <2> DEFINE e == [os[p] EXCEPT !.state = "zombie"]
  <2>1. e = [serial |-> os[p].serial, image |-> os[p].image, state |-> "zombie"]
    BY <1>0 DEF IsProcess
  <2>2. IsProcess(e) /\ e.serial = os[p].serial
    BY <1>0, <2>1 DEF IsProcess
  <2>3. os' = [os EXCEPT ![p] = e]
    BY <1>0, <1>3 DEF Exit, Tables
  <2> HIDE DEF e
  <2> QED
    BY <1>2, <2>2, <2>3
<1>4. CASE Exit(p) /\ ~held(p)
  <2>1. os' = [q \in Pids |-> os'[q]] /\ os'[p] = NoProcess /\ \A q \in Pids \ {p} : os'[q] = os[q]
    BY <1>0, <1>4 DEF Tables, Exit
  <2>2. Aged
    BY <1>0, <2>1, UnchangedAges DEF Aged, Tables
  <2>3. \A k \in Launchers : Spared(k)
    BY <1>0, <1>4, <2>1 DEF Spared, Holding, Holds, held, holds, HoldingPcs
  <2> QED
    BY <1>0, <2>2, <2>3, SystemKeeps
<1>5. CASE Exec(p)
  <2>1. PICK i \in Images : os' = [os EXCEPT ![p].image = i]
    BY <1>5 DEF Exec
  <2> DEFINE e == [os[p] EXCEPT !.image = i]
  <2>2. e = [serial |-> os[p].serial, image |-> i, state |-> os[p].state]
    BY <1>0 DEF IsProcess
  <2>3. IsProcess(e) /\ e.serial = os[p].serial
    BY <1>0, <2>2 DEF IsProcess
  <2>4. os' = [os EXCEPT ![p] = e]
    BY <1>0, <2>1 DEF Tables
  <2> HIDE DEF e
  <2> QED
    BY <1>2, <2>3, <2>4
<1> QED
  BY <1>3, <1>4, <1>5

(* A process comes to a free PID, under a new serial or as a stranger.     *)
LEMMA Occupied ==
    ASSUME LifeInv, NEW p \in Pids, NEW serial \in Nat, Occupy(p, serial), UNCHANGED nodes,
           serial = 0 \/ serial = spawned + 1, spawned <= spawned', serial <= spawned'
    PROVE  /\ os' = [q \in Pids |-> os'[q]] /\ \A q \in Pids : IsProcess(os'[q])
           /\ os'[p].serial = serial /\ \A q \in Pids \ {p} : os'[q] = os[q]
           /\ IsStopper(stopper') /\ Serials' /\ Stopping' /\ ClosedMeansStopped'
           /\ \A k \in Launchers : launcher[k].pc \in HoldingPcs => launcher[k].pid # p
           /\ \A k \in Launchers : launcher'[k] = launcher[k] => Holds(k)'
<1>0. Tables /\ Serials /\ Holding /\ Stopping /\ ClosedMeansStopped /\ os[p] = NoProcess /\ os[p].serial = 0
  BY NoProcessIsProcess DEF LifeInv, Occupy
<1>n. spawned \in Nat /\ spawned' \in Nat
  BY SpawnedIsNat, SpawnedIsNatNext
<1>1. PICK i \in Images : os' = [os EXCEPT ![p] = [serial |-> serial, image |-> i, state |-> "alive"]]
  BY DEF Occupy
<1>2. /\ os' = [q \in Pids |-> os'[q]] /\ os'[p] = [serial |-> serial, image |-> i, state |-> "alive"]
      /\ \A q \in Pids \ {p} : os'[q] = os[q]
  BY <1>0, <1>1 DEF Tables
<1>3. os'[p].serial = serial /\ IsProcess(os'[p]) /\ \A q \in Pids : IsProcess(os'[q])
  BY <1>0, <1>2 DEF IsProcess, Tables
<1>4. \A q \in Pids : os[q].serial \in Nat /\ os[q].serial <= spawned
  BY <1>0 DEF Tables, IsProcess, Serials
<1>5. \A n \in DOMAIN nodes : nodes[n].serial \in Nat \ {0} /\ nodes[n].serial <= spawned
  BY <1>0 DEF Tables, IsNode, Serials
<1>6. \A n \in DOMAIN nodes : nodes[n].serial # serial
  BY <1>5, <1>n
<1>7. Serials'
  <2>1. \A q \in Pids : os'[q].serial <= spawned'
    BY <1>2, <1>3, <1>4, <1>n
  <2>2. \A n \in DOMAIN nodes' : nodes'[n].serial <= spawned'
    BY <1>5, <1>n
  <2>3. \A q, r \in Pids : os'[q].serial = os'[r].serial /\ os'[q].serial # 0 => q = r
    BY <1>0, <1>2, <1>3, <1>4, <1>n DEF Serials
  <2>4. \A n \in DOMAIN nodes', q \in Pids : os'[q].serial = nodes'[n].serial => q = nodes'[n].pid
    BY <1>0, <1>2, <1>3, <1>6 DEF Serials
  <2> QED
    BY <2>1, <2>2, <2>3, <2>4 DEF Serials
<1>8. ASSUME NEW n \in DOMAIN nodes, Stopped(nodes[n].serial) PROVE Stopped(nodes[n].serial)'
  BY <1>2, <1>3, <1>6, <1>8 DEF Stopped
<1>9. ClosedMeansStopped'
  BY <1>0, <1>8 DEF ClosedMeansStopped, Stopped
<1> DEFINE late == stopper.late \/ (stopper.node # 0 /\ nodes[stopper.node].pid = p)
<1>10. stopper' = [stopper EXCEPT !.late = late]
  BY <1>0 DEF Occupy, Tables, IsStopper
<1> HIDE DEF late
<1>11. stopper' = [pc |-> stopper.pc, pid |-> stopper.pid, seal |-> stopper.seal, todo |-> stopper.todo,
                   node |-> stopper.node, alike |-> stopper.alike, late |-> late, hit |-> stopper.hit]
  BY <1>0, <1>10 DEF Tables, IsStopper
<1>12. /\ IsStopper(stopper') /\ stopper'.pc = stopper.pc /\ stopper'.todo = stopper.todo
       /\ stopper'.node = stopper.node /\ stopper'.alike = stopper.alike /\ stopper'.late = late
       /\ stopper'.hit = stopper.hit
  BY <1>11 DEF IsStopper
<1>13. Stopping'
  <2>1. CASE stopper.pc \in {"term", "kill"}
    <3>1. stopper.node # 0 /\ stopper.node \in DOMAIN nodes /\ target \in Pids /\ Aimed
      BY <1>0, <2>1 DEF Stopping, TargetPcs, target, Tables, IsNode
    <3>2. target # p => os'[target] = os[target]
      BY <1>2, <3>1
    <3>3. target = p => late
      BY <3>1 DEF late, target
    <3>4. stopper.late => late
      BY DEF late
    <3>5. Aimed'
      BY <1>12, <3>1, <3>2, <3>3, <3>4 DEF Aimed, target
    <3> QED
      BY <1>0, <1>12, <3>5 DEF Stopping, StrangersAreSpared
  <2>2. CASE stopper.pc \notin {"term", "kill"}
    BY <1>0, <1>12, <2>2 DEF Stopping, StrangersAreSpared
  <2> QED
    BY <2>1, <2>2
<1>14. \A k \in Launchers : launcher[k].pc \in HoldingPcs => launcher[k].pid # p
  BY <1>0 DEF Holding, Holds
<1>15. ASSUME NEW k \in Launchers, launcher'[k] = launcher[k] PROVE Holds(k)'
  <2>1. Holds(k)
    BY <1>0 DEF Holding
  <2>2. CASE launcher[k].pc = "reaped"
    BY <1>8, <1>15, <2>1, <2>2 DEF Holds, HoldingPcs, NodePcs, Stopped
  <2>3. CASE launcher[k].pc # "reaped"
    BY <1>2, <1>14, <1>15, <2>1, <2>3 DEF Holds, HoldingPcs, NodePcs
  <2> QED
    BY <2>2, <2>3
<1> QED
  BY <1>2, <1>3, <1>7, <1>9, <1>12, <1>13, <1>14, <1>15

LEMMA RecycleKeeps ==
    ASSUME LifeInv, NEW p \in Pids, Recycle(p)
    PROVE  LifeInv'
<1>1. Occupy(p, 0) /\ UNCHANGED <<nodes, launcher>> /\ Tables /\ Holding
  BY DEF Recycle, LifeInv
<1>2. spawned <= spawned' /\ 0 <= spawned'
  BY <1>1, SpawnedGrows, SpawnedIsNatNext
<1>3. /\ os' = [q \in Pids |-> os'[q]] /\ \A q \in Pids : IsProcess(os'[q])
      /\ IsStopper(stopper') /\ Serials' /\ Stopping' /\ ClosedMeansStopped'
      /\ \A k \in Launchers : launcher'[k] = launcher[k] => Holds(k)'
  BY <1>1, <1>2, Occupied
<1>4. Tables' /\ Holding'
  BY <1>1, <1>3 DEF Tables, Holding, IsProcess, IsNode, IsLauncher, IsStopper, IsSeq
<1> QED
  BY <1>3, <1>4 DEF LifeInv

LEMMA SpawnKeeps ==
    ASSUME LifeInv, NEW l \in Launchers, Spawn(l)
    PROVE  LifeInv'
<1>1. Tables /\ Holding /\ launcher[l].pc = "ready" /\ UNCHANGED nodes
  BY DEF Spawn, LifeInv
<1> DEFINE pc == IF workload = "run" THEN "spawned" ELSE "marked"
<1>2. PICK p \in Pids : /\ Occupy(p, spawned + 1)
                        /\ launcher' = [launcher EXCEPT ![l] = [pc |-> pc, pid |-> p, node |-> 0]]
  BY DEF Spawn
<1>3. pc \in {"spawned", "marked"}
  OBVIOUS
<1> HIDE DEF pc
<1>4. Turned(l) /\ launcher'[l] = [pc |-> pc, pid |-> p, node |-> 0]
  BY <1>1, <1>2 DEF Tables, Turned
<1>5. IsLauncher(launcher'[l]) /\ launcher'[l].pc = pc /\ launcher'[l].pid = p
  BY <1>4 DEF IsLauncher
<1>6. spawned' = spawned + 1 /\ spawned \in Nat
  BY <1>1, <1>3, <1>4, <1>5, SpawnCounts, SpawnedIsNat DEF Turned
<1>7. spawned + 1 \in Nat /\ spawned <= spawned' /\ spawned + 1 <= spawned'
  BY <1>6
<1>8. /\ os' = [q \in Pids |-> os'[q]] /\ \A q \in Pids : IsProcess(os'[q])
      /\ os'[p].serial = spawned + 1
      /\ IsStopper(stopper') /\ Serials' /\ Stopping' /\ ClosedMeansStopped'
      /\ \A k \in Launchers : launcher[k].pc \in HoldingPcs => launcher[k].pid # p
      /\ \A k \in Launchers : launcher'[k] = launcher[k] => Holds(k)'
  BY <1>1, <1>2, <1>7, Occupied
<1>9. Tables'
  <2>1. \A k \in Launchers : IsLauncher(launcher'[k])
    BY <1>1, <1>4, <1>5 DEF Turned, Tables
  <2> QED
    BY <1>1, <1>4, <1>8, <2>1 DEF Tables, Turned, IsProcess, IsNode, IsLauncher, IsStopper, IsSeq
<1>10. Holding'
  <2>1. Holds(l)'
    BY <1>3, <1>5, <1>6, <1>8 DEF Holds, NodePcs, HoldingPcs
  <2>2. \A k \in Launchers : Holds(k)'
    BY <1>4, <1>8, <2>1 DEF Turned
  <2>3. \A j, k \in Launchers :
            /\ launcher'[j].pc \in HoldingPcs /\ launcher'[k].pc \in HoldingPcs
            /\ launcher'[j].pid = launcher'[k].pid
            => j = k
    BY <1>1, <1>4, <1>5, <1>8 DEF Holding, Turned
  <2> QED
    BY <2>2, <2>3 DEF Holding
<1> QED
  BY <1>8, <1>9, <1>10 DEF LifeInv
-----------------------------------------------------------------------------
(* The containing command.                                                 *)

LEMMA StopperKeeps ==
    ASSUME LifeInv, UNCHANGED <<os, launcher>>, SameNodes, ClosesStopped, IsStopper(stopper'), Stopping'
    PROVE  LifeInv'
<1>1. Tables /\ Serials /\ Holding /\ ClosedMeansStopped /\ Aged
  BY UnchangedAges DEF LifeInv
<1>2. spawned <= spawned'
  BY SpawnedGrows
<1>3. Serials'
  BY <1>1, <1>2, AgingKeepsSerials
<1>4. ClosedMeansStopped'
  BY <1>1, <1>2, AgingKeepsClosed
<1>5. Tables'
  BY <1>1 DEF Tables, SameNodes, IsProcess, IsNode, IsLauncher, IsStopper, IsSeq
<1>6. \A k \in Launchers : Spared(k)
  BY DEF Spared
<1>7. \A k \in Launchers : Holds(k)'
  BY <1>1, <1>2, <1>6, HoldsOn DEF Holding
<1>8. Holding'
  BY <1>1, <1>7 DEF Holding
<1> QED
  BY <1>3, <1>4, <1>5, <1>8 DEF LifeInv

(* What the proof reads of the stopper's record: its place, what is left to *)
(* do, the node it is at, whether a look-alike was taken for it, whom it hit. *)
Reads(r, pc, todo, node, alike, hit) ==
    IsStopper(r) /\ r.pc = pc /\ r.todo = todo /\ r.node = node /\ r.alike = alike /\ r.hit = hit

LEMMA SetsPlace ==
    ASSUME NEW r, IsStopper(r), NEW v
    PROVE  Reads([r EXCEPT !.pc = v], v, r.todo, r.node, r.alike, r.hit)
  BY DEF Reads, IsStopper

LEMMA SetsTodo ==
    ASSUME NEW r, IsStopper(r), NEW v
    PROVE  Reads([r EXCEPT !.todo = v], r.pc, v, r.node, r.alike, r.hit)
  BY DEF Reads, IsStopper

LEMMA SetsNode ==
    ASSUME NEW r, IsStopper(r), NEW v
    PROVE  Reads([r EXCEPT !.node = v], r.pc, r.todo, v, r.alike, r.hit)
  BY DEF Reads, IsStopper

LEMMA SetsAlike ==
    ASSUME NEW r, IsStopper(r), NEW v
    PROVE  Reads([r EXCEPT !.alike = v], r.pc, r.todo, r.node, v, r.hit)
  BY DEF Reads, IsStopper

LEMMA SetsHit ==
    ASSUME NEW r, IsStopper(r), NEW v
    PROVE  Reads([r EXCEPT !.hit = v], r.pc, r.todo, r.node, r.alike, v)
  BY DEF Reads, IsStopper

LEMMA SetsUnread ==
    ASSUME NEW r, IsStopper(r), NEW v
    PROVE  /\ Reads([r EXCEPT !.pid = v], r.pc, r.todo, r.node, r.alike, r.hit)
           /\ Reads([r EXCEPT !.seal = v], r.pc, r.todo, r.node, r.alike, r.hit)
           /\ Reads([r EXCEPT !.late = v], r.pc, r.todo, r.node, r.alike, r.hit)
  BY DEF Reads, IsStopper

LEMMA BeginsAnew ==
    ASSUME NEW p, NEW seal, NEW todo
    PROVE  Reads([Idle EXCEPT !.pc = "next", !.pid = p, !.seal = seal, !.todo = todo],
                 "next", todo, 0, Idle.alike, "none")
<1> DEFINE a == [Idle EXCEPT !.pc = "next"]
           b == [a EXCEPT !.pid = p]
           c == [b EXCEPT !.seal = seal]
           d == [c EXCEPT !.todo = todo]
<1>0. [Idle EXCEPT !.pc = "next", !.pid = p, !.seal = seal, !.todo = todo] = d
  OBVIOUS
<1>i. IsStopper(Idle) /\ Idle.node = 0 /\ Idle.hit = "none"
  BY DEF IsStopper, Idle
<1>1. Reads(a, "next", Idle.todo, 0, Idle.alike, "none")
  BY <1>i, SetsPlace
<1> HIDE DEF a
<1>2. Reads(b, "next", Idle.todo, 0, Idle.alike, "none")
  BY <1>1, SetsUnread DEF Reads
<1> HIDE DEF b
<1>3. Reads(c, "next", Idle.todo, 0, Idle.alike, "none")
  BY <1>2, SetsUnread DEF Reads
<1> HIDE DEF c
<1>4. Reads(d, "next", todo, 0, Idle.alike, "none")
  BY <1>3, SetsTodo DEF Reads
<1> HIDE DEF d
<1> QED
  BY <1>0, <1>4

LEMMA LeavingKeeps ==
    ASSUME LifeInv, Leave, UNCHANGED <<os, launcher>>, SameNodes, ClosesStopped
    PROVE  LifeInv'
<1>1. Reads(stopper', "next", stopper.todo, 0, Idle.alike, "none")
  BY BeginsAnew DEF Leave
<1>2. /\ IsStopper(stopper') /\ stopper'.pc = "next" /\ stopper'.todo = stopper.todo
      /\ stopper'.node = 0 /\ stopper'.hit = "none"
  BY <1>1 DEF Reads
<1>3. Stopping'
  BY <1>2 DEF LifeInv, Stopping, TargetPcs, StrangersAreSpared, SameNodes
<1> QED
  BY <1>2, <1>3, StopperKeeps

LEMMA StepSets ==
    ASSUME Tables, NEW pc, NEW hit, Step(pc, hit)
    PROVE  /\ IsStopper(stopper') /\ stopper'.pc = pc /\ stopper'.todo = stopper.todo
           /\ stopper'.node = stopper.node /\ stopper'.hit = hit
<1> DEFINE a == [stopper EXCEPT !.pc = pc]
           b == [a EXCEPT !.late = FALSE]
           c == [b EXCEPT !.hit = hit]
<1>0. stopper' = c
  BY DEF Step
<1>1. Reads(a, pc, stopper.todo, stopper.node, stopper.alike, stopper.hit)
  BY SetsPlace DEF Tables
<1> HIDE DEF a
<1>2. Reads(b, pc, stopper.todo, stopper.node, stopper.alike, stopper.hit)
  BY <1>1, SetsUnread DEF Reads
<1> HIDE DEF b
<1>3. Reads(c, pc, stopper.todo, stopper.node, stopper.alike, hit)
  BY <1>2, SetsHit DEF Reads
<1> HIDE DEF c
<1> QED
  BY <1>0, <1>3 DEF Reads

LEMMA StepKeeps ==
    ASSUME LifeInv, NEW pc \in {"grace", "killed", "recheck"}, NEW hit, Step(pc, hit), hit # "stranger",
           stopper.pc \in TargetPcs, UNCHANGED <<os, launcher, nodes>>
    PROVE  LifeInv'
<1>1. /\ IsStopper(stopper') /\ stopper'.pc = pc /\ stopper'.todo = stopper.todo
      /\ stopper'.node = stopper.node /\ stopper'.hit = hit
  BY StepSets DEF LifeInv
<1>2. Stopping'
  BY <1>1 DEF LifeInv, Stopping, TargetPcs, StrangersAreSpared
<1>3. SameNodes /\ ClosesStopped
  BY UnchangedAges DEF LifeInv
<1> QED
  BY <1>1, <1>2, <1>3, StopperKeeps

LEMMA ConfirmKeeps ==
    ASSUME LifeInv, NEW pc \in {"check", "recheck"}, NEW s, NEW next \in {"term", "kill"},
           Confirm(pc, s, next)
    PROVE  LifeInv'
<1>0. /\ Tables /\ Serials /\ Stopping /\ UNCHANGED <<os, launcher>>
      /\ stopper.pc \in TargetPcs /\ stopper.node # 0 /\ stopper.node \in DOMAIN nodes
  BY DEF Confirm, LifeInv, Stopping, TargetPcs
<1>s. UNCHANGED nodes => SameNodes /\ ClosesStopped
  BY <1>0, UnchangedAges
<1>t. target \in Pids /\ IsProcess(os[target]) /\ "gone" \notin Images
  BY <1>0, LifecycleAssumption DEF target, Tables, IsNode
<1>1. PICK i \in readings(target) :
         \/ i = "gone" /\ record_process_exit(stopper.node, s) /\ Leave
         \/ i # "gone" /\ ~matches_recorded(i) /\ Leave /\ UNCHANGED nodes
         \/ i # "gone" /\ matches_recorded(i) /\ UNCHANGED nodes
            /\ stopper' = [stopper EXCEPT !.pc = next, !.late = FALSE,
                             !.alike = os[target].serial # nodes[stopper.node].serial]
  BY DEF Confirm
<1>2. CASE i = "gone" /\ record_process_exit(stopper.node, s) /\ Leave
  <2>1. os[target].state # "alive"
    BY <1>1, <1>2, <1>t DEF readings, IsProcess
  <2>2. Stopped(nodes[stopper.node].serial)
    BY <1>0, <2>1 DEF Stopped, Serials, target
  <2>3. SameNodes /\ ClosesStopped
    BY <1>0, <1>2, <2>2, ClosingNodes DEF ClosesStopped
  <2> QED
    BY <1>0, <1>2, <2>3, LeavingKeeps
<1>3. CASE Leave /\ UNCHANGED nodes
  BY <1>0, <1>3, <1>s, LeavingKeeps
<1>4. CASE UNCHANGED nodes /\ stopper' = [stopper EXCEPT !.pc = next, !.late = FALSE,
                             !.alike = os[target].serial # nodes[stopper.node].serial]
  <2> DEFINE alike == os[target].serial # nodes[stopper.node].serial
             a == [stopper EXCEPT !.pc = next]
             b == [a EXCEPT !.late = FALSE]
             c == [b EXCEPT !.alike = alike]
  <2>0. stopper' = c
    BY <1>4
  <2> HIDE DEF alike
  <2>1. Reads(a, next, stopper.todo, stopper.node, stopper.alike, stopper.hit)
    BY <1>0, SetsPlace DEF Tables
  <2> HIDE DEF a
  <2>2. Reads(b, next, stopper.todo, stopper.node, stopper.alike, stopper.hit)
    BY <2>1, SetsUnread DEF Reads
  <2> HIDE DEF b
  <2>3. Reads(c, next, stopper.todo, stopper.node, alike, stopper.hit)
    BY <2>2, SetsAlike DEF Reads
  <2> HIDE DEF c
  <2>4. /\ IsStopper(stopper') /\ stopper'.pc = next /\ stopper'.todo = stopper.todo
        /\ stopper'.node = stopper.node /\ stopper'.alike = alike /\ stopper'.hit = stopper.hit
    BY <2>0, <2>3 DEF Reads
  <2>5. Aimed'
    BY <1>0, <1>4, <2>4 DEF Aimed, alike, target
  <2>6. Stopping'
    BY <1>0, <1>4, <2>4, <2>5 DEF Stopping, TargetPcs, StrangersAreSpared
  <2> QED
    BY <1>0, <1>4, <1>s, <2>4, <2>6, StopperKeeps
<1> QED
  BY <1>1, <1>2, <1>3, <1>4

LEMMA SignalKeeps ==
    ASSUME LifeInv, NEW pc \in {"term", "kill"}, NEW next \in {"grace", "killed"}, Signal(pc, next)
    PROVE  LifeInv'
<1>0. UNCHANGED <<os, launcher, nodes>> /\ stopper.pc \in TargetPcs /\ Aimed
  BY DEF Signal, LifeInv, Stopping, TargetPcs
<1>s. SameNodes /\ ClosesStopped
  BY <1>0, UnchangedAges DEF LifeInv
<1>1. CASE Leave
  BY <1>0, <1>1, <1>s, LeavingKeeps
<1>2. CASE ~Leave
  <2> DEFINE hit == IF os[target].serial = nodes[stopper.node].serial THEN "recorded"
                    ELSE IF stopper.alike THEN "alike"
                    ELSE IF stopper.late THEN "late" ELSE "stranger"
  <2>1. os[target] # NoProcess /\ Step(next, hit)
    BY <1>2 DEF Signal
  <2>2. os[target].serial = nodes[stopper.node].serial \/ stopper.alike \/ stopper.late
    BY <1>0, <2>1 DEF Aimed
  <2>3. hit # "stranger"
    BY <2>2
  <2> HIDE DEF hit
  <2> QED
    BY <1>0, <2>1, <2>3, StepKeeps
<1> QED
  BY <1>1, <1>2

LEMMA WaitKeeps ==
    ASSUME LifeInv, NEW pc \in {"grace", "killed"}, NEW next \in {"recheck", "refused"}, Wait(pc, next)
    PROVE  LifeInv'
<1>0. /\ Tables /\ Serials /\ Stopping /\ UNCHANGED <<os, launcher>>
      /\ stopper.pc \in TargetPcs /\ stopper.node # 0 /\ stopper.node \in DOMAIN nodes
  BY DEF Wait, LifeInv, Stopping, TargetPcs
<1>s. UNCHANGED nodes => SameNodes /\ ClosesStopped
  BY <1>0, UnchangedAges
<1>t. target \in Pids /\ IsProcess(os[target]) /\ "gone" \notin Images
  BY <1>0, LifecycleAssumption DEF target, Tables, IsNode
<1>1. CASE sees_exit(target) /\ record_process_exit(stopper.node, "terminated") /\ Leave
  <2>1. os[target].state # "alive"
    BY <1>1, <1>t DEF readings, sees_exit, IsProcess
  <2>2. Stopped(nodes[stopper.node].serial)
    BY <1>0, <2>1 DEF Stopped, Serials, target
  <2>3. SameNodes /\ ClosesStopped
    BY <1>0, <1>1, <2>2, ClosingNodes DEF ClosesStopped
  <2> QED
    BY <1>0, <1>1, <2>3, LeavingKeeps
<1>2. CASE Leave /\ UNCHANGED nodes
  BY <1>0, <1>2, <1>s, LeavingKeeps
<1>3. CASE next = "recheck" /\ Step(next, "none") /\ UNCHANGED nodes
  BY <1>0, <1>3, StepKeeps
<1> QED
  BY <1>1, <1>2, <1>3 DEF Wait

LEMMA ContainingKeeps ==
    ASSUME LifeInv, Contain \/ NextNode \/ ContainEnds
    PROVE  LifeInv'
<1>0. Tables /\ Stopping /\ UNCHANGED <<os, nodes, launcher>>
  BY DEF LifeInv, Contain, NextNode, ContainEnds, processVars
<1>s. SameNodes /\ ClosesStopped
  BY <1>0, UnchangedAges
<1>1. CASE Contain
  <2>1. PICK terminate \in BOOLEAN, seal \in BOOLEAN, p \in recyclable \cup {Nowhere} :
          stopper' = [Idle EXCEPT !.pc = "next", !.pid = p, !.seal = seal,
                        !.todo = {n \in DOMAIN nodes : terminate /\ nodes[n].status = "running"}]
    BY <1>1 DEF Contain
  <2> DEFINE live == {n \in DOMAIN nodes : terminate /\ nodes[n].status = "running"}
  <2>2. Reads(stopper', "next", live, 0, Idle.alike, "none") /\ live \subseteq DOMAIN nodes
    BY <2>1, BeginsAnew
  <2> HIDE DEF live
  <2>3. /\ IsStopper(stopper') /\ stopper'.pc = "next" /\ stopper'.todo = live
        /\ stopper'.node = 0 /\ stopper'.hit = "none"
    BY <2>2 DEF Reads
  <2>4. Stopping'
    BY <1>0, <2>2, <2>3 DEF Stopping, TargetPcs, StrangersAreSpared
  <2> QED
    BY <1>0, <1>s, <2>3, <2>4, StopperKeeps
<1>2. CASE NextNode
  <2>1. PICK n \in stopper.todo :
          stopper' = [stopper EXCEPT !.todo = @ \ {n},
                        !.pc = IF nodes[n].pid = stopper.pid THEN "next" ELSE "check",
                        !.node = IF nodes[n].pid = stopper.pid THEN 0 ELSE n]
    BY <1>2 DEF NextNode
  <2> DEFINE pc == IF nodes[n].pid = stopper.pid THEN "next" ELSE "check"
             node == IF nodes[n].pid = stopper.pid THEN 0 ELSE n
             todo == stopper.todo \ {n}
             a == [stopper EXCEPT !.todo = todo]
             b == [a EXCEPT !.pc = pc]
             c == [b EXCEPT !.node = node]
  <2>2. stopper' = c
    BY <2>1
  <2>3. (pc = "next" /\ node = 0) \/ (pc = "check" /\ node = n)
    <3>1. CASE nodes[n].pid = stopper.pid
      <4>1. pc = "next"
        BY <3>1
      <4>2. node = 0
        BY <3>1
      <4> QED
        BY <4>1, <4>2
    <3>2. CASE nodes[n].pid # stopper.pid
      <4>1. pc = "check"
        BY <3>2
      <4>2. node = n
        BY <3>2
      <4> QED
        BY <4>1, <4>2
    <3> QED
      BY <3>1, <3>2
  <2>m. n \in DOMAIN nodes /\ todo \subseteq DOMAIN nodes
    BY <1>0, <2>1 DEF Stopping
  <2>n. n # 0
    BY <1>0, <2>m DEF Tables, IsSeq
  <2> HIDE DEF pc, node, todo
  <2>4. Reads(a, stopper.pc, todo, stopper.node, stopper.alike, stopper.hit)
    BY <1>0, SetsTodo DEF Tables
  <2> HIDE DEF a
  <2>5. Reads(b, pc, todo, stopper.node, stopper.alike, stopper.hit)
    BY <2>4, SetsPlace DEF Reads
  <2> HIDE DEF b
  <2>6. Reads(c, pc, todo, node, stopper.alike, stopper.hit)
    BY <2>5, SetsNode DEF Reads
  <2> HIDE DEF c
  <2>7. /\ IsStopper(stopper') /\ stopper'.pc = pc /\ stopper'.todo = todo
        /\ stopper'.node = node /\ stopper'.hit = stopper.hit
    BY <2>2, <2>6 DEF Reads
  <2>8. Stopping'
    BY <1>0, <2>3, <2>7, <2>m, <2>n DEF Stopping, TargetPcs, StrangersAreSpared
  <2> QED
    BY <1>0, <1>s, <2>7, <2>8, StopperKeeps
<1>3. CASE ContainEnds
  <2>1. stopper' = Idle
    BY <1>3 DEF ContainEnds
  <2>2. IsStopper(Idle) /\ Idle.pc = "idle" /\ Idle.todo = {} /\ Idle.node = 0 /\ Idle.hit = "none"
    BY DEF Idle, IsStopper
  <2>3. Stopping'
    BY <2>1, <2>2 DEF Stopping, TargetPcs, StrangersAreSpared
  <2> QED
    BY <1>0, <1>s, <2>1, <2>2, <2>3, StopperKeeps
<1> QED
  BY <1>1, <1>2, <1>3

-----------------------------------------------------------------------------
(* The session, its files and their rollback included.                     *)

LEMMA LifeInitially == Init => LifeInv
<1> SUFFICES ASSUME InitLife PROVE LifeInv
  BY DEF Init
<1>1. /\ os = [p \in Pids |-> NoProcess] /\ nodes = <<>> /\ stopper = Idle
      /\ launcher = [l \in Launchers |-> [pc |-> "ready", pid |-> Nowhere, node |-> 0]]
  BY DEF InitLife
<1>2. IsStopper(Idle) /\ Idle.pc = "idle" /\ Idle.todo = {} /\ Idle.node = 0 /\ Idle.hit = "none"
  BY DEF Idle, IsStopper
<1>3. \A l \in Launchers : IsLauncher(launcher[l]) /\ launcher[l].pc = "ready"
  BY <1>1 DEF IsLauncher
<1>4. IsSeq(nodes) /\ DOMAIN nodes = {}
  BY <1>1 DEF IsSeq
<1>5. \A p \in Pids : os[p] = NoProcess /\ os[p].serial = 0 /\ IsProcess(os[p])
  BY <1>1, NoProcessIsProcess
<1>6. Tables
  BY <1>1, <1>2, <1>3, <1>4, <1>5 DEF Tables
<1>7. Serials
  BY <1>4, <1>5, SpawnedIsNat DEF Serials
<1>8. Holding
  BY <1>3 DEF Holding, Holds, HoldingPcs, NodePcs
<1>9. Stopping /\ ClosedMeansStopped
  BY <1>1, <1>2, <1>4 DEF Stopping, ClosedMeansStopped, StrangersAreSpared, TargetPcs
<1> QED
  BY <1>6, <1>7, <1>8, <1>9 DEF LifeInv

LEMMA UnmovedKeeps ==
    ASSUME LifeInv, UNCHANGED <<os, nodes, launcher, stopper>>
    PROVE  LifeInv'
<1>1. Aged /\ \A k \in Launchers : Spared(k)
  BY UnchangedAges DEF LifeInv, Spared
<1> QED
  BY <1>1, SystemKeeps

LEMMA LifeKept == LifeInv /\ [Next]_vars => LifeInv'
<1> SUFFICES ASSUME LifeInv, [Next]_vars PROVE LifeInv'
  OBVIOUS
<1>1. CASE UNCHANGED lifeVars
  BY <1>1, UnmovedKeeps DEF lifeVars
<1>2. CASE NextLife
  <2>1. CASE Activate \/ Close
    BY <2>1, UnmovedKeeps DEF Activate, Close, processVars
  <2>2. CASE TerminateNode
    BY <2>2, ConfirmKeeps, SignalKeeps, WaitKeeps DEF TerminateNode
  <2>3. ASSUME NEW l \in Launchers,
               \/ Spawn(l) \/ SpawnFails(l) \/ MarkRunning(l) \/ Record(l) \/ Reap(l)
               \/ CloseNode(l) \/ WaitFails(l) \/ Finish(l) \/ LauncherDies(l)
        PROVE  LifeInv'
    BY <2>3, SpawnKeeps, LauncherSteps, RecordKeeps
  <2>4. ASSUME NEW p \in Pids, Exit(p) \/ Exec(p) \/ Recycle(p) PROVE LifeInv'
    BY <2>4, ExitAndExecKeep, RecycleKeeps
  <2> QED
    BY <1>2, <2>1, <2>2, <2>3, <2>4, ContainingKeeps DEF NextLife
<1>3. CASE Next /\ ~NextLife
  <2>1. UNCHANGED lifeVars
    BY <1>3 DEF Next, Admit, Capture, Perform, Foreign, Begin, Check, Restore, Mark, Report, Abort
  <2> QED
    BY <1>1, <2>1
<1> QED
  BY <1>1, <1>2, <1>3 DEF vars

(* The invariant above holds of every behaviour of a session (store.rs,    *)
(* process_broker.rs, provenance.rs, terminate.rs).                        *)
THEOREM LifeInvariant == Spec => []LifeInv
  BY LifeInitially, LifeKept, PTL DEF Spec

(* What a launcher or a containment reports as exited or terminated has    *)
(* stopped (provenance.rs record_process_exit, terminate.rs                *)
(* terminate_node).                                                        *)
THEOREM ReportedStopsAreStops == Spec => []ClosedMeansStopped
<1>1. LifeInv => ClosedMeansStopped
  BY DEF LifeInv
<1> QED
  BY <1>1, LifeInvariant, PTL

(* A signal reaches a process other than the recorded one only in the gap  *)
(* right after its check or where ps cannot tell the two apart             *)
(* (terminate.rs terminate_node, process_identity.rs matches_recorded).    *)
THEOREM SignalsSpareStrangers == Spec => []StrangersAreSpared
<1>1. LifeInv => StrangersAreSpared
  BY DEF LifeInv, Stopping
<1> QED
  BY <1>1, LifeInvariant, PTL

-----------------------------------------------------------------------------
(***************************************************************************)
(* Rollback.  Rows are taken newest first, and under the hypothesis that   *)
(* the timestamps of a file's rows are in order that is the order opposite *)
(* to the one they were made in.  So the rows of a file that are behind    *)
(* the rollback are later than those ahead of it, and what the file holds  *)
(* is what the earliest of those behind it preserved.                      *)
(***************************************************************************)

IsRow(r, n) ==
    /\ r = [file |-> r.file, prior |-> r.prior, preserved |-> r.preserved, post |-> r.post,
            at |-> r.at, restored |-> r.restored]
    /\ r.file \in Files /\ r.at \in 1..n

Rows(table) == \E n \in Nat : table = [i \in 1..n |-> table[i]] /\ \A i \in 1..n : IsRow(table[i], n)

Effect(e) == e.file \in Files

Writes(k) ==
    /\ k.pc = "capture" => \/ \E e : k.effects = <<e>> /\ Effect(e)
                           \/ \E e, d : k.effects = <<e, d>> /\ Effect(e) /\ Effect(d)
    /\ k.pc \in {"capture", "perform"} => k.op \in Ops

IsRun(r) == r = [pc |-> r.pc, id |-> r.id, todo |-> r.todo, refused |-> r.refused,
                 considered |-> r.considered, marked |-> r.marked]

(* The rows a rollback has restored, and those it has yet to.              *)
Behind(r) == {i \in r.considered \ r.todo : r.pc = "restore" => i # r.id}
Ahead(r)  == r.considered \ Behind(r)

Ordered(table, f) ==
    \A i, j \in DOMAIN table :
        i < j /\ table[i].file = f /\ table[j].file = f => table[i].at < table[j].at

(* How far the rollback r is with file f of contents c.                    *)
Restores(r, table, f, c) ==
    /\ \A i \in Behind(r), j \in Ahead(r) : table[i].file = f /\ table[j].file = f => j < i
    /\ r.pc = "restore" => \A j \in r.todo : table[j].file = f /\ table[r.id].file = f => j < r.id
    /\ \A i \in Behind(r) : table[i].file = f /\ (\A j \in Behind(r) : table[j].file = f => i <= j)
                               => c = table[i].prior

(* Rows recorded since the rollback read them come after those it read.    *)
Considers(r, table) ==
    /\ r.todo \subseteq r.considered /\ r.considered \subseteq DOMAIN table
    /\ \A i \in r.considered, j \in DOMAIN table :
          j < i /\ table[j].file = table[i].file => j \in r.considered
    /\ r.pc \in {"restore", "mark"} => r.id \in r.considered \ r.todo
    /\ r.pc = "done" => r.todo = {}

Running(r) == r.pc \in {"check", "restore", "mark", "done"}

RollInv ==
    /\ Rows(preimages) /\ files = [f \in Files |-> files[f]]
    /\ writer = [w \in Writers |-> writer[w]] /\ \A w \in Writers : Writes(writer[w])
    /\ IsRun(rb) /\ Considers(rb, preimages)
    /\ rb.pc # "idle" => Running(rb)
    /\ Running(rb) /\ ~rb.refused =>
          \A f \in Files \ disturbed : Ordered(preimages, f) => Restores(rb, preimages, f, files[f])

(* There is a newest row of any rows, and newest_first takes it.           *)
LEMMA NewestIs ==
    ASSUME Rows(preimages), NEW ids, ids # {}, ids \subseteq DOMAIN preimages
    PROVE  /\ newest_first(ids) \in ids
           /\ \A j \in ids : preimages[j].at <= preimages[newest_first(ids)].at
<1>1. PICK n \in Nat : preimages = [i \in 1..n |-> preimages[i]] /\ \A i \in 1..n : IsRow(preimages[i], n)
  BY DEF Rows
<1>2. \A i \in ids : preimages[i].at \in Nat /\ preimages[i].at <= n
  BY <1>1 DEF IsRow
<1> DEFINE T == {n - preimages[i].at : i \in ids}
<1>3. T \subseteq Nat /\ T # {}
  BY <1>2
<1>4. PICK x \in T : \A y \in T : x <= y
  BY <1>3, LeastNatural
<1>5. PICK i \in ids : x = n - preimages[i].at
  BY <1>4
<1>6. ASSUME NEW j \in ids PROVE preimages[j].at <= preimages[i].at
  <2>1. n - preimages[i].at <= n - preimages[j].at
    BY <1>4, <1>5
  <2> QED
    BY <1>2, <2>1
<1>7. \E k \in ids : \A j \in ids : preimages[j].at <= preimages[k].at
  BY <1>6
<1> QED
  BY <1>7 DEF newest_first

(* Two rows of one file whose order newest_first tells.                    *)
LEMMA NewerIsLater ==
    ASSUME NEW table, Rows(table), NEW f, Ordered(table, f), NEW i \in DOMAIN table,
           NEW j \in DOMAIN table, table[i].file = f, table[j].file = f,
           table[j].at <= table[i].at, i # j
    PROVE  j < i
<1>1. PICK n \in Nat : table = [k \in 1..n |-> table[k]] /\ \A k \in 1..n : IsRow(table[k], n)
  BY DEF Rows
<1>2. i \in Nat /\ j \in Nat /\ table[i].at \in Nat /\ table[j].at \in Nat
  BY <1>1 DEF IsRow
<1>3. ~(i < j)
  BY <1>2 DEF Ordered
<1> QED
  BY <1>2, <1>3

(* What the proof of a step has to show, conjunct by conjunct.             *)
Progress(r, table, content, others) ==
    Running(r) /\ ~r.refused =>
        \A f \in Files \ others : Ordered(table, f) => Restores(r, table, f, content[f])

LEMMA RollInvIs ==
    RollInv <=> /\ Rows(preimages) /\ files = [f \in Files |-> files[f]]
                /\ writer = [w \in Writers |-> writer[w]] /\ \A w \in Writers : Writes(writer[w])
                /\ IsRun(rb) /\ Considers(rb, preimages) /\ (rb.pc # "idle" => Running(rb))
                /\ Progress(rb, preimages, files, disturbed)
  BY DEF RollInv, Progress

(* Others change files: what the rollback says excepts them.               *)
LEMMA OthersWrite ==
    ASSUME RollInv, UNCHANGED <<preimages, rb>>,
           files' = [f \in Files |-> files'[f]],
           writer' = [w \in Writers |-> writer'[w]], \A w \in Writers : Writes(writer'[w]),
           rb.pc = "idle" \/ (/\ disturbed \subseteq disturbed'
                              /\ \A f \in Files \ disturbed' : files'[f] = files[f])
    PROVE  RollInv'
<1>1. Progress(rb, preimages, files', disturbed')
  <2>1. CASE rb.pc = "idle"
    BY <2>1 DEF Progress, Running
  <2>2. CASE /\ disturbed \subseteq disturbed'
             /\ \A f \in Files \ disturbed' : files'[f] = files[f]
    BY <2>2, RollInvIs DEF Progress
  <2> QED
    BY <2>1, <2>2
<1> QED
  BY <1>1 DEF RollInv, Progress

(* A step of the rollback that leaves the files and the rows alone.        *)
LEMMA RunTurns ==
    ASSUME RollInv, UNCHANGED <<preimages, files, writer>>,
           IsRun(rb'), Considers(rb', preimages), rb'.pc # "idle" => Running(rb'),
           Progress(rb', preimages, files, disturbed')
    PROVE  RollInv'
  BY DEF RollInv, Progress

LEMMA TurnedIs ==
    ASSUME NEW pc, NEW id, NEW todo, NEW refused, NEW r, r = turned(pc, id, todo, refused)
    PROVE  /\ IsRun(r) /\ r.pc = pc /\ r.id = id /\ r.todo = todo /\ r.refused = refused
           /\ r.considered = rb.considered
  BY DEF turned, IsRun

LEMMA BeginRolls == ASSUME RollInv, Begin PROVE RollInv'
<1>1. PICK fs : rb' = [pc |-> "check", id |-> 0,
                       todo |-> {i \in DOMAIN preimages : preimages[i].file \in fs},
                       refused |-> FALSE,
                       considered |-> {i \in DOMAIN preimages : preimages[i].file \in fs},
                       marked |-> {i \in {i \in DOMAIN preimages : preimages[i].file \in fs} :
                                        preimages[i].restored}]
  BY DEF Begin
<1> DEFINE ids == {i \in DOMAIN preimages : preimages[i].file \in fs}
<1>2. IsRun(rb') /\ rb'.pc = "check" /\ rb'.todo = ids /\ rb'.considered = ids
  BY <1>1 DEF IsRun
<1>3. UNCHANGED <<preimages, files, writer>>
  BY DEF Begin
<1>4. Considers(rb', preimages)
  BY <1>2 DEF Considers
<1>5. Behind(rb') = {}
  BY <1>2 DEF Behind
<1>6. Progress(rb', preimages, files, disturbed')
  BY <1>2, <1>5 DEF Progress, Restores
<1> QED
  BY <1>2, <1>3, <1>4, <1>6, RunTurns DEF Running

LEMMA AbortRolls == ASSUME RollInv, Abort PROVE RollInv'
<1>1. UNCHANGED <<preimages, files, writer>> /\ rb' = NoRun
  BY DEF Abort
<1>2. IsRun(NoRun) /\ NoRun.pc = "idle" /\ NoRun.todo = {} /\ NoRun.considered = {}
  BY DEF NoRun, IsRun
<1>3. Considers(NoRun, preimages) /\ Progress(NoRun, preimages, files, disturbed')
  BY <1>2 DEF Considers, Progress, Running
<1> QED
  BY <1>1, <1>2, <1>3, RunTurns

(* A row is refused: the rollback will not report COMPLETE.                *)
LEMMA RefusalRolls ==
    ASSUME RollInv, UNCHANGED <<preimages, files, writer>>, NEW todo, todo \subseteq rb.considered
    PROVE  rb' = turned("check", 0, todo, TRUE) => RollInv'
<1>1. ASSUME rb' = turned("check", 0, todo, TRUE) PROVE RollInv'
  <2>1. PICK yes : yes = TRUE
    OBVIOUS
  <2>2. rb' = turned("check", 0, todo, yes)
    BY <1>1, <2>1
  <2>3. /\ IsRun(rb') /\ rb'.pc = "check" /\ rb'.todo = todo /\ rb'.refused = yes
        /\ rb'.considered = rb.considered
    BY <2>2, TurnedIs
  <2>4. Considers(rb', preimages)
    BY <2>3 DEF RollInv, Considers
  <2>5. Progress(rb', preimages, files, disturbed')
    BY <2>1, <2>3 DEF Progress
  <2> QED
    BY <2>3, <2>4, <2>5, RunTurns DEF Running
<1> QED
  BY <1>1

(* The newest of the rows ahead is the latest of its file among them.      *)
LEMMA CheckRolls == ASSUME RollInv, Check PROVE RollInv'
<1>1. PICK i : i = newest_first(rb.todo)
  OBVIOUS
<1>2. UNCHANGED <<preimages, files, writer, disturbed>> /\ rb.pc = "check" /\ rb.todo # {}
  BY DEF Check
<1>3. \/ rb' = turned("restore", i, rb.todo \ {i}, rb.refused)
      \/ rb' = turned("check", 0, rb.todo \ {i}, TRUE)
  BY <1>1 DEF Check
<1>4. Rows(preimages) /\ Considers(rb, preimages)
  BY DEF RollInv
<1>5. i \in rb.todo /\ \A j \in rb.todo : preimages[j].at <= preimages[i].at
  BY <1>1, <1>2, <1>4, NewestIs DEF Considers
<1>6. CASE rb' = turned("check", 0, rb.todo \ {i}, TRUE)
  BY <1>2, <1>4, <1>6, RefusalRolls DEF Considers
<1>7. CASE rb' = turned("restore", i, rb.todo \ {i}, rb.refused)
  <2>1. /\ IsRun(rb') /\ rb'.pc = "restore" /\ rb'.todo = rb.todo \ {i} /\ rb'.refused = rb.refused
        /\ rb'.considered = rb.considered /\ rb'.id = i
    BY <1>7, TurnedIs
  <2>2. Considers(rb', preimages)
    BY <1>4, <1>5, <2>1 DEF Considers
  <2>3. Behind(rb') = Behind(rb)
    BY <1>2, <1>5, <2>1 DEF Behind
  <2>4. Ahead(rb') = Ahead(rb)
    BY <2>1, <2>3 DEF Ahead
  <2>5. ASSUME NEW f \in Files \ disturbed, Ordered(preimages, f), Restores(rb, preimages, f, files[f])
        PROVE  Restores(rb', preimages, f, files[f])
    <3>1. ASSUME NEW j \in rb'.todo, preimages[j].file = f, preimages[rb'.id].file = f PROVE j < rb'.id
      <4>1. i \in DOMAIN preimages /\ j \in DOMAIN preimages /\ j # i /\ preimages[j].at <= preimages[i].at
        BY <1>4, <1>5, <2>1, <3>1 DEF Considers
      <4> QED
        BY <1>4, <2>1, <2>5, <3>1, <4>1, NewerIsLater
    <3> QED
      BY <2>3, <2>4, <2>5, <3>1 DEF Restores
  <2>6. Progress(rb', preimages, files, disturbed')
    <3>1. Progress(rb, preimages, files, disturbed) /\ Running(rb)
      BY <1>2, RollInvIs DEF Running
    <3> QED
      BY <1>2, <2>1, <2>5, <3>1 DEF Progress
  <2> QED
    BY <1>2, <2>1, <2>2, <2>6, RunTurns DEF Running
<1> QED
  BY <1>3, <1>6, <1>7

LEMMA ReportRolls == ASSUME RollInv, Report PROVE RollInv'
<1>1. UNCHANGED <<preimages, files, writer, disturbed>> /\ rb.pc = "check" /\ rb.todo = {}
  BY DEF Report
<1>2. rb' = turned("done", 0, {}, rb.refused)
  BY DEF Report
<1>3. /\ IsRun(rb') /\ rb'.pc = "done" /\ rb'.todo = {} /\ rb'.refused = rb.refused
      /\ rb'.considered = rb.considered
  BY <1>2, TurnedIs
<1>4. Behind(rb') = Behind(rb) /\ Ahead(rb') = Ahead(rb)
  BY <1>1, <1>3 DEF Behind, Ahead
<1>5. Considers(rb', preimages)
  BY <1>3 DEF RollInv, Considers
<1>6. Progress(rb, preimages, files, disturbed) /\ Running(rb)
  BY <1>1, RollInvIs DEF Running
<1>7. Progress(rb', preimages, files, disturbed')
  BY <1>1, <1>3, <1>4, <1>6 DEF Progress, Restores
<1> QED
  BY <1>1, <1>3, <1>5, <1>7, RunTurns DEF Running

LEMMA RestoreRolls == ASSUME RollInv, Restore PROVE RollInv'
<1>1. UNCHANGED <<preimages, writer, disturbed>> /\ rb.pc = "restore"
  BY DEF Restore
<1>2. Rows(preimages) /\ Considers(rb, preimages) /\ files = [f \in Files |-> files[f]]
  BY DEF RollInv
<1>3. rb.id \in rb.considered \ rb.todo /\ rb.todo \subseteq rb.considered /\ rb.id \in DOMAIN preimages
  BY <1>1, <1>2 DEF Considers
<1>4. CASE rb' = turned("check", 0, rb.todo, TRUE) /\ UNCHANGED files
  BY <1>1, <1>3, <1>4, RefusalRolls
<1>5. CASE /\ files' = [files EXCEPT ![preimages[rb.id].file] = preimages[rb.id].prior]
           /\ rb' = turned("mark", rb.id, rb.todo, rb.refused)
  <2>1. /\ IsRun(rb') /\ rb'.pc = "mark" /\ rb'.todo = rb.todo /\ rb'.refused = rb.refused
        /\ rb'.considered = rb.considered /\ rb'.id = rb.id
    BY <1>5, TurnedIs
  <2>2. Considers(rb', preimages)
    BY <1>2, <1>3, <2>1 DEF Considers
  <2>3. preimages[rb.id].file \in Files /\ \A i \in DOMAIN preimages : i \in Nat
    BY <1>2, <1>3 DEF Rows, IsRow
  <2>4. \A f \in Files : files'[f] = IF f = preimages[rb.id].file THEN preimages[rb.id].prior ELSE files[f]
    BY <1>2, <1>5
  <2>5. /\ Behind(rb') = Behind(rb) \cup {rb.id} /\ Ahead(rb') = rb.todo /\ rb.todo \subseteq Ahead(rb)
        /\ rb.id \in Ahead(rb) /\ Behind(rb) \subseteq DOMAIN preimages /\ rb.todo \subseteq DOMAIN preimages
    BY <1>1, <1>2, <1>3, <2>1 DEF Behind, Ahead, Considers
  <2>6. ASSUME NEW f \in Files, Restores(rb, preimages, f, files[f])
        PROVE  Restores(rb', preimages, f, files'[f])
    <3>1. ASSUME NEW i \in Behind(rb'), NEW j \in Ahead(rb'), preimages[i].file = f, preimages[j].file = f
          PROVE  j < i
      BY <1>1, <2>5, <2>6, <3>1 DEF Restores
    <3>2. ASSUME NEW i \in Behind(rb'), preimages[i].file = f,
                 \A j \in Behind(rb') : preimages[j].file = f => i <= j
          PROVE  files'[f] = preimages[i].prior
      <4>1. CASE preimages[rb.id].file = f
        <5>1. i \in Behind(rb) => rb.id < i
          BY <2>5, <2>6, <3>2, <4>1 DEF Restores
        <5>2. i <= rb.id
          BY <2>5, <3>2, <4>1
        <5>3. i = rb.id
          BY <1>3, <2>3, <2>5, <5>1, <5>2
        <5> QED
          BY <2>4, <4>1, <5>3
      <4>2. CASE preimages[rb.id].file # f
        <5>1. i \in Behind(rb) /\ \A j \in Behind(rb) : preimages[j].file = f => i <= j
          BY <2>5, <3>2, <4>2
        <5> QED
          BY <2>4, <2>6, <3>2, <4>2, <5>1 DEF Restores
      <4> QED
        BY <4>1, <4>2
    <3> QED
      BY <2>1, <3>1, <3>2 DEF Restores
  <2>7. Progress(rb', preimages, files', disturbed')
    <3>1. Progress(rb, preimages, files, disturbed) /\ Running(rb)
      BY <1>1, RollInvIs DEF Running
    <3> QED
      BY <1>1, <2>1, <2>6, <3>1 DEF Progress
  <2>8. files' = [f \in Files |-> files'[f]]
    BY <1>2, <1>5
  <2> QED
    BY <1>1, <2>1, <2>2, <2>7, <2>8 DEF RollInv, Progress, Running
<1> QED
  BY <1>4, <1>5 DEF Restore

(* Rows may be added, shifted in time and marked.                          *)
Grows(table, later) ==
    /\ Rows(later) /\ DOMAIN table \subseteq DOMAIN later
    /\ \A i \in DOMAIN table : later[i].file = table[i].file /\ later[i].prior = table[i].prior
    /\ \A i, j \in DOMAIN table : later[i].at < later[j].at => table[i].at < table[j].at
    /\ \A i \in DOMAIN table, j \in DOMAIN later : j < i => j \in DOMAIN table

LEMMA GrowsKeeps ==
    ASSUME NEW table, NEW later, Grows(table, later), NEW r, Considers(r, table),
           NEW content, NEW others, Progress(r, table, content, others)
    PROVE  Considers(r, later) /\ Progress(r, later, content, others)
<1>1. Considers(r, later)
  BY DEF Considers, Grows
<1>2. ASSUME NEW f, Ordered(later, f) PROVE Ordered(table, f)
  BY <1>2 DEF Ordered, Grows
<1>3. Behind(r) \subseteq DOMAIN table /\ Ahead(r) \subseteq DOMAIN table
  BY DEF Behind, Ahead, Considers
<1>4. ASSUME NEW f, NEW c, Restores(r, table, f, c) PROVE Restores(r, later, f, c)
  <2>1. ASSUME NEW i \in Behind(r), NEW j \in Ahead(r), later[i].file = f, later[j].file = f PROVE j < i
    BY <1>3, <1>4, <2>1 DEF Restores, Grows
  <2>2. ASSUME r.pc = "restore", NEW j \in r.todo, later[j].file = f, later[r.id].file = f PROVE j < r.id
    <3>1. j \in DOMAIN table /\ r.id \in DOMAIN table
      BY <2>2 DEF Considers
    <3> QED
      BY <1>4, <2>2, <3>1 DEF Restores, Grows
  <2>3. ASSUME NEW i \in Behind(r), later[i].file = f,
               \A j \in Behind(r) : later[j].file = f => i <= j
        PROVE  c = later[i].prior
    <3>1. table[i].file = f /\ later[i].prior = table[i].prior
      BY <1>3, <2>3 DEF Grows
    <3>2. \A j \in Behind(r) : table[j].file = f => i <= j
      BY <1>3, <2>3 DEF Grows
    <3> QED
      BY <1>4, <3>1, <3>2 DEF Restores
  <2> QED
    BY <2>1, <2>2, <2>3 DEF Restores
<1>5. Progress(r, later, content, others)
  BY <1>2, <1>4 DEF Progress
<1> QED
  BY <1>1, <1>5

LEMMA MarkRolls == ASSUME RollInv, Mark PROVE RollInv'
<1>1. UNCHANGED <<files, writer, disturbed>> /\ rb.pc = "mark"
  BY DEF Mark
<1>2. Rows(preimages) /\ Considers(rb, preimages)
  BY DEF RollInv
<1>3. rb.id \in DOMAIN preimages
  BY <1>1, <1>2 DEF Considers
<1>4. PICK yes : yes = TRUE
  OBVIOUS
<1>5. preimages' = [preimages EXCEPT ![rb.id].restored = yes]
  BY <1>4 DEF Mark
<1>6. Grows(preimages, preimages')
  <2>1. PICK n \in Nat : /\ preimages = [i \in 1..n |-> preimages[i]]
                         /\ \A i \in 1..n : IsRow(preimages[i], n)
    BY <1>2 DEF Rows
  <2> DEFINE row == [preimages[rb.id] EXCEPT !.restored = yes]
  <2>2. IsRow(preimages[rb.id], n)
    BY <1>3, <2>1
  <2>3. IsRow(row, n) /\ row.file = preimages[rb.id].file /\ row.prior = preimages[rb.id].prior
        /\ row.at = preimages[rb.id].at
    BY <2>2 DEF IsRow
  <2>4. preimages' = [i \in 1..n |-> IF i = rb.id THEN row ELSE preimages[i]]
    BY <1>3, <1>5, <2>1
  <2> HIDE DEF row
  <2>5. DOMAIN preimages' = 1..n /\ DOMAIN preimages = 1..n
    BY <2>1, <2>4
  <2>6. /\ preimages' = [i \in 1..n |-> preimages'[i]]
        /\ \A i \in 1..n : preimages'[i] = IF i = rb.id THEN row ELSE preimages[i]
    BY <2>4
  <2>7. Rows(preimages')
    BY <2>1, <2>3, <2>6 DEF Rows
  <2>8. \A i \in 1..n : /\ preimages'[i].file = preimages[i].file
                        /\ preimages'[i].prior = preimages[i].prior
                        /\ preimages'[i].at = preimages[i].at
    BY <2>3, <2>6
  <2> QED
    BY <2>5, <2>7, <2>8 DEF Grows
<1>7. rb' = turned("check", 0, rb.todo, rb.refused)
  BY DEF Mark
<1>8. /\ IsRun(rb') /\ rb'.pc = "check" /\ rb'.todo = rb.todo /\ rb'.refused = rb.refused
      /\ rb'.considered = rb.considered
  BY <1>7, TurnedIs
<1>9. Behind(rb') = Behind(rb) /\ Ahead(rb') = Ahead(rb)
  BY <1>1, <1>8 DEF Behind, Ahead
<1>10. Considers(rb', preimages)
  BY <1>2, <1>8 DEF Considers
<1>11. Progress(rb, preimages, files, disturbed) /\ Running(rb)
  BY <1>1, RollInvIs DEF Running
<1>12. Progress(rb', preimages, files, disturbed)
  BY <1>8, <1>9, <1>11 DEF Progress, Restores
<1>13. Considers(rb', preimages') /\ Progress(rb', preimages', files, disturbed)
  BY <1>6, <1>10, <1>12, GrowsKeeps
<1> QED
  BY <1>1, <1>6, <1>8, <1>13 DEF RollInv, Progress, Grows, Running

(* Inserting a row, of whatever timestamp, leaves the order of the others. *)
LEMMA InsertedGrows ==
    ASSUME Rows(preimages), NEW e, Effect(e), NEW at \in ranks(e.file)
    PROVE  Grows(preimages, inserted(preimages, e, at))
<1>1. PICK n \in Nat : /\ preimages = [i \in 1..n |-> preimages[i]]
                       /\ \A i \in 1..n : IsRow(preimages[i], n)
  BY DEF Rows
<1>2. Len(preimages) = n /\ DOMAIN preimages = 1..n
  BY <1>1, LengthOf
<1>3. \A i \in 1..n : preimages[i].at \in 1..n
  BY <1>1 DEF IsRow
<1>4. at \in 1..(n + 1)
  BY <1>2, <1>3 DEF ranks
<1> DEFINE moved(i) == IF preimages[i].at < at THEN preimages[i]
                       ELSE [preimages[i] EXCEPT !.at = @ + 1]
           shifted == [i \in 1..n |-> moved(i)]
           new == captured(e, at)
           later == inserted(preimages, e, at)
<1>5. ASSUME NEW i \in 1..n
      PROVE  /\ IsRow(moved(i), n + 1)
             /\ moved(i).file = preimages[i].file /\ moved(i).prior = preimages[i].prior
             /\ moved(i).at = IF preimages[i].at < at THEN preimages[i].at ELSE preimages[i].at + 1
  <2>1. IsRow(preimages[i], n) /\ preimages[i].at \in 1..n
    BY <1>1, <1>3
  <2> DEFINE row == [preimages[i] EXCEPT !.at = @ + 1]
  <2>2. /\ row = [file |-> row.file, prior |-> row.prior, preserved |-> row.preserved,
                  post |-> row.post, at |-> row.at, restored |-> row.restored]
        /\ row.file = preimages[i].file /\ row.prior = preimages[i].prior
        /\ row.at = preimages[i].at + 1
    BY <2>1 DEF IsRow
  <2> HIDE DEF row
  <2>3. preimages[i].at + 1 \in 1..(n + 1) /\ preimages[i].at \in 1..(n + 1)
    BY <2>1
  <2>4. IsRow(row, n + 1) /\ IsRow(preimages[i], n + 1)
    BY <2>1, <2>2, <2>3 DEF IsRow
  <2> QED
    BY <2>2, <2>4 DEF row
<1>6. IsRow(new, n + 1)
  <2>1. PICK preserved, restored, prior :
           new = [file |-> e.file, prior |-> prior, preserved |-> preserved, post |-> e.post,
                  at |-> at, restored |-> restored]
    BY DEF captured
  <2> HIDE DEF new
  <2> QED
    BY <1>4, <2>1 DEF IsRow, Effect
<1>7. later = Append(shifted, new)
  BY <1>2 DEF inserted
<1>8. /\ \A i \in 1..n : shifted[i] = moved(i)
      /\ shifted = [i \in 1..n |-> shifted[i]]
  OBVIOUS
<1> HIDE DEF moved, shifted, new, later
<1>9. later = [i \in 1..(n + 1) |-> IF i = n + 1 THEN new ELSE shifted[i]]
  BY <1>7, <1>8, Appended
<1>10. /\ later = [i \in 1..(n + 1) |-> later[i]] /\ DOMAIN later = 1..(n + 1)
       /\ \A i \in 1..n : later[i] = moved(i)
       /\ \A i \in 1..(n + 1) : later[i] = new \/ (i \in 1..n /\ later[i] = moved(i))
  BY <1>8, <1>9
<1>11. ASSUME NEW i \in 1..n
      PROVE  /\ IsRow(later[i], n + 1)
             /\ later[i].file = preimages[i].file /\ later[i].prior = preimages[i].prior
             /\ later[i].at = IF preimages[i].at < at THEN preimages[i].at ELSE preimages[i].at + 1
  <2>1. later[i] = moved(i)
    BY <1>10
  <2> QED
    BY <1>5, <2>1
<1>12. Rows(later)
  <2>1. ASSUME NEW i \in 1..(n + 1) PROVE IsRow(later[i], n + 1)
    <3>1. CASE later[i] = new
      BY <1>6, <3>1
    <3>2. CASE i \in 1..n
      BY <1>11, <3>2
    <3> QED
      BY <1>10, <3>1, <3>2
  <2>2. n + 1 \in Nat
    OBVIOUS
  <2> QED
    BY <1>10, <2>1, <2>2 DEF Rows
<1>13. ASSUME NEW i \in 1..n, NEW j \in 1..n, later[i].at < later[j].at
       PROVE  preimages[i].at < preimages[j].at
  <2> DEFINE a == preimages[i].at
             b == preimages[j].at
  <2>1. a \in Nat /\ b \in Nat /\ at \in Nat
    BY <1>3, <1>4
  <2>2. (IF a < at THEN a ELSE a + 1) < (IF b < at THEN b ELSE b + 1)
    BY <1>13, <1>11
  <2> HIDE DEF a, b
  <2>3. a < b
    BY <2>1, <2>2
  <2> QED
    BY <2>3 DEF a, b
<1>14. \A i \in 1..n, j \in 1..(n + 1) : j < i => j \in 1..n
  OBVIOUS
<1>15. Grows(preimages, later)
  <2>1. DOMAIN preimages = 1..n /\ DOMAIN later = 1..(n + 1) /\ 1..n \subseteq 1..(n + 1)
    BY <1>2, <1>10
  <2> QED
    BY <1>11, <1>12, <1>13, <1>14, <2>1 DEF Grows
<1> QED
  BY <1>15 DEF later

LEMMA WriterWrites ==
    ASSUME RollInv, NEW w \in Writers, NEW k, writer' = [writer EXCEPT ![w] = k], Writes(k)
    PROVE  writer' = [v \in Writers |-> writer'[v]] /\ \A v \in Writers : Writes(writer'[v])
<1>1. writer = [v \in Writers |-> writer[v]] /\ \A v \in Writers : Writes(writer[v])
  BY DEF RollInv
<1>2. writer' = [v \in Writers |-> IF v = w THEN k ELSE writer[v]]
  BY <1>1
<1> QED
  BY <1>1, <1>2

LEMMA DoneWrites == Writes(Done)
  BY DEF Done, Writes

LEMMA AdmitRolls == ASSUME RollInv, NEW w \in Writers, NEW op \in Ops, Admit(w, op) PROVE RollInv'
<1>1. PICK es : es = effects(op)
  OBVIOUS
<1>2. \/ \E e : es = <<e>> /\ Effect(e)
      \/ \E e, d : es = <<e, d>> /\ Effect(e) /\ Effect(d)
  <2>1. op.file \in Files /\ op.to \in Files /\ op.kind \in {"write", "delete", "rename"}
    BY RollbackAssumption
  <2>2. ASSUME NEW f \in Files, NEW post PROVE Effect([file |-> f, post |-> post])
    BY DEF Effect
  <2>3. CASE op.kind = "write"
    <3>1. es = <<[file |-> op.file, post |-> op.content]>>
      BY <1>1, <2>3 DEF effects
    <3> QED
      BY <2>1, <2>2, <3>1
  <2>4. CASE op.kind = "delete"
    <3>1. es = <<[file |-> op.file, post |-> Absent]>>
      BY <1>1, <2>4 DEF effects
    <3> QED
      BY <2>1, <2>2, <3>1
  <2>5. CASE op.kind = "rename"
    <3>1. es = <<[file |-> op.to, post |-> files[op.file]], [file |-> op.file, post |-> Absent]>>
      BY <1>1, <2>5 DEF effects
    <3> QED
      BY <2>1, <2>2, <3>1
  <2> QED
    BY <2>1, <2>3, <2>4, <2>5
<1> DEFINE k == [pc |-> "capture", op |-> op, effects |-> es]
<1>3. Writes(k)
  <2>1. k.pc = "capture" /\ k.op = op /\ k.effects = es
    OBVIOUS
  <2> HIDE DEF k
  <2> QED
    BY <1>2, <2>1 DEF Writes
<1>4. writer' = [writer EXCEPT ![w] = k] /\ UNCHANGED <<files, preimages, rb, disturbed>>
  BY <1>1 DEF Admit
<1> HIDE DEF k
<1>5. writer' = [v \in Writers |-> writer'[v]] /\ \A v \in Writers : Writes(writer'[v])
  BY <1>3, <1>4, WriterWrites
<1> QED
  BY <1>4, <1>5, OthersWrite DEF RollInv

LEMMA CaptureRolls == ASSUME RollInv, NEW w \in Writers, Capture(w) PROVE RollInv'
<1>1. UNCHANGED <<files, rb, disturbed>> /\ Writes(writer[w]) /\ writer[w].pc = "capture"
  BY DEF Capture, RollInv
<1>2. CASE writer' = [writer EXCEPT ![w] = Done] /\ UNCHANGED preimages
  <2>1. writer' = [v \in Writers |-> writer'[v]] /\ \A v \in Writers : Writes(writer'[v])
    BY <1>2, DoneWrites, WriterWrites
  <2> QED
    BY <1>1, <1>2, <2>1, OthersWrite DEF RollInv
<1>3. ASSUME NEW at \in ranks(Head(writer[w].effects).file),
             preimages' = inserted(preimages, Head(writer[w].effects), at),
             writer' = [writer EXCEPT ![w] =
                [pc |-> IF Len(@.effects) = 1 THEN "perform" ELSE "capture", op |-> @.op,
                 effects |-> Tail(@.effects)]]
      PROVE  RollInv'
  <2>1. PICK es, op : es = writer[w].effects /\ op = writer[w].op
    OBVIOUS
  <2>2. /\ \/ \E e : es = <<e>> /\ Effect(e)
           \/ \E e, d : es = <<e, d>> /\ Effect(e) /\ Effect(d)
        /\ op \in Ops
    BY <1>1, <2>1 DEF Writes
  <2>3. Effect(Head(es))
    BY <2>2
  <2>4. Grows(preimages, preimages')
    BY <1>3, <2>1, <2>3, InsertedGrows DEF RollInv
  <2>5. Rows(preimages')
    BY <2>4 DEF Grows
  <2>6. Considers(rb, preimages') /\ Progress(rb, preimages', files, disturbed)
    BY <2>4, GrowsKeeps, RollInvIs
  <2> DEFINE place == IF Len(es) = 1 THEN "perform" ELSE "capture"
             k == [pc |-> place, op |-> op, effects |-> Tail(es)]
  <2>7. writer' = [writer EXCEPT ![w] = k]
    BY <1>3, <2>1 DEF RollInv
  <2>8. Writes(k)
    <3>1. CASE \E e : es = <<e>>
      <4>1. place = "perform"
        BY <3>1
      <4> HIDE DEF place
      <4> QED
        BY <2>2, <4>1 DEF Writes
    <3>2. ASSUME NEW e, NEW d, es = <<e, d>>, Effect(d) PROVE Writes(k)
      <4>1. place = "capture" /\ Tail(es) = <<d>>
        BY <3>2
      <4>2. k.pc = "capture" /\ k.op = op /\ k.effects = <<d>>
        BY <4>1
      <4> HIDE DEF k, place
      <4> QED
        BY <2>2, <3>2, <4>2 DEF Writes
    <3> QED
      BY <2>2, <3>1, <3>2
  <2> HIDE DEF k
  <2>9. writer' = [v \in Writers |-> writer'[v]] /\ \A v \in Writers : Writes(writer'[v])
    BY <2>7, <2>8, WriterWrites
  <2> QED
    BY <1>1, <2>5, <2>6, <2>9 DEF RollInv, Progress
<1> QED
  BY <1>2, <1>3 DEF Capture

(* The change itself touches no other file.                                *)
LEMMA EffectsTouch ==
    ASSUME NEW op \in Ops
    PROVE  \A i \in DOMAIN effects(op) : effects(op)[i].file \in touched(op)
<1>1. op.kind \in {"write", "delete", "rename"}
  BY RollbackAssumption
<1>2. CASE op.kind = "write"
  <2>1. effects(op) = <<[file |-> op.file, post |-> op.content]>>
    BY <1>2 DEF effects
  <2>2. touched(op) = {op.file}
    BY <1>2 DEF touched
  <2> QED
    BY <2>1, <2>2
<1>3. CASE op.kind = "delete"
  <2>1. effects(op) = <<[file |-> op.file, post |-> Absent]>>
    BY <1>3 DEF effects
  <2>2. touched(op) = {op.file}
    BY <1>3 DEF touched
  <2> QED
    BY <2>1, <2>2
<1>4. CASE op.kind = "rename"
  <2>1. effects(op) = <<[file |-> op.to, post |-> files[op.file]], [file |-> op.file, post |-> Absent]>>
    BY <1>4 DEF effects
  <2>2. touched(op) = {op.file, op.to}
    BY <1>4 DEF touched
  <2> QED
    BY <2>1, <2>2
<1> QED
  BY <1>1, <1>2, <1>3, <1>4

LEMMA PerformRolls == ASSUME RollInv, NEW w \in Writers, Perform(w) PROVE RollInv'
<1>1. UNCHANGED <<preimages, rb>> /\ writer' = [writer EXCEPT ![w] = Done] /\ writer[w].op \in Ops
  BY DEF Perform, RollInv, Writes
<1>2. writer' = [v \in Writers |-> writer'[v]] /\ \A v \in Writers : Writes(writer'[v])
  BY <1>1, DoneWrites, WriterWrites
<1>3. CASE UNCHANGED <<files, disturbed>>
  BY <1>1, <1>2, <1>3, OthersWrite DEF RollInv
<1>4. CASE ~UNCHANGED <<files, disturbed>>
  <2>1. PICK op, es : op = writer[w].op /\ es = effects(op)
    OBVIOUS
  <2>2. /\ files' = [f \in Files |-> IF \E i \in DOMAIN es : es[i].file = f
                                     THEN es[CHOOSE i \in DOMAIN es : es[i].file = f].post
                                     ELSE files[f]]
        /\ disturbing(touched(op))
    BY <1>4, <2>1 DEF Perform
  <2>3. \A i \in DOMAIN es : es[i].file \in touched(op)
    BY <1>1, <2>1, EffectsTouch
  <2>4. /\ files' = [f \in Files |-> files'[f]]
        /\ \A f \in Files \ touched(op) : files'[f] = files[f]
    BY <2>2, <2>3
  <2>5. rb.pc = "idle" \/ disturbed' = disturbed \cup touched(op)
    BY <2>2 DEF disturbing
  <2> QED
    BY <1>1, <1>2, <2>4, <2>5, OthersWrite
<1> QED
  BY <1>3, <1>4

LEMMA ForeignRolls == ASSUME RollInv, NEW f \in Files, Foreign(f) PROVE RollInv'
<1>1. UNCHANGED <<preimages, rb, writer>> /\ disturbing({f})
  BY DEF Foreign
<1>2. PICK c : files' = [files EXCEPT ![f] = c]
  BY DEF Foreign
<1>3. files' = [g \in Files |-> files'[g]] /\ \A g \in Files \ {f} : files'[g] = files[g]
  BY <1>2 DEF RollInv
<1>4. rb.pc = "idle" \/ disturbed' = disturbed \cup {f}
  BY <1>1 DEF disturbing
<1> QED
  BY <1>1, <1>3, <1>4, OthersWrite DEF RollInv

LEMMA RollKept == RollInv /\ [Next]_vars => RollInv'
<1> SUFFICES ASSUME RollInv, [Next]_vars PROVE RollInv'
  OBVIOUS
<1>1. CASE UNCHANGED fileVars
  BY <1>1 DEF fileVars, RollInv
<1>2. CASE Next /\ ~UNCHANGED fileVars
  BY <1>2, AdmitRolls, CaptureRolls, PerformRolls, ForeignRolls, BeginRolls, CheckRolls,
     RestoreRolls, MarkRolls, ReportRolls, AbortRolls DEF Next
<1> QED
  BY <1>1, <1>2 DEF vars

LEMMA RollInitially == Init => RollInv
<1> SUFFICES ASSUME Init PROVE RollInv
  OBVIOUS
<1>1. preimages = <<>> /\ writer = [w \in Writers |-> Ready] /\ rb = NoRun
  BY DEF Init
<1>2. Rows(preimages)
  <2>1. preimages = [i \in 1..0 |-> preimages[i]]
    BY <1>1
  <2>2. 0 \in Nat /\ \A i \in 1..0 : IsRow(preimages[i], 0)
    OBVIOUS
  <2> QED
    BY <2>1, <2>2 DEF Rows
<1>3. files = [f \in Files |-> files[f]]
  BY RollbackAssumption DEF Init
<1>4. Writes(Ready)
  BY DEF Ready, Writes
<1>5. IsRun(NoRun) /\ NoRun.pc = "idle" /\ NoRun.todo = {} /\ NoRun.considered = {}
  BY DEF NoRun, IsRun
<1>6. Considers(NoRun, preimages) /\ ~Running(NoRun)
  BY <1>5 DEF Considers, Running
<1> QED
  BY <1>1, <1>2, <1>3, <1>4, <1>5, <1>6 DEF RollInv

(* A rollback that refused nothing has put back what each file held before *)
(* the first brokered change (rollback.rs rollback_session), whatever      *)
(* failed, was interrupted or was changed by others before it began,       *)
(* unless others changed the file since or the timestamps of its records   *)
(* are out of order.                                                       *)
THEOREM CompleteRollbacksRestore == Spec => []CompleteMeansOriginal
<1>1. RollInv => CompleteMeansOriginal
  <2> SUFFICES ASSUME RollInv, rb.pc = "done", ~rb.refused, NEW k \in rb.considered,
                      preimages[k].file \notin disturbed, inOrder(preimages[k].file)
               PROVE  files[preimages[k].file] = preimages[first(preimages[k].file)].prior
    BY DEF CompleteMeansOriginal
  <2>1. PICK f : f = preimages[k].file
    OBVIOUS
  <2>2. PICK n \in Nat : /\ preimages = [i \in 1..n |-> preimages[i]]
                         /\ \A i \in 1..n : IsRow(preimages[i], n)
    BY DEF RollInv, Rows
  <2>3. Considers(rb, preimages) /\ DOMAIN preimages = 1..n /\ k \in 1..n /\ f \in Files
    BY <2>1, <2>2 DEF RollInv, Considers, IsRow
  <2>4. Restores(rb, preimages, f, files[f])
    <3>1. Ordered(preimages, f)
      BY <2>1 DEF inOrder, Ordered
    <3> QED
      BY <2>1, <2>3, <3>1 DEF RollInv, Running
  <2> DEFINE T == {i \in 1..n : preimages[i].file = f}
  <2>5. PICK m \in T : \A j \in T : m <= j
    <3>1. T \subseteq Nat /\ T # {}
      BY <2>1, <2>3
    <3> HIDE DEF T
    <3> QED
      BY <3>1, LeastNatural
  <2>6. m \in 1..n /\ preimages[m].file = f /\ \A j \in 1..(m - 1) : preimages[j].file # f
    BY <2>5
  <2>7. /\ first(f) \in 1..n /\ preimages[first(f)].file = f
        /\ \A j \in 1..(first(f) - 1) : preimages[j].file # f
    BY <2>3, <2>6 DEF first
  <2>8. first(f) = m
    <3>1. first(f) \in T /\ ~(m < first(f))
      BY <2>6, <2>7
    <3> QED
      BY <2>5, <2>7, <3>1
  <2>9. m \in rb.considered
    <3>1. m <= k
      BY <2>1, <2>3, <2>5
    <3>2. m = k \/ m < k
      BY <2>3, <2>6, <3>1
    <3> QED
      BY <2>1, <2>3, <2>6, <3>2 DEF Considers
  <2>10. Behind(rb) = rb.considered /\ rb.considered \subseteq 1..n
    BY <2>3 DEF Behind, Considers
  <2>11. \A j \in Behind(rb) : preimages[j].file = f => m <= j
    BY <2>5, <2>10
  <2>12. files[f] = preimages[m].prior
    BY <2>4, <2>6, <2>9, <2>10, <2>11 DEF Restores
  <2> QED
    BY <2>1, <2>8, <2>12
<1> QED
  BY <1>1, RollInitially, RollKept, PTL DEF Spec

-----------------------------------------------------------------------------
(* EndpointSecurity: generations.                                          *)

Codes == {"pending", "client_invalidated", "too_many_outstanding", "connection_invalidated",
          "deadline_exceeded_outcome_unknown", "lost", "ok", "stale_generation",
          "internal_failure", "policy_rejected", "not_ready", "attribution_conflict"}

Bodies == [op : {"install_policy", "bind_root"}, envelope : Envelopes \cup {NoPolicy},
           token : Tokens \cup {None}, session : Sessions \cup {None},
           generation : Generations \cup {0}]

Asked == [body : Bodies, outcome : Codes]

(* The request asks for the envelope e to be installed.                    *)
Installs(request, e) == request.body.op = "install_policy" /\ request.body.envelope = e

Numbers ==
    /\ generation \in Int /\ disk \in Int /\ durable \in Int /\ durable <= disk
    /\ activated \in [Generations -> Nat]
    /\ \A g \in Generations : activated[g] <= 1 /\ (activated[g] = 1 => g <= durable)

(* A directory that is being synced holds a rename nobody has seen fail.   *)
Renamed ==
    installing # NoInstall =>
        /\ installing.id \in DOMAIN requests /\ installing.envelope \in Envelopes
        /\ Installs(requests[installing.id], installing.envelope)
        /\ disk = installing.envelope.generation /\ durable < disk

(* Whoever was told, or is being told, that an install succeeded.          *)
Told ==
    /\ requests \in Seq(Asked)
    /\ wire \in Seq(Nat) /\ \A k \in DOMAIN wire : wire[k] \in DOMAIN requests
    /\ \A r \in replies :
          /\ r.id \in DOMAIN requests /\ r.code \in Codes
          /\ \A e \in Envelopes : Installs(requests[r.id], e) /\ r.code = "ok" => e.generation <= durable
    /\ \A i \in DOMAIN requests :
          \A e \in Envelopes :
             Installs(requests[i], e) /\ requests[i].outcome = "ok" => e.generation <= durable

(* An install asks for an envelope.                                        *)
Asking == \A i \in DOMAIN requests :
              requests[i].body.op = "install_policy" => requests[i].body.envelope \in Envelopes

SpentInv == Numbers /\ Renamed /\ Told /\ Asking

LEMMA EnvelopesAreTyped ==
    ASSUME NEW e \in Envelopes
    PROVE  /\ e.generation \in Int /\ e.issued \in Int /\ e.expires \in Int
           /\ e.signed \in BOOLEAN /\ e.schema \in BOOLEAN /\ e.instance \in BOOLEAN
           /\ e.normal \in BOOLEAN /\ e.sessions \subseteq Sessions
           /\ e.copies \in Nat /\ e.roots \in Nat /\ e.executables \in Nat /\ e.prefixes \in Nat
           /\ e.generation \in Generations
BY EndpointAssumption DEF Generations

LEMMA SpentInit == EndpointInit => SpentInv
<1> SUFFICES ASSUME EndpointInit PROVE SpentInv
    OBVIOUS
<1> USE DEF EndpointInit
<1>1. Numbers
  BY DEF Numbers
<1>2. Renamed
  BY DEF Renamed
<1>3. Told
  BY DEF Told
<1>4. Asking
  BY DEF Asking
<1> QED
  BY <1>1, <1>2, <1>3, <1>4 DEF SpentInv

(* Steps that touch neither the store nor the requests.                    *)
LEMMA SpentUntouched ==
    ASSUME SpentInv, UNCHANGED <<generation, disk, durable, installing, activated, requests>>,
           wire' = wire \/ wire' = <<>>,
           replies' \subseteq replies
    PROVE  SpentInv'
<1>1. Numbers'
  BY DEF SpentInv, Numbers
<1>2. Renamed'
  BY DEF SpentInv, Renamed, Installs
<1>3. Told'
  <2>1. wire' \in Seq(Nat) /\ \A k \in DOMAIN wire' : wire'[k] \in DOMAIN requests'
    <3>1. CASE wire' = wire
      BY <3>1 DEF SpentInv, Told
    <3>2. CASE wire' = <<>>
      BY <3>2
    <3> QED
      BY <3>1, <3>2
  <2>2. requests' \in Seq(Asked)
    BY DEF SpentInv, Told
  <2>3. \A r \in replies' :
          /\ r.id \in DOMAIN requests' /\ r.code \in Codes
          /\ \A e \in Envelopes : Installs(requests'[r.id], e) /\ r.code = "ok" => e.generation <= durable'
    BY DEF SpentInv, Told
  <2>4. \A i \in DOMAIN requests' :
          \A e \in Envelopes :
             Installs(requests'[i], e) /\ requests'[i].outcome = "ok" => e.generation <= durable'
    BY DEF SpentInv, Told
  <2> QED
    BY <2>1, <2>2, <2>3, <2>4 DEF Told, Installs
<1>4. Asking'
  BY DEF SpentInv, Asking
<1> QED
  BY <1>1, <1>2, <1>3, <1>4 DEF SpentInv

(* Outcomes are reported to requests that were pending, none of them as a  *)
(* success of an install that is not durable.                              *)
LEMMA SpentReported ==
    ASSUME SpentInv, UNCHANGED <<generation, disk, durable, installing, activated>>,
           wire' = wire \/ wire' = <<>>,
           replies' \subseteq replies,
           requests' \in Seq(Asked), DOMAIN requests' = DOMAIN requests,
           \A i \in DOMAIN requests :
              /\ requests'[i].body = requests[i].body
              /\ \/ requests'[i].outcome = requests[i].outcome
                 \/ requests'[i].outcome # "ok"
                 \/ \E r \in replies : r.id = i /\ r.code = "ok"
    PROVE  SpentInv'
<1> DEFINE before == requests
           after == requests'
<1>0. \A i \in DOMAIN requests, e \in Envelopes : Installs(after[i], e) <=> Installs(before[i], e)
  BY DEF Installs
<1>1. Numbers'
  BY DEF SpentInv, Numbers
<1>2. Renamed'
  BY DEF SpentInv, Renamed, Installs
<1>3. Told'
  <2>1. wire' \in Seq(Nat) /\ \A k \in DOMAIN wire' : wire'[k] \in DOMAIN requests'
    <3>1. CASE wire' = wire
      BY <3>1 DEF SpentInv, Told
    <3>2. CASE wire' = <<>>
      BY <3>2
    <3> QED
      BY <3>1, <3>2
  <2>3. \A r \in replies' :
          /\ r.id \in DOMAIN requests' /\ r.code \in Codes
          /\ \A e \in Envelopes : Installs(requests'[r.id], e) /\ r.code = "ok" => e.generation <= durable'
    BY <1>0 DEF SpentInv, Told
  <2>4. \A i \in DOMAIN requests' :
          \A e \in Envelopes :
             Installs(requests'[i], e) /\ requests'[i].outcome = "ok" => e.generation <= durable'
    BY <1>0 DEF SpentInv, Told
  <2> QED
    BY <2>1, <2>3, <2>4 DEF Told, Installs
<1>4. Asking'
  BY DEF SpentInv, Asking
<1> QED
  BY <1>1, <1>2, <1>3, <1>4 DEF SpentInv

(* Reporting one outcome to whoever is pending.                            *)
LEMMA InvalidatedRequests ==
    ASSUME SpentInv, NEW primary, NEW error \in Codes, error # "ok",
           requests' = invalidateAll(primary, error)
    PROVE  /\ requests' \in Seq(Asked) /\ DOMAIN requests' = DOMAIN requests
           /\ \A i \in DOMAIN requests :
              /\ requests'[i].body = requests[i].body
              /\ requests'[i].outcome = requests[i].outcome \/ requests'[i].outcome # "ok"
<1> DEFINE told(i) == IF i = primary THEN error ELSE "connection_invalidated"
<1>1. requests \in Seq(Asked)
  BY DEF SpentInv, Told
<1>2. \A i : told(i) \in Codes /\ told(i) # "ok"
  BY DEF Codes
<1>3. \A i \in DOMAIN requests : requests[i] \in Asked
  BY <1>1
<1>4. requests' = [i \in DOMAIN requests |-> IF i \notin Pending THEN requests[i]
                                             ELSE [requests[i] EXCEPT !.outcome = told(i)]]
  BY DEF invalidateAll
<1> HIDE DEF told
<1>5. \A i \in DOMAIN requests :
          /\ requests'[i] \in Asked
          /\ requests'[i].body = requests[i].body
          /\ requests'[i].outcome = requests[i].outcome \/ requests'[i].outcome # "ok"
  BY <1>2, <1>3, <1>4 DEF Asked
<1>6. requests' \in Seq(Asked) /\ DOMAIN requests' = DOMAIN requests
  <2>1. DOMAIN requests' = DOMAIN requests
    BY <1>4
  <2>2. DOMAIN requests = 1..Len(requests) /\ Len(requests) \in Nat
    BY <1>1
  <2>3. requests' = [i \in 1..Len(requests) |-> requests'[i]]
    BY <1>4, <2>1, <2>2
  <2>4. requests' \in [1..Len(requests) -> Asked]
    BY <1>5, <2>2, <2>3
  <2> QED
    BY <2>1, <2>2, <2>4
<1> QED
  BY <1>5, <1>6

LEMMA TailShifts ==
    ASSUME NEW S, NEW q \in Seq(S), q # <<>>
    PROVE  /\ Tail(q) \in Seq(S) /\ Head(q) \in S /\ Head(q) = q[1] /\ 1 \in DOMAIN q
           /\ \A k \in DOMAIN Tail(q) : k + 1 \in DOMAIN q /\ k # 0 /\ Tail(q)[k] = q[k + 1]
<1>1. Len(q) \in Nat \ {0} /\ DOMAIN q = 1..Len(q)
  OBVIOUS
<1>2. Tail(q) \in Seq(S) /\ Len(Tail(q)) = Len(q) - 1
  OBVIOUS
<1>3. DOMAIN Tail(q) = 1..(Len(q) - 1)
  BY <1>1, <1>2
<1>4. \A k \in 1..(Len(q) - 1) : k + 1 \in 1..Len(q) /\ k # 0
  BY <1>1
<1>5. \A k \in 1..(Len(q) - 1) : Tail(q)[k] = q[k + 1]
  BY <1>1, <1>2, <1>3
<1>6. Head(q) = q[1] /\ 1 \in DOMAIN q
  BY <1>1
<1>7. Head(q) \in S
  BY <1>6
<1> QED
  BY <1>1, <1>2, <1>3, <1>4, <1>5, <1>6, <1>7

(* One more reply, which tells of a success only when it is durable.       *)
LEMMA ToldAnswered ==
    ASSUME SpentInv, requests' = requests, durable' \in Int, durable <= durable',
           wire' = wire \/ (wire # <<>> /\ wire' = Tail(wire)),
           NEW id \in DOMAIN requests, NEW code \in Codes,
           replies' \subseteq replies \cup {[id |-> id, code |-> code]},
           \A e \in Envelopes : Installs(requests[id], e) /\ code = "ok" => e.generation <= durable'
    PROVE  Told' /\ Asking'
<1>0. durable \in Int /\ \A e \in Envelopes : e.generation \in Int
  BY EnvelopesAreTyped DEF SpentInv, Numbers
<1>1. wire' \in Seq(Nat) /\ \A k \in DOMAIN wire' : wire'[k] \in DOMAIN requests'
  <2>0. wire \in Seq(Nat) /\ \A k \in DOMAIN wire : wire[k] \in DOMAIN requests
    BY DEF SpentInv, Told
  <2>1. CASE wire' = wire
    BY <2>0, <2>1
  <2>2. CASE wire # <<>> /\ wire' = Tail(wire)
    BY <2>0, <2>2, TailShifts
  <2> QED
    BY <2>1, <2>2
<1>2. \A r \in replies' :
        /\ r.id \in DOMAIN requests' /\ r.code \in Codes
        /\ \A e \in Envelopes : Installs(requests'[r.id], e) /\ r.code = "ok" => e.generation <= durable'
  <2> SUFFICES ASSUME NEW r \in replies'
               PROVE  /\ r.id \in DOMAIN requests' /\ r.code \in Codes
                      /\ \A e \in Envelopes : Installs(requests'[r.id], e) /\ r.code = "ok"
                                              => e.generation <= durable'
    OBVIOUS
  <2>1. CASE r \in replies
    BY <1>0, <2>1 DEF SpentInv, Told
  <2>2. CASE r = [id |-> id, code |-> code]
    <3>1. r.id = id /\ r.code = code
      BY <2>2
    <3> QED
      BY <3>1
  <2> QED
    BY <2>1, <2>2
<1>3. \A i \in DOMAIN requests' :
        \A e \in Envelopes :
           Installs(requests'[i], e) /\ requests'[i].outcome = "ok" => e.generation <= durable'
  BY <1>0 DEF SpentInv, Told
<1>4. requests' \in Seq(Asked)
  BY DEF SpentInv, Told
<1>5. Told'
  BY <1>1, <1>2, <1>3, <1>4 DEF Told, Installs
<1> QED
  BY <1>5 DEF SpentInv, Asking

(* A new request, with whatever its caller is told at once.                *)
LEMMA SpentSent ==
    ASSUME SpentInv, NEW body \in Bodies,
           body.op = "install_policy" => body.envelope \in Envelopes,
           ClientSend(body)
    PROVE  SpentInv'
<1> DEFINE outcome == IF invalidated THEN "client_invalidated"
                      ELSE IF Cardinality(Pending) >= MaxOutstanding THEN "too_many_outstanding"
                      ELSE "pending"
<1>1. outcome \in Codes /\ outcome # "ok"
  BY DEF Codes
<1>2. /\ requests' = Append(requests, [body |-> body, outcome |-> outcome])
      /\ wire' = (IF outcome = "pending" THEN Append(wire, Len(requests) + 1) ELSE wire)
      /\ UNCHANGED <<generation, disk, durable, installing, activated, replies>>
  BY DEF ClientSend, store, ghosts
<1> HIDE DEF outcome
<1>3. requests \in Seq(Asked)
  BY DEF SpentInv, Told
<1> DEFINE r == [body |-> body, outcome |-> outcome]
           n == Len(requests)
<1>4. r \in Asked /\ r.body = body /\ r.outcome = outcome
  BY <1>1 DEF Asked
<1> HIDE DEF r
<1>5. requests' = Append(requests, r)
  BY <1>2 DEF r
<1>6. /\ requests' \in Seq(Asked) /\ n \in Nat
      /\ DOMAIN requests = 1..n /\ DOMAIN requests' = 1..(n + 1)
      /\ \A i \in 1..n : requests'[i] = requests[i]
      /\ requests'[n + 1] = r
  BY <1>3, <1>4, <1>5
<1> HIDE DEF n
<1>7. \A i \in DOMAIN requests' : (i \in DOMAIN requests /\ requests'[i] = requests[i]) \/ i = n + 1
  BY <1>6
<1>8. DOMAIN requests \subseteq DOMAIN requests'
  BY <1>6
<1>11. Numbers'
  BY <1>2 DEF SpentInv, Numbers
<1>12. Renamed'
  BY <1>2, <1>6, <1>8 DEF SpentInv, Renamed, Installs
<1>13. Told'
  <2>1. wire' \in Seq(Nat) /\ \A k \in DOMAIN wire' : wire'[k] \in DOMAIN requests'
    <3>0. wire \in Seq(Nat) /\ \A k \in DOMAIN wire : wire[k] \in DOMAIN requests
      BY DEF SpentInv, Told
    <3>1. CASE wire' = wire
      BY <3>0, <3>1, <1>8
    <3>2. CASE wire' = Append(wire, n + 1)
      <4>1. /\ wire' \in Seq(Nat) /\ Len(wire) \in Nat
            /\ DOMAIN wire' = 1..(Len(wire) + 1) /\ DOMAIN wire = 1..Len(wire)
            /\ \A k \in 1..Len(wire) : wire'[k] = wire[k]
            /\ wire'[Len(wire) + 1] = n + 1
        BY <3>0, <3>2, <1>6
      <4>2. n + 1 \in DOMAIN requests'
        BY <1>6
      <4>3. \A k \in DOMAIN wire' : k \in DOMAIN wire \/ k = Len(wire) + 1
        BY <4>1
      <4> QED
        BY <3>0, <4>1, <4>2, <4>3, <1>8
    <3> QED
      BY <1>2, <3>1, <3>2 DEF n
  <2>2. \A x \in replies' :
          /\ x.id \in DOMAIN requests' /\ x.code \in Codes
          /\ \A e \in Envelopes : Installs(requests'[x.id], e) /\ x.code = "ok" => e.generation <= durable'
    <3> SUFFICES ASSUME NEW x \in replies
                 PROVE  /\ x.id \in DOMAIN requests' /\ x.code \in Codes
                        /\ \A e \in Envelopes : Installs(requests'[x.id], e) /\ x.code = "ok"
                                                => e.generation <= durable'
      BY <1>2
    <3>1. x.id \in DOMAIN requests /\ requests'[x.id] = requests[x.id]
      BY <1>6 DEF SpentInv, Told
    <3> QED
      BY <3>1, <1>2, <1>8 DEF SpentInv, Told
  <2>3. \A i \in DOMAIN requests' :
          \A e \in Envelopes :
             Installs(requests'[i], e) /\ requests'[i].outcome = "ok" => e.generation <= durable'
    BY <1>1, <1>2, <1>4, <1>6, <1>7 DEF SpentInv, Told
  <2> QED
    BY <1>6, <2>1, <2>2, <2>3 DEF Told, Installs
<1>14. Asking'
  BY <1>4, <1>6, <1>7 DEF SpentInv, Asking
<1> QED
  BY <1>11, <1>12, <1>13, <1>14 DEF SpentInv

LEMMA InstallBodies ==
    ASSUME NEW e \in Envelopes,
           NEW b, b = [Body("install_policy") EXCEPT !.envelope = e]
    PROVE  b \in Bodies /\ b.op = "install_policy" /\ b.envelope = e
BY DEF Bodies, Body

BindBody(t, s, g) == [Body("bind_root") EXCEPT !.token = t, !.session = s, !.generation = g]

LEMMA BindBodies ==
    ASSUME NEW t \in Tokens, NEW s \in Sessions, NEW g \in Generations
    PROVE  LET b == BindBody(t, s, g)
           IN  b \in Bodies /\ b.op = "bind_root" /\ b.token = t /\ b.session = s
BY DEF Bodies, Body, BindBody

(* A generation that was renamed into place and synced is activated for    *)
(* the first time.                                                         *)
LEMMA SpentSync ==
    ASSUME SpentInv, NEW synced \in BOOLEAN, SyncDirectory(synced)
    PROVE  SpentInv'
<1> DEFINE e == installing.envelope
           g == e.generation
           id == installing.id
<1>1. /\ installing # NoInstall /\ installing' = NoInstall
      /\ UNCHANGED <<generation, disk, wire, requests>>
  BY DEF SyncDirectory
<1>2. /\ id \in DOMAIN requests /\ e \in Envelopes /\ Installs(requests[id], e)
      /\ disk = g /\ durable < disk
  BY <1>1 DEF SpentInv, Renamed
<1>3. g \in Int /\ g \in Generations
  BY <1>2, EnvelopesAreTyped
<1>4. Renamed'
  BY <1>1 DEF Renamed
<1>5. \A x \in Envelopes : Installs(requests[id], x) => x = e
  BY <1>2 DEF Installs
<1>6. CASE synced
  <2>1. durable' = disk /\ activated' = [activated EXCEPT ![g] = @ + 1] /\ reply(id, "ok")
    BY <1>6 DEF SyncDirectory
  <2>2. durable' \in Int /\ durable <= durable' /\ durable' = g
    BY <2>1, <1>2, <1>3 DEF SpentInv, Numbers
  <2>3. activated[g] = 0
    BY <1>2, <1>3 DEF SpentInv, Numbers
  <2>4. Numbers'
    <3> HIDE DEF g
    <3>1. /\ activated \in [Generations -> Nat] /\ durable \in Int /\ generation \in Int
          /\ \A x \in Generations : activated[x] <= 1 /\ (activated[x] = 1 => x <= durable)
          /\ \A x \in Generations : x \in Int
      BY EnvelopesAreTyped DEF SpentInv, Numbers, Generations
    <3>2. activated' \in [Generations -> Nat]
      BY <2>1, <1>3, <3>1, <2>3
    <3>3. \A x \in Generations : activated'[x] <= 1 /\ (activated'[x] = 1 => x <= durable')
      BY <2>1, <2>2, <2>3, <3>1, <1>3
    <3> QED
      BY <1>1, <1>2, <2>2, <3>1, <3>2, <3>3 DEF Numbers
  <2>5. replies' \subseteq replies \cup {[id |-> id, code |-> "ok"]}
    BY <2>1 DEF reply
  <2>6. Told' /\ Asking'
    <3>1. "ok" \in Codes /\ \A x \in Envelopes : Installs(requests[id], x) => x.generation <= durable'
      BY <1>5, <2>2, <1>3 DEF Codes
    <3> HIDE DEF id
    <3> QED
      BY <1>1, <1>2, <2>2, <2>5, <3>1, ToldAnswered
  <2> QED
    BY <1>4, <2>4, <2>6 DEF SpentInv
<1>7. CASE ~synced
  <2>1. UNCHANGED <<durable, activated>> /\ reply(id, "internal_failure")
    BY <1>7 DEF SyncDirectory
  <2>2. Numbers'
    BY <1>1, <2>1 DEF SpentInv, Numbers
  <2>3. replies' \subseteq replies \cup {[id |-> id, code |-> "internal_failure"]}
    BY <2>1 DEF reply
  <2>4. durable' \in Int /\ durable <= durable' /\ "internal_failure" \in Codes
    BY <2>1 DEF SpentInv, Numbers, Codes
  <2>5. Told' /\ Asking'
    <3> HIDE DEF id
    <3> QED
      BY <1>1, <1>2, <2>3, <2>4, ToldAnswered
  <2> QED
    BY <1>4, <2>2, <2>5 DEF SpentInv
<1> QED
  BY <1>6, <1>7

(* A request is served: an install up to the rename, or a bind.             *)
LEMMA SpentServed ==
    ASSUME SpentInv, NEW clock, Serve(clock)
    PROVE  SpentInv'
<1> DEFINE id == Head(wire)
           b == requests[id].body
<1>1. /\ wire # <<>> /\ installing = NoInstall /\ wire' = Tail(wire) /\ requests' = requests
      /\ \/ b.op = "install_policy" /\ ServeInstall(id, b.envelope, clock)
         \/ b.op = "bind_root" /\ ServeBind(id, b, clock)
  BY DEF Serve
<1>2. id \in DOMAIN requests
  BY <1>1, TailShifts DEF SpentInv, Told
<1>3. /\ generation \in Int /\ disk \in Int /\ durable \in Int /\ durable <= disk
      /\ "stale_generation" \in Codes /\ "internal_failure" \in Codes /\ "policy_rejected" \in Codes
  BY DEF SpentInv, Numbers, Codes
<1>4. ASSUME NEW code \in Codes, replies' \subseteq replies \cup {[id |-> id, code |-> code]},
             b.op = "bind_root" \/ code # "ok", durable' = durable
      PROVE  Told' /\ Asking'
  <2>1. \A e \in Envelopes : ~(Installs(requests[id], e) /\ code = "ok")
    BY <1>4 DEF Installs
  <2>2. durable' \in Int /\ durable <= durable'
    BY <1>3, <1>4
  <2> HIDE DEF id
  <2> QED
    BY <1>1, <1>2, <1>4, <2>1, <2>2, ToldAnswered
<1>5. CASE b.op = "install_policy" /\ ServeInstall(id, b.envelope, clock)
  <2> DEFINE e == b.envelope
             g == e.generation
             seen == Larger(generation, disk)
  <2>1. durable' = durable /\ activated' = activated
    BY <1>5 DEF ServeInstall, ghosts
  <2>2. e \in Envelopes /\ Installs(requests[id], e)
    BY <1>2, <1>5 DEF SpentInv, Asking, Installs
  <2>3. g \in Int /\ seen \in Int /\ disk <= seen
    BY <2>2, <1>3, EnvelopesAreTyped DEF Larger
  <2>4. CASE UNCHANGED <<generation, disk, installing>>
             /\ (reply(id, "policy_rejected") \/ reply(id, "stale_generation"))
    <3>1. Numbers' /\ Renamed'
      BY <1>1, <2>1, <2>4 DEF SpentInv, Numbers, Renamed
    <3>2. CASE reply(id, "policy_rejected")
      <4>1. replies' \subseteq replies \cup {[id |-> id, code |-> "policy_rejected"]}
        BY <3>2 DEF reply
      <4> QED
        BY <3>1, <4>1, <1>3, <1>4, <2>1 DEF SpentInv
    <3>3. CASE reply(id, "stale_generation")
      <4>1. replies' \subseteq replies \cup {[id |-> id, code |-> "stale_generation"]}
        BY <3>3 DEF reply
      <4> QED
        BY <3>1, <4>1, <1>3, <1>4, <2>1 DEF SpentInv
    <3> QED
      BY <2>4, <3>2, <3>3
  <2>5. CASE commit(id, e)
    <3>1. CASE g <= generation /\ reply(id, "stale_generation") /\ UNCHANGED <<generation, disk, installing>>
      BY <2>4, <3>1
    <3>2. CASE generation' = seen /\ UNCHANGED <<disk, installing>>
               /\ (reply(id, "stale_generation") \/ reply(id, "internal_failure"))
      <4>1. Numbers' /\ Renamed'
        BY <1>1, <2>1, <2>3, <3>2 DEF SpentInv, Numbers, Renamed
      <4>2. CASE reply(id, "internal_failure")
        <5>1. replies' \subseteq replies \cup {[id |-> id, code |-> "internal_failure"]}
          BY <4>2 DEF reply
        <5> QED
          BY <4>1, <5>1, <1>3, <1>4, <2>1 DEF SpentInv
      <4>3. CASE reply(id, "stale_generation")
        <5>1. replies' \subseteq replies \cup {[id |-> id, code |-> "stale_generation"]}
          BY <4>3 DEF reply
        <5> QED
          BY <4>1, <5>1, <1>3, <1>4, <2>1 DEF SpentInv
      <4> QED
        BY <3>2, <4>2, <4>3
    <3>3. CASE /\ g > seen /\ generation' = g /\ disk' = g
               /\ installing' = [id |-> id, envelope |-> e] /\ replies' = replies
      <4>1. durable < g
        BY <3>3, <2>3, <1>3
      <4>2. Numbers'
        BY <2>1, <2>3, <3>3, <4>1, <1>3 DEF SpentInv, Numbers
      <4>3. installing'.id = id /\ installing'.envelope = e
        BY <3>3
      <4>4. Renamed'
        BY <1>1, <1>2, <2>1, <2>2, <3>3, <4>1, <4>3 DEF Renamed, Installs
      <4>5. Told' /\ Asking'
        <5>1. replies' \subseteq replies \cup {[id |-> id, code |-> "internal_failure"]}
          BY <3>3
        <5> QED
          BY <5>1, <1>3, <1>4, <2>1
      <4> QED
        BY <4>2, <4>4, <4>5 DEF SpentInv
    <3> QED
      BY <2>5, <3>1, <3>2, <3>3 DEF commit
  <2> QED
    BY <1>5, <2>4, <2>5 DEF ServeInstall
<1>6. CASE b.op = "bind_root" /\ ServeBind(id, b, clock)
  <2>1. UNCHANGED <<generation, disk, durable, installing, activated>> /\ reply(id, bindCode(b, clock))
    BY <1>6 DEF ServeBind, store
  <2>2. bindCode(b, clock) \in Codes
    BY DEF bindCode, Codes
  <2>3. Numbers' /\ Renamed'
    BY <1>1, <2>1 DEF SpentInv, Numbers, Renamed
  <2>4. Told' /\ Asking'
    <3>1. PICK code \in Codes : code = bindCode(b, clock)
      BY <2>2
    <3>2. replies' \subseteq replies \cup {[id |-> id, code |-> code]}
      BY <2>1, <3>1 DEF reply
    <3> QED
      BY <3>2, <1>4, <1>6, <2>1
  <2> QED
    BY <2>3, <2>4 DEF SpentInv
<1> QED
  BY <1>1, <1>5, <1>6

(* A power loss leaves what was durable, or more.                          *)
LEMMA SpentRestart ==
    ASSUME SpentInv, NEW power \in BOOLEAN, Restart(power)
    PROVE  SpentInv'
<1>1. /\ generation' = disk' /\ installing' = NoInstall /\ wire' = <<>> /\ replies' = {}
      /\ activated' = activated
      /\ requests' = (IF power THEN invalidateAll(0, "lost") ELSE requests)
  BY DEF Restart
<1>2. /\ durable \in Int /\ disk \in Int /\ durable <= disk
      /\ \A e \in Envelopes : e.generation \in Int
      /\ \A x \in Generations : x \in Int
  BY EnvelopesAreTyped DEF SpentInv, Numbers, Generations
<1>3. disk' \in Int /\ durable' \in Int /\ durable <= durable' /\ durable' <= disk'
  BY <1>2 DEF Restart
<1>4. /\ requests' \in Seq(Asked) /\ DOMAIN requests' = DOMAIN requests
      /\ \A i \in DOMAIN requests :
           /\ requests'[i].body = requests[i].body
           /\ requests'[i].outcome = requests[i].outcome \/ requests'[i].outcome # "ok"
  <2>1. CASE power
    <3>1. "lost" \in Codes
      BY DEF Codes
    <3> QED
      BY <1>1, <2>1, <3>1, InvalidatedRequests
  <2>2. CASE ~power
    BY <1>1, <2>2 DEF SpentInv, Told
  <2> QED
    BY <2>1, <2>2
<1>5. Numbers'
  BY <1>1, <1>2, <1>3 DEF SpentInv, Numbers
<1>6. Renamed'
  BY <1>1 DEF Renamed
<1>7. Told'
  <2>1. \A i \in DOMAIN requests' :
          \A e \in Envelopes :
             Installs(requests'[i], e) /\ requests'[i].outcome = "ok" => e.generation <= durable'
    <3> SUFFICES ASSUME NEW i \in DOMAIN requests, NEW e \in Envelopes,
                        Installs(requests'[i], e), requests'[i].outcome = "ok"
                 PROVE  e.generation <= durable'
      BY <1>4
    <3>1. Installs(requests[i], e) /\ requests[i].outcome = "ok"
      BY <1>4 DEF Installs
    <3>2. e.generation <= durable
      BY <3>1 DEF SpentInv, Told
    <3> QED
      BY <3>2, <1>2, <1>3
  <2>2. wire' \in Seq(Nat) /\ DOMAIN wire' = {}
    BY <1>1
  <2> QED
    BY <1>1, <1>4, <2>1, <2>2 DEF Told, Installs
<1>8. Asking'
  BY <1>4 DEF SpentInv, Asking
<1> QED
  BY <1>5, <1>6, <1>7, <1>8 DEF SpentInv

LEMMA SpentOther ==
    ASSUME SpentInv, NEW e \in Envelopes, OtherCommit(e)
    PROVE  SpentInv'
<1> DEFINE g == e.generation
<1>1. /\ g > disk /\ disk' = g /\ durable' = g /\ installing = NoInstall
      /\ activated' = [activated EXCEPT ![g] = @ + 1]
      /\ UNCHANGED <<generation, installing, wire, replies, requests>>
  BY DEF OtherCommit, xpc
<1>2. g \in Int /\ g \in Generations /\ \A x \in Envelopes : x.generation \in Int
  BY EnvelopesAreTyped
<1>3. /\ activated \in [Generations -> Nat] /\ durable \in Int /\ disk \in Int /\ durable <= disk
      /\ \A x \in Generations : activated[x] <= 1 /\ (activated[x] = 1 => x <= durable)
      /\ \A x \in Generations : x \in Int
  BY EnvelopesAreTyped DEF SpentInv, Numbers, Generations
<1>4. activated[g] = 0 /\ durable <= durable' /\ durable' \in Int
  BY <1>1, <1>2, <1>3
<1>5. Numbers'
  <2> HIDE DEF g
  <2>1. activated' \in [Generations -> Nat]
    BY <1>1, <1>2, <1>3
  <2>2. \A x \in Generations : activated'[x] <= 1 /\ (activated'[x] = 1 => x <= durable')
    BY <1>1, <1>2, <1>3, <1>4
  <2> QED
    BY <1>1, <1>2, <2>1, <2>2 DEF SpentInv, Numbers
<1>6. Renamed'
  BY <1>1 DEF Renamed
<1>7. Told'
  <2>1. \A r \in replies :
          \A x \in Envelopes : Installs(requests[r.id], x) /\ r.code = "ok" => x.generation <= durable'
    BY <1>2, <1>3, <1>4 DEF SpentInv, Told
  <2>2. \A i \in DOMAIN requests :
          \A x \in Envelopes :
             Installs(requests[i], x) /\ requests[i].outcome = "ok" => x.generation <= durable'
    BY <1>2, <1>3, <1>4 DEF SpentInv, Told
  <2> QED
    BY <1>1, <2>1, <2>2 DEF SpentInv, Told, Installs
<1>8. Asking'
  BY <1>1 DEF SpentInv, Asking
<1> QED
  BY <1>5, <1>6, <1>7, <1>8 DEF SpentInv

(* The client reads a reply, or its connection ends.                       *)
LEMMA SpentHeard ==
    ASSUME SpentInv, ClientReceive \/ ClientTimeout \/ ConnectionLost \/ (\E p : Accept(p))
    PROVE  SpentInv'
<1>1. CASE ClientReceive
  <2>1. PICK r \in replies :
          /\ replies' = replies \ {r}
          /\ requests' = (IF r.id \in Pending
                          THEN [requests EXCEPT ![r.id].outcome = r.code] ELSE requests)
          /\ UNCHANGED <<generation, disk, durable, installing, activated, wire>>
    BY <1>1 DEF ClientReceive, store, ghosts
  <2>2. requests \in Seq(Asked) /\ r.id \in DOMAIN requests /\ r.code \in Codes
    BY DEF SpentInv, Told
  <2>3. CASE requests' = requests
    BY <2>1, <2>3, SpentUntouched
  <2>4. CASE requests' = [requests EXCEPT ![r.id].outcome = r.code]
    <3>1. requests[r.id] \in Asked
      BY <2>2
    <3>2. PICK x : x = [requests[r.id] EXCEPT !.outcome = r.code]
      OBVIOUS
    <3>3. x \in Asked /\ x.body = requests[r.id].body /\ x.outcome = r.code
      BY <2>2, <3>1, <3>2 DEF Asked
    <3>4. requests' = [requests EXCEPT ![r.id] = x]
      BY <2>4, <3>2
    <3>5. requests' \in Seq(Asked) /\ DOMAIN requests' = DOMAIN requests
      BY <2>2, <3>3, <3>4
    <3>6. \A i \in DOMAIN requests :
            /\ requests'[i].body = requests[i].body
            /\ \/ requests'[i].outcome = requests[i].outcome
               \/ requests'[i].outcome # "ok"
               \/ \E y \in replies : y.id = i /\ y.code = "ok"
      <4> SUFFICES ASSUME NEW i \in DOMAIN requests
                   PROVE  /\ requests'[i].body = requests[i].body
                          /\ \/ requests'[i].outcome = requests[i].outcome
                             \/ requests'[i].outcome # "ok"
                             \/ \E y \in replies : y.id = i /\ y.code = "ok"
        OBVIOUS
      <4>1. CASE i = r.id
        <5>1. requests'[i] = x
          BY <4>1, <3>4, <2>2
        <5> QED
          BY <4>1, <5>1, <3>3
      <4>2. CASE i # r.id
        BY <4>2, <3>4, <2>2
      <4> QED
        BY <4>1, <4>2
    <3> QED
      BY <2>1, <3>5, <3>6, SpentReported
  <2> QED
    BY <2>1, <2>3, <2>4
<1>2. CASE ClientTimeout \/ ConnectionLost \/ \E p : Accept(p)
  <2>1. UNCHANGED <<generation, disk, durable, installing, activated, wire, replies>>
    BY <1>2 DEF ClientTimeout, ConnectionLost, Accept, store, ghosts
  <2>2. CASE requests' = requests
    BY <2>1, <2>2, SpentUntouched
  <2>3. ASSUME NEW primary, NEW error \in Codes, error # "ok",
               requests' = invalidateAll(primary, error)
        PROVE  SpentInv'
    <3>1. /\ requests' \in Seq(Asked) /\ DOMAIN requests' = DOMAIN requests
          /\ \A i \in DOMAIN requests :
               /\ requests'[i].body = requests[i].body
               /\ requests'[i].outcome = requests[i].outcome \/ requests'[i].outcome # "ok"
      BY <2>3, InvalidatedRequests
    <3> QED
      BY <2>1, <3>1, SpentReported
  <2>4. "deadline_exceeded_outcome_unknown" \in Codes /\ "connection_invalidated" \in Codes
    BY DEF Codes
  <2>5. CASE ClientTimeout
    <3>1. PICK i \in Pending : requests' = invalidateAll(i, "deadline_exceeded_outcome_unknown")
      BY <2>5 DEF ClientTimeout
    <3> QED
      BY <3>1, <2>3, <2>4
  <2>6. CASE ConnectionLost
    BY <2>6, <2>3, <2>4 DEF ConnectionLost
  <2>7. CASE \E p : Accept(p)
    BY <2>7, <2>2, <2>3, <2>4 DEF Accept
  <2> QED
    BY <1>2, <2>5, <2>6, <2>7
<1> QED
  BY <1>1, <1>2

LEMMA SpentStep ==
    ASSUME SpentInv, EndpointStep \/ UNCHANGED endpointVars
    PROVE  SpentInv'
<1>1. CASE UNCHANGED endpointVars
  <2>1. UNCHANGED <<generation, disk, durable, installing, activated, requests, wire, replies>>
    BY <1>1 DEF endpointVars, store, xpc, ghosts
  <2> QED
    BY <2>1, SpentUntouched
<1>2. CASE KernelStep
  <2>1. ASSUME NEW p \in Tokens, NEW c \in Tokens, Fork(p, c) PROVE UNCHANGED <<store, xpc, activated>>
    BY <2>1 DEF Fork, ghosts
  <2>2. ASSUME NEW p \in Tokens, ExitProcess(p) PROVE UNCHANGED <<store, xpc, activated>>
    BY <2>2 DEF ExitProcess, ghosts
  <2>3. ASSUME NEW p \in Tokens, Request(p) PROVE UNCHANGED <<store, xpc, activated>>
    BY <2>3 DEF Request, ghosts
  <2>4. ASSUME NEW early, NEW late, NEW fails, NEW clock, Handle(early, late, fails, clock)
        PROVE  UNCHANGED <<store, xpc, activated>>
    BY <2>4 DEF Handle
  <2>5. UNCHANGED <<store, xpc, activated>>
    BY <1>2, <2>1, <2>2, <2>3, <2>4 DEF KernelStep
  <2>6. UNCHANGED <<generation, disk, durable, installing, activated, requests, wire, replies>>
    BY <2>5 DEF store, xpc
  <2> QED
    BY <2>6, SpentUntouched
<1>3. CASE ControlStep
  <2>1. CASE SendInstall
    <3>1. PICK e \in Envelopes : ClientSend([Body("install_policy") EXCEPT !.envelope = e])
      BY <2>1 DEF SendInstall
    <3>2. PICK body : body = [Body("install_policy") EXCEPT !.envelope = e]
      OBVIOUS
    <3>3. body \in Bodies /\ body.envelope \in Envelopes
      BY <3>2, InstallBodies
    <3> QED
      BY <3>1, <3>2, <3>3, SpentSent
  <2>2. CASE SendBind
    <3>1. PICK t \in Tokens, s \in Sessions, g \in Generations : ClientSend(BindBody(t, s, g))
      BY <2>2 DEF SendBind, BindBody
    <3>2. BindBody(t, s, g) \in Bodies /\ BindBody(t, s, g).op = "bind_root"
      BY BindBodies
    <3> QED
      BY <3>1, <3>2, SpentSent
  <2>3. CASE ClientReceive \/ Accept(Client)
    BY <2>3, SpentHeard
  <2>4. CASE \E clock \in {now, -1} : Serve(clock)
    BY <2>4, SpentServed
  <2>5. CASE \E synced \in BOOLEAN : SyncDirectory(synced)
    BY <2>5, SpentSync
  <2> QED
    BY <1>3, <2>1, <2>2, <2>3, <2>4, <2>5 DEF ControlStep
<1>4. CASE FaultStep
  <2>1. CASE ClientTimeout \/ ConnectionLost \/ (\E p \in Strangers : Accept(p))
    BY <2>1, SpentHeard
  <2>2. CASE NewClient
    <3>1. /\ UNCHANGED <<generation, disk, durable, installing, activated, requests>>
          /\ wire' = <<>> /\ replies' = {}
      BY <2>2 DEF NewClient, store, ghosts
    <3> QED
      BY <3>1, SpentUntouched
  <2>3. ASSUME NEW p, Remove(p) PROVE SpentInv'
    <3>1. /\ UNCHANGED <<generation, disk, durable, installing, activated, requests, replies>>
          /\ wire' = wire \/ wire' = <<>>
      BY <2>3 DEF Remove, store, ghosts
    <3> QED
      BY <3>1, SpentUntouched
  <2>4. CASE (\E p \in Strangers : Refuse(p)) \/ (\E p \in Strangers \cup {Client} : ExpirePeer(p))
    BY <2>3, <2>4 DEF Refuse, ExpirePeer
  <2>5. CASE \E e \in Envelopes : OtherCommit(e)
    BY <2>5, SpentOther
  <2>6. CASE \E power \in BOOLEAN : Restart(power)
    BY <2>6, SpentRestart
  <2> QED
    BY <1>4, <2>1, <2>2, <2>4, <2>5, <2>6 DEF FaultStep
<1>5. CASE Tick
  <2>1. UNCHANGED <<generation, disk, durable, installing, activated, requests, wire, replies>>
    BY <1>5 DEF Tick, store, xpc, ghosts
  <2> QED
    BY <2>1, SpentUntouched
<1> QED
  BY <1>1, <1>2, <1>3, <1>4, <1>5 DEF EndpointStep

THEOREM SpentInvariant == EndpointSpec => []SpentInv
<1>1. SpentInv /\ [EndpointStep]_endpointVars => SpentInv'
  BY SpentStep
<1> QED
  BY <1>1, SpentInit, PTL DEF EndpointSpec

(* A policy generation is spent once: through restarts, power losses,      *)
(* failed directory syncs and competing instances of the extension         *)
(* (NativeGenerationStore.commit), no generation becomes the enforced one  *)
(* twice, and an install reported as a success is on the disk.             *)
THEOREM EveryGenerationIsSpentOnce == EndpointSpec => []GenerationsAreSpent
<1>1. SpentInv => GenerationsAreSpent
  <2> SUFFICES ASSUME SpentInv PROVE GenerationsAreSpent
    OBVIOUS
  <2>1. \A g \in Generations : activated[g] <= 1
    BY DEF SpentInv, Numbers
  <2>2. ASSUME NEW i \in DOMAIN requests,
               requests[i].body.op = "install_policy", requests[i].outcome = "ok"
        PROVE  durable >= requests[i].body.envelope.generation
    <3>1. requests[i].body.envelope \in Envelopes
      BY <2>2 DEF SpentInv, Asking
    <3>2. requests[i].body.envelope.generation <= durable
      BY <2>2, <3>1 DEF SpentInv, Told, Installs
    <3> QED
      BY <3>1, <3>2, EnvelopesAreTyped DEF SpentInv, Numbers
  <2> QED
    BY <2>1, <2>2 DEF GenerationsAreSpent
<1> QED
  BY <1>1, SpentInvariant, PTL

-----------------------------------------------------------------------------
(* EndpointSecurity: confinement and the portable contract.                *)

LEMMA Verdicts == \A reason : Allow(reason).allow /\ ~Deny(reason).allow
BY DEF Allow, Deny

LEMMA StatusesAgree ==
    ASSUME NEW path, path # "absent"
    PROVE  /\ path_status(path) = "usable" <=> pathStatus(path) = {}
           /\ path_status(path) # "usable"
              => (CHOOSE d \in pathStatus(path) : TRUE) = Deny(path_status(path))
<1>1. CASE path = "truncated"
  <2>1. pathStatus(path) = {Deny("truncated_path")} /\ path_status(path) = "truncated_path"
    BY <1>1 DEF pathStatus, path_status
  <2> QED
    BY <2>1
<1>2. CASE path = "malformed"
  <2>1. pathStatus(path) = {Deny("malformed_path")} /\ path_status(path) = "malformed_path"
    BY <1>2 DEF pathStatus, path_status
  <2> QED
    BY <2>1
<1>3. CASE path \notin {"truncated", "malformed"} /\ path \in Protected
  <2>1. pathStatus(path) = {Deny("protected_path")} /\ path_status(path) = "protected_path"
    BY <1>3 DEF pathStatus, path_status
  <2> QED
    BY <2>1
<1>4. CASE path \notin {"truncated", "malformed"} /\ path \notin Protected
  <2>1. pathStatus(path) = {} /\ path_status(path) = "usable"
    BY <1>4 DEF pathStatus, path_status
  <2> QED
    BY <2>1
<1> QED
  BY <1>1, <1>2, <1>3, <1>4

LEMMA PathsAgree ==
    ASSUME NEW path, NEW session
    PROVE  decidePath(path, session) = evaluate_workspace_path(path, session)
<1>1. CASE path = "absent"
  <2>1. path_status(path) = "malformed_path"
    BY <1>1 DEF path_status
  <2> QED
    BY <1>1, <2>1 DEF decidePath, evaluate_workspace_path
<1>2. CASE path # "absent"
  BY <1>2, StatusesAgree DEF decidePath, evaluate_workspace_path
<1> QED
  BY <1>1, <1>2

LEMMA ExecutionsAgree ==
    ASSUME NEW image, NEW path, path # "absent", NEW session
    PROVE  decideExec(image, path, session) = evaluate_executable(image, path, session)
BY StatusesAgree DEF decideExec, evaluate_executable

(* What the fast path grants a process of the session, the contract grants. *)
LEMMA GrantsAgree ==
    ASSUME NEW e, NEW clock, NEW s \in Sessions, e.actor # None, attributions[e.actor] = s,
           decideLocked(e, clock).allow
    PROVE  evaluate(e, s, FALSE).allow
<1>1. s # None /\ "absent" \notin Executables[s]
  BY EndpointAssumption
<1>2. CASE e.kind \in Notifications
  BY <1>2, Verdicts DEF evaluate
<1>3. CASE e.kind \notin Notifications
  <2>1. /\ ~(clock < 0) /\ ~(clock >= policy.expires) /\ s \in policy.sessions
        /\ decideLocked(e, clock) =
              IF e.kind = "exec" THEN decideExec(e.target, e.path, s)
              ELSE IF e.kind = "open" /\ ~knownOpenFlags(e.flags) THEN Deny("unknown_open_flags")
              ELSE IF e.kind = "rename" /\ decidePath(e.path, s).allow
              THEN decidePath(e.destination, s)
              ELSE decidePath(e.path, s)
    BY <1>1, <1>3, Verdicts DEF decideLocked
  <2>2. evaluate(e, s, FALSE) =
              IF e.kind = "exec" THEN evaluate_executable(e.target, e.path, s)
              ELSE IF e.kind = "open" /\ ~open_flags_known(e.flags) THEN Deny("unknown_open_flags")
              ELSE IF e.kind = "rename" /\ evaluate_workspace_path(e.path, s).allow
              THEN evaluate_workspace_path(e.destination, s)
              ELSE evaluate_workspace_path(e.path, s)
    BY <1>1, <1>3, <2>1 DEF evaluate
  <2>3. CASE e.kind = "exec"
    <3>1. decideExec(e.target, e.path, s).allow
      BY <2>1, <2>3
    <3>2. e.path # "absent"
      <4>1. SUFFICES ASSUME e.path = "absent" PROVE FALSE
        OBVIOUS
      <4>2. pathStatus(e.path) = {}
        BY <4>1 DEF pathStatus, Protected
      <4> QED
        BY <1>1, <3>1, <4>1, <4>2, Verdicts DEF decideExec
    <3> QED
      BY <2>2, <2>3, <3>1, <3>2, ExecutionsAgree
  <2>4. CASE e.kind # "exec"
    <3>1. knownOpenFlags(e.flags) => open_flags_known(e.flags)
      BY DEF knownOpenFlags, open_flags_known
    <3>2. ~(e.kind = "open" /\ ~knownOpenFlags(e.flags))
      BY <2>1, <2>4, Verdicts
    <3>3. ~(e.kind = "open" /\ ~open_flags_known(e.flags))
      BY <3>1, <3>2
    <3> QED
      BY <2>1, <2>2, <2>4, <3>2, <3>3, PathsAgree
  <2> QED
    BY <2>3, <2>4
<1> QED
  BY <1>2, <1>3

Kinds == {"fork", "exit", "exec", "open", "create", "rename", "unlink"}

Messages == [kind : Kinds, actor : Tokens, target : Tokens \cup {None},
             path : FilePaths \cup {"absent"}, destination : FilePaths \cup {"absent"},
             flags : SUBSET OpenBits]

(* Who sent a message exists, and so does the child of a fork; the token   *)
(* of an image that is to execute is reserved.                             *)
Sound(m, ps) ==
    /\ ps[m.actor] \notin Unborn
    /\ m.kind = "fork" => m.target \in Tokens /\ ps[m.target] \notin Unborn
    /\ m.kind = "exec" => m.target \in Tokens /\ ps[m.target] = "reserved"

StayBorn(ps, qs) == \A t \in Tokens : ps[t] \notin Unborn => qs[t] \notin Unborn

Typed ==
    /\ attributions \in [Tokens -> Sessions \cup {None}]
    /\ lineage \in [Tokens -> Sessions \cup {None}]
    /\ procs = [t \in Tokens |-> procs[t]]
    /\ now \in Nat /\ policy.expires \in Int

(* The attribution of a process is the session it was put under.           *)
Following ==
    /\ \A t \in Tokens : lineage[t] # None /\ t \notin deserted => attributions[t] = lineage[t]
    /\ \A t \in Tokens : procs[t] \in Unborn => lineage[t] = None

Queued ==
    /\ queue \in Seq(Messages)
    /\ \A i \in DOMAIN queue : Sound(queue[i], procs)
    /\ \A i, j \in DOMAIN queue : i # j /\ queue[i].kind = "exec" /\ queue[j].kind = "exec"
                                  => queue[i].target # queue[j].target

Binding == \A i \in DOMAIN requests : requests[i].body.op = "bind_root" =>
               /\ requests[i].body.token \in Tokens /\ procs[requests[i].body.token] \notin Unborn
               /\ requests[i].body.session \in Sessions

ConfInv == Typed /\ Following /\ Queued /\ Binding /\ ConfinedUnlessDeserted

LEMMA ConfInit == EndpointInit => ConfInv
<1> SUFFICES ASSUME EndpointInit PROVE ConfInv
    OBVIOUS
<1> USE DEF EndpointInit
<1>1. Typed
  BY DEF Typed, NoPolicy
<1>2. Following
  BY DEF Following
<1>3. Queued
  BY DEF Queued
<1>4. Binding
  BY DEF Binding
<1>5. ConfinedUnlessDeserted
  BY DEF ConfinedUnlessDeserted
<1> QED
  BY <1>1, <1>2, <1>3, <1>4, <1>5 DEF ConfInv

(* The messages that remain after the first.                               *)
LEMMA QueuedTail ==
    ASSUME Queued, queue # <<>>, queue' = Tail(queue), StayBorn(procs, procs'),
           Head(queue).kind = "exec" =>
              \A t \in Tokens \ {Head(queue).target} : procs[t] = "reserved" => procs'[t] = "reserved",
           Head(queue).kind # "exec" =>
              \A t \in Tokens : procs[t] = "reserved" => procs'[t] = "reserved"
    PROVE  Queued'
<1>1. /\ queue \in Seq(Messages) /\ queue' \in Seq(Messages) /\ Head(queue) = queue[1]
      /\ 1 \in DOMAIN queue
      /\ \A k \in DOMAIN queue' : k + 1 \in DOMAIN queue /\ k \in Nat /\ k # 0
                                 /\ queue'[k] = queue[k + 1]
  BY TailShifts DEF Queued
<1>2. ASSUME NEW k \in DOMAIN queue' PROVE Sound(queue'[k], procs')
  <2>1. PICK m \in Messages : m = queue[k + 1]
    BY <1>1, <1>2
  <2>2. queue'[k] = m /\ Sound(m, procs) /\ m.actor \in Tokens
    BY <1>1, <1>2, <2>1 DEF Queued, Messages
  <2>3. m.kind = "exec" /\ Head(queue).kind = "exec" => m.target # Head(queue).target
    <3>1. k + 1 # 1
      BY <1>1, <1>2
    <3> QED
      BY <1>1, <1>2, <2>1, <3>1 DEF Queued
  <2> QED
    BY <2>2, <2>3 DEF Sound, StayBorn
<1>3. ASSUME NEW i \in DOMAIN queue', NEW j \in DOMAIN queue', i # j,
             queue'[i].kind = "exec", queue'[j].kind = "exec"
      PROVE  queue'[i].target # queue'[j].target
  <2>1. i + 1 # j + 1 /\ i + 1 \in DOMAIN queue /\ j + 1 \in DOMAIN queue
    BY <1>1, <1>3
  <2> QED
    BY <1>1, <1>3, <2>1 DEF Queued
<1> QED
  BY <1>1, <1>2, <1>3 DEF Queued

(* One more message, whose target nobody else has reserved.                *)
LEMMA QueuedAppend ==
    ASSUME Queued, NEW m \in Messages, queue' = Append(queue, m), StayBorn(procs, procs'),
           Sound(m, procs'),
           \A t \in Tokens : procs[t] = "reserved" => procs'[t] = "reserved",
           m.kind = "exec" => procs[m.target] # "reserved"
    PROVE  Queued'
<1> DEFINE n == Len(queue)
<1>0. queue \in Seq(Messages)
  BY DEF Queued
<1>1. /\ n \in Nat /\ DOMAIN queue = 1..n /\ DOMAIN queue' = 1..(n + 1) /\ queue' \in Seq(Messages)
      /\ \A k \in 1..n : queue'[k] = queue[k]
      /\ queue'[n + 1] = m
  BY <1>0
<1> HIDE DEF n
<1>2. \A k \in DOMAIN queue' : (k \in DOMAIN queue /\ queue'[k] = queue[k]) \/ k = n + 1
  BY <1>1
<1>3. ASSUME NEW k \in DOMAIN queue PROVE Sound(queue[k], procs')
  <2>1. PICK x \in Messages : x = queue[k]
    BY <1>0, <1>3
  <2>2. Sound(x, procs) /\ x.actor \in Tokens
    BY <1>3, <2>1 DEF Queued, Messages
  <2> QED
    BY <2>1, <2>2 DEF Sound, StayBorn
<1>4. \A k \in DOMAIN queue' : Sound(queue'[k], procs')
  BY <1>1, <1>2, <1>3
<1>5. ASSUME NEW i \in DOMAIN queue', NEW j \in DOMAIN queue', i # j,
             queue'[i].kind = "exec", queue'[j].kind = "exec"
      PROVE  queue'[i].target # queue'[j].target
  <2>1. ASSUME NEW k \in DOMAIN queue, queue[k].kind = "exec" PROVE procs[queue[k].target] = "reserved"
    BY <2>1 DEF Queued, Sound
  <2> QED
    BY <1>1, <1>2, <1>5, <2>1 DEF Queued
<1> QED
  BY <1>1, <1>4, <1>5 DEF Queued

LEMMA QueuedStays ==
    ASSUME Queued, queue' = queue, StayBorn(procs, procs'),
           \A t \in Tokens : procs[t] = "reserved" => procs'[t] = "reserved"
    PROVE  Queued'
<1>1. ASSUME NEW k \in DOMAIN queue PROVE Sound(queue[k], procs')
  <2>1. PICK x \in Messages : x = queue[k]
    BY <1>1 DEF Queued
  <2>2. Sound(x, procs) /\ x.actor \in Tokens
    BY <1>1, <2>1 DEF Queued, Messages
  <2> QED
    BY <2>1, <2>2 DEF Sound, StayBorn
<1> QED
  BY <1>1 DEF Queued

LEMMA BindingStays ==
    ASSUME Binding, StayBorn(procs, procs'), DOMAIN requests' = DOMAIN requests,
           \A i \in DOMAIN requests : requests'[i].body = requests[i].body
    PROVE  Binding'
BY DEF Binding, StayBorn

(* A fork reaches the extension.                                           *)
LEMMA ForkFollows ==
    ASSUME Typed, Following, NEW e \in Messages, Sound(e, procs), e.kind = "fork",
           attributions' = inheritAttribution(e.actor, e.target), procs' = procs,
           lineage' = (IF Adopts(e) THEN [lineage EXCEPT ![e.target] = lineage[e.actor]] ELSE lineage),
           deserted' = (IF (e.actor \in deserted /\ Adopts(e)) \/ Overrides(e)
                        THEN deserted \cup {e.target} ELSE deserted)
    PROVE  /\ Following'
           /\ attributions' \in [Tokens -> Sessions \cup {None}]
           /\ lineage' \in [Tokens -> Sessions \cup {None}]
<1> DEFINE p == e.actor
           c == e.target
<1>1. p \in Tokens /\ c \in Tokens /\ c # None /\ procs[c] \notin Unborn
  BY EndpointAssumption DEF Messages, Sound
<1>2. /\ attributions \in [Tokens -> Sessions \cup {None}]
      /\ lineage \in [Tokens -> Sessions \cup {None}]
  BY DEF Typed
<1>3. \A t \in Tokens : t # c => attributions'[t] = attributions[t]
  BY <1>1, <1>2 DEF inheritAttribution
<1>4. \A t \in Tokens : t # c => lineage'[t] = lineage[t]
  BY <1>1, <1>2
<1>5. deserted \subseteq deserted'
  OBVIOUS
<1>6. attributions' \in [Tokens -> Sessions \cup {None}] /\ lineage' \in [Tokens -> Sessions \cup {None}]
  BY <1>1, <1>2 DEF inheritAttribution
<1>7. ASSUME lineage'[c] # None, c \notin deserted' PROVE attributions'[c] = lineage'[c]
  <2>1. ~Overrides(e) /\ (Adopts(e) => p \notin deserted)
    BY <1>7
  <2>2. CASE Adopts(e)
    <3>1. lineage'[c] = lineage[p]
      BY <2>2, <1>1, <1>2
    <3>2. attributions[p] = lineage[p] /\ attributions[p] # None
      BY <1>1, <1>7, <2>1, <2>2, <3>1 DEF Following
    <3>3. attributions' = [attributions EXCEPT ![c] = attributions[p]]
      BY <1>1, <2>2, <3>2 DEF Adopts, inheritAttribution
    <3> QED
      BY <1>1, <1>2, <3>1, <3>2, <3>3
  <2>3. CASE ~Adopts(e)
    <3>1. lineage'[c] = lineage[c]
      BY <2>3
    <3>2. attributions[c] = lineage[c] /\ attributions[c] # None
      BY <1>1, <1>5, <1>7, <3>1 DEF Following
    <3>3. c \in Held
      BY <1>1, <3>2 DEF Held
    <3>4. attributions[p] = None \/ attributions[p] = attributions[c]
      BY <2>1, <3>3 DEF Overrides
    <3>5. attributions'[c] = attributions[c]
      BY <1>1, <1>2, <3>4 DEF inheritAttribution
    <3> QED
      BY <3>1, <3>2, <3>5
  <2> QED
    BY <2>2, <2>3
<1>8. \A t \in Tokens : lineage'[t] # None /\ t \notin deserted' => attributions'[t] = lineage'[t]
  BY <1>3, <1>4, <1>5, <1>7 DEF Following
<1>9. \A t \in Tokens : procs'[t] \in Unborn => lineage'[t] = None
  BY <1>1, <1>4 DEF Following
<1> QED
  BY <1>6, <1>8, <1>9 DEF Following

(* An exec was decided.                                                    *)
LEMMA ExecFollows ==
    ASSUME Typed, Following, NEW e \in Messages, Sound(e, procs), e.kind = "exec",
           NEW executes \in BOOLEAN, NEW moved \in BOOLEAN,
           executes /\ attributions[e.actor] # None => moved,
           moved => attributions[e.actor] # None,
           attributions' = (IF moved THEN [attributions EXCEPT ![e.actor] = None,
                                                              ![e.target] = attributions[e.actor]]
                            ELSE attributions),
           lineage' = (IF executes THEN [lineage EXCEPT ![e.actor] = None,
                                                       ![e.target] = lineage[e.actor]]
                       ELSE lineage),
           deserted' = (IF moved /\ ~executes THEN deserted \cup {e.actor}
                        ELSE IF e.actor \in deserted /\ executes THEN deserted \cup {e.target}
                        ELSE deserted),
           \A t \in Tokens : procs'[t] \in Unborn =>
               procs[t] \in Unborn /\ t # e.target
    PROVE  /\ Following'
           /\ attributions' \in [Tokens -> Sessions \cup {None}]
           /\ lineage' \in [Tokens -> Sessions \cup {None}]
<1> DEFINE p == e.actor
           c == e.target
<1>1. p \in Tokens /\ c \in Tokens /\ p # c /\ lineage[c] = None
  BY DEF Messages, Sound, Unborn, Following
<1>2. /\ attributions \in [Tokens -> Sessions \cup {None}]
      /\ lineage \in [Tokens -> Sessions \cup {None}]
  BY DEF Typed
<1>3. deserted \subseteq deserted'
  OBVIOUS
<1>4. attributions' \in [Tokens -> Sessions \cup {None}] /\ lineage' \in [Tokens -> Sessions \cup {None}]
  BY <1>1, <1>2
<1>5. \A t \in Tokens \ {p, c} : attributions'[t] = attributions[t] /\ lineage'[t] = lineage[t]
  BY <1>1, <1>2
<1>6. ASSUME NEW t \in {p, c}, lineage'[t] # None, t \notin deserted'
      PROVE  attributions'[t] = lineage'[t]
  <2>1. CASE executes
    <3>1. lineage'[p] = None /\ lineage'[c] = lineage[p]
      BY <2>1, <1>1, <1>2
    <3>2. t = c /\ lineage[p] # None /\ p \notin deserted
      BY <3>1, <1>6, <2>1
    <3>3. attributions[p] = lineage[p]
      BY <3>2, <1>1 DEF Following
    <3>4. attributions'[c] = attributions[p]
      BY <2>1, <3>2, <3>3, <1>1, <1>2
    <3> QED
      BY <3>1, <3>2, <3>3, <3>4
  <2>2. CASE ~executes
    <3>1. lineage' = lineage
      BY <2>2
    <3>2. t = p /\ ~moved
      BY <1>1, <1>6, <2>2, <3>1
    <3>3. attributions' = attributions
      BY <3>2
    <3> QED
      BY <1>1, <1>3, <1>6, <3>1, <3>2, <3>3 DEF Following
  <2> QED
    BY <2>1, <2>2
<1>7. \A t \in Tokens : lineage'[t] # None /\ t \notin deserted' => attributions'[t] = lineage'[t]
  BY <1>3, <1>5, <1>6 DEF Following
<1>8. \A t \in Tokens : procs'[t] \in Unborn => lineage'[t] = None
  <2> SUFFICES ASSUME NEW t \in Tokens, procs'[t] \in Unborn PROVE lineage'[t] = None
    OBVIOUS
  <2>1. procs[t] \in Unborn /\ t # c /\ t # p
    BY DEF Sound
  <2> QED
    BY <2>1, <1>5 DEF Following
<1> QED
  BY <1>4, <1>7, <1>8 DEF Following

LEMMA ConfHandle ==
    ASSUME ConfInv, NEW early \in BOOLEAN, NEW late \in BOOLEAN, NEW fails \in BOOLEAN, NEW clock,
           Handle(early, late, fails, clock)
    PROVE  ConfInv'
<1> DEFINE e == Head(queue)
           auth == e.kind \notin Notifications
           decided == ~auth \/ early
           decision == decideLocked(e, clock)
           allow == decided /\ decision.allow /\ ~(auth /\ late)
           executes == allow /\ e.kind = "exec" /\ ~fails
           strays == /\ decided /\ decision.allow /\ e.kind = "exec" /\ ~executes
                     /\ attributions[e.actor] # None
           s == lineage[e.actor]
<1>1. /\ queue # <<>> /\ queue' = Tail(queue)
      /\ attributions' = (IF decided THEN attributionsAfter(e, decision) ELSE attributions)
      /\ procs' = [t \in Tokens |->
            CASE t = e.actor /\ auth -> IF executes THEN "gone" ELSE "running"
              [] t \in ExecTarget(e) -> IF executes THEN "running" ELSE "gone"
              [] OTHER -> procs[t]]
      /\ lineage' = (IF executes THEN [lineage EXCEPT ![e.actor] = None, ![e.target] = s]
                     ELSE IF Adopts(e) THEN [lineage EXCEPT ![e.target] = s]
                     ELSE IF e.kind = "exit" THEN [lineage EXCEPT ![e.actor] = None]
                     ELSE lineage)
      /\ deserted' = (IF strays THEN deserted \cup {e.actor}
                      ELSE IF \/ e.actor \in deserted /\ (executes \/ Adopts(e))
                              \/ Overrides(e)
                      THEN deserted \cup {e.target}
                      ELSE deserted)
      /\ breaches' = (IF /\ allow /\ auth /\ s # None
                         /\ ~evaluate(e, s, FALSE).allow
                      THEN breaches \cup {e.actor \in deserted} ELSE breaches)
      /\ UNCHANGED <<policy, requests, now>>
  BY DEF Handle, xpc
<1>2. e \in Messages /\ Sound(e, procs)
  BY <1>1, TailShifts DEF ConfInv, Queued
<1>3. e.actor \in Tokens /\ e.actor # None /\ e.kind \in Kinds
  BY <1>2, EndpointAssumption DEF Messages
<1>4. procs = [t \in Tokens |-> procs[t]] /\ procs' = [t \in Tokens |-> procs'[t]]
  BY <1>1 DEF ConfInv, Typed
<1>5. ConfinedUnlessDeserted'
  <2>1. CASE ~(allow /\ auth /\ s # None /\ ~evaluate(e, s, FALSE).allow)
    BY <1>1, <2>1 DEF ConfInv, ConfinedUnlessDeserted
  <2>2. CASE allow /\ auth /\ s # None /\ ~evaluate(e, s, FALSE).allow
    <3>1. e.actor \in deserted
      <4> SUFFICES ASSUME e.actor \notin deserted PROVE FALSE
        OBVIOUS
      <4>1. attributions[e.actor] = s /\ s \in Sessions
        BY <1>3, <2>2 DEF ConfInv, Following, Typed
      <4>2. decideLocked(e, clock).allow
        BY <2>2
      <4> HIDE DEF e, s
      <4> QED
        BY <1>3, <2>2, <4>1, <4>2, GrantsAgree
    <3>2. breaches' = breaches \cup {TRUE}
      BY <1>1, <2>2, <3>1
    <3> QED
      BY <3>2, Zenon DEF ConfInv, ConfinedUnlessDeserted
  <2> QED
    BY <2>1, <2>2
<1>6. /\ Following'
      /\ attributions' \in [Tokens -> Sessions \cup {None}]
      /\ lineage' \in [Tokens -> Sessions \cup {None}]
      /\ StayBorn(procs, procs')
      /\ e.kind = "exec" => \A t \in Tokens \ {e.target} : procs[t] = "reserved" => procs'[t] = "reserved"
      /\ e.kind # "exec" => \A t \in Tokens : procs[t] = "reserved" => procs'[t] = "reserved"
  <2> HIDE DEF e, decision
  <2>1. CASE e.kind = "fork"
    <3>1. ~auth /\ decided /\ ~executes /\ ~strays /\ ExecTarget(e) = {} /\ e.kind # "exit"
      BY <2>1 DEF Notifications, ExecTarget
    <3>2. procs' = procs
      BY <1>1, <1>4, <3>1
    <3>3. attributions' = inheritAttribution(e.actor, e.target)
      BY <1>1, <2>1, <3>1 DEF attributionsAfter
    <3>4. /\ lineage' = (IF Adopts(e) THEN [lineage EXCEPT ![e.target] = lineage[e.actor]] ELSE lineage)
          /\ deserted' = (IF (e.actor \in deserted /\ Adopts(e)) \/ Overrides(e)
                          THEN deserted \cup {e.target} ELSE deserted)
      BY <1>1, <3>1
    <3>5. StayBorn(procs, procs')
      BY <3>2 DEF StayBorn
    <3> QED
      BY <1>2, <2>1, <3>2, <3>3, <3>4, <3>5, ForkFollows DEF ConfInv
  <2>2. CASE e.kind = "exit"
    <3>1. ~auth /\ decided /\ ~executes /\ ~strays /\ ExecTarget(e) = {} /\ ~Adopts(e) /\ ~Overrides(e)
      BY <2>2 DEF Notifications, ExecTarget, Adopts, Overrides
    <3>2. procs' = procs
      BY <1>1, <1>4, <3>1
    <3>3. attributions' = [attributions EXCEPT ![e.actor] = None]
      BY <1>1, <2>2, <3>1 DEF attributionsAfter
    <3>4. lineage' = [lineage EXCEPT ![e.actor] = None] /\ deserted' = deserted
      BY <1>1, <2>2, <3>1
    <3>5. /\ attributions \in [Tokens -> Sessions \cup {None}]
          /\ lineage \in [Tokens -> Sessions \cup {None}]
      BY DEF ConfInv, Typed
    <3>6. Following'
      BY <1>3, <3>2, <3>3, <3>4, <3>5 DEF ConfInv, Following
    <3> QED
      BY <1>3, <2>2, <3>2, <3>3, <3>4, <3>5, <3>6 DEF StayBorn
  <2>3. CASE e.kind = "exec"
    <3> DEFINE moved == decided /\ decision.allow /\ attributions[e.actor] # None
    <3>1. auth /\ ExecTarget(e) = {e.target} /\ ~Adopts(e) /\ ~Overrides(e)
      BY <2>3 DEF Notifications, ExecTarget, Adopts, Overrides
    <3>2. attributions' = (IF moved THEN [attributions EXCEPT ![e.actor] = None,
                                                             ![e.target] = attributions[e.actor]]
                           ELSE attributions)
      BY <1>1, <2>3 DEF attributionsAfter
    <3>3. /\ executes \in BOOLEAN /\ moved \in BOOLEAN
          /\ executes /\ attributions[e.actor] # None => moved
          /\ moved => attributions[e.actor] # None
          /\ strays <=> moved /\ ~executes
      BY <2>3
    <3>4. lineage' = (IF executes THEN [lineage EXCEPT ![e.actor] = None,
                                                      ![e.target] = lineage[e.actor]]
                      ELSE lineage)
      BY <1>1, <2>3, <3>1
    <3>5. deserted' = (IF moved /\ ~executes THEN deserted \cup {e.actor}
                       ELSE IF e.actor \in deserted /\ executes THEN deserted \cup {e.target}
                       ELSE deserted)
      BY <1>1, <3>1, <3>3
    <3>6. /\ e.target \in Tokens /\ e.target # e.actor /\ procs[e.target] = "reserved"
          /\ procs[e.actor] \notin Unborn
      BY <1>2, <2>3 DEF Sound, Unborn
    <3>7. /\ procs'[e.actor] \in {"gone", "running"} /\ procs'[e.target] \in {"gone", "running"}
          /\ \A t \in Tokens \ {e.actor, e.target} : procs'[t] = procs[t]
      BY <1>1, <1>3, <3>1, <3>6
    <3>8. StayBorn(procs, procs') /\ \A t \in Tokens : procs'[t] \in Unborn => procs[t] \in Unborn /\ t # e.target
      BY <3>6, <3>7 DEF StayBorn, Unborn
    <3>9. \A t \in Tokens \ {e.target} : procs[t] = "reserved" => procs'[t] = "reserved"
      BY <3>6, <3>7 DEF Unborn
    <3>10. PICK ex \in BOOLEAN, mv \in BOOLEAN : (ex <=> executes) /\ (mv <=> moved)
      BY <3>3
    <3> HIDE DEF executes, moved
    <3>11. /\ ex /\ attributions[e.actor] # None => mv
           /\ mv => attributions[e.actor] # None
           /\ attributions' = (IF mv THEN [attributions EXCEPT ![e.actor] = None,
                                                             ![e.target] = attributions[e.actor]]
                               ELSE attributions)
           /\ lineage' = (IF ex THEN [lineage EXCEPT ![e.actor] = None, ![e.target] = lineage[e.actor]]
                          ELSE lineage)
           /\ deserted' = (IF mv /\ ~ex THEN deserted \cup {e.actor}
                           ELSE IF e.actor \in deserted /\ ex THEN deserted \cup {e.target}
                           ELSE deserted)
      BY <3>2, <3>3, <3>4, <3>5, <3>10
    <3>12. /\ Following'
           /\ attributions' \in [Tokens -> Sessions \cup {None}]
           /\ lineage' \in [Tokens -> Sessions \cup {None}]
      BY <1>2, <2>3, <3>8, <3>11, ExecFollows DEF ConfInv
    <3> QED
      BY <2>3, <3>8, <3>9, <3>12
  <2>4. CASE e.kind \in {"open", "create", "rename", "unlink"}
    <3>1. /\ auth /\ ~executes /\ ~strays /\ ExecTarget(e) = {} /\ ~Adopts(e) /\ ~Overrides(e)
          /\ e.kind # "exit"
      BY <2>4 DEF Notifications, ExecTarget, Adopts, Overrides
    <3>2. attributions' = attributions
      BY <1>1, <2>4 DEF attributionsAfter
    <3>3. lineage' = lineage /\ deserted' = deserted
      BY <1>1, <3>1
    <3>4. procs'[e.actor] = "running" /\ \A t \in Tokens \ {e.actor} : procs'[t] = procs[t]
      BY <1>1, <1>3, <3>1
    <3>5. procs[e.actor] \notin Unborn
      BY <1>2 DEF Sound
    <3>6. /\ StayBorn(procs, procs') /\ \A t \in Tokens : procs'[t] \in Unborn => procs[t] \in Unborn
          /\ \A t \in Tokens : procs[t] = "reserved" => procs'[t] = "reserved"
      BY <3>4, <3>5 DEF StayBorn, Unborn
    <3>7. Following'
      BY <3>2, <3>3, <3>6 DEF ConfInv, Following
    <3> QED
      BY <2>4, <3>2, <3>3, <3>6, <3>7 DEF ConfInv, Typed
  <2> QED
    BY <1>3, <2>1, <2>2, <2>3, <2>4 DEF Kinds
<1>7. Typed'
  BY <1>1, <1>4, <1>6 DEF ConfInv, Typed
<1>8. Queued'
  BY <1>1, <1>6, QueuedTail DEF ConfInv
<1>9. Binding'
  BY <1>1, <1>6, BindingStays DEF ConfInv
<1> QED
  BY <1>5, <1>6, <1>7, <1>8, <1>9 DEF ConfInv

(* What a process does before the extension hears of it.                   *)
LEMMA ConfProcess ==
    ASSUME ConfInv, NEW p \in Tokens, procs[p] = "running",
           UNCHANGED <<attributions, policy, lineage, deserted, breaches, requests, now>>,
           NEW c \in Tokens, procs' = [t \in Tokens |-> procs'[t]], procs'[p] \notin Unborn,
           \A t \in Tokens \ {p, c} : procs'[t] = procs[t],
           c # p => procs[c] = "free",
           queue' = queue \/ \E m \in Messages : /\ queue' = Append(queue, m) /\ Sound(m, procs')
                                                 /\ m.kind = "exec" => m.target = c /\ c # p
    PROVE  ConfInv'
<1>3. StayBorn(procs, procs') /\ \A t \in Tokens : procs[t] = "reserved" => procs'[t] = "reserved"
  BY DEF StayBorn, Unborn
<1>4. \A t \in Tokens : procs'[t] \in Unborn => procs[t] \in Unborn
  BY DEF Unborn
<1>5. Typed'
  BY DEF ConfInv, Typed
<1>6. Following'
  BY <1>4 DEF ConfInv, Following
<1>7. Queued'
  <2>1. CASE queue' = queue
    BY <1>3, <2>1, QueuedStays DEF ConfInv
  <2>2. CASE queue' # queue
    <3>1. PICK m \in Messages : /\ queue' = Append(queue, m) /\ Sound(m, procs')
                                /\ m.kind = "exec" => m.target = c /\ c # p
      BY <2>2
    <3>2. m.kind = "exec" => procs[m.target] # "reserved"
      BY <3>1
    <3> QED
      BY <1>3, <3>1, <3>2, QueuedAppend DEF ConfInv
  <2> QED
    BY <2>1, <2>2
<1>8. Binding'
  BY <1>3, BindingStays DEF ConfInv
<1>9. ConfinedUnlessDeserted'
  BY DEF ConfInv, ConfinedUnlessDeserted
<1> QED
  BY <1>5, <1>6, <1>7, <1>8, <1>9 DEF ConfInv

LEMMA PlainMessages ==
    ASSUME NEW p \in Tokens, NEW k \in Kinds
    PROVE  Message(k, p) \in Messages /\ Message(k, p).kind = k /\ Message(k, p).actor = p
BY DEF Message, NoMessage, Messages

LEMMA ForkMessages ==
    ASSUME NEW p \in Tokens, NEW c \in Tokens
    PROVE  /\ ForkMessage(p, c) \in Messages /\ ForkMessage(p, c).kind = "fork"
           /\ ForkMessage(p, c).actor = p /\ ForkMessage(p, c).target = c
<1>1. PICK m : m = Message("fork", p)
  OBVIOUS
<1>2. m \in Messages /\ m.kind = "fork" /\ m.actor = p
  BY <1>1, PlainMessages DEF Kinds
<1>3. ForkMessage(p, c) = [m EXCEPT !.target = c]
  BY <1>1 DEF ForkMessage
<1> QED
  BY <1>2, <1>3 DEF Messages

LEMMA ExecMessages ==
    ASSUME NEW p \in Tokens, NEW c \in Tokens, NEW path \in FilePaths
    PROVE  /\ ExecMessage(p, c, path) \in Messages /\ ExecMessage(p, c, path).kind = "exec"
           /\ ExecMessage(p, c, path).actor = p /\ ExecMessage(p, c, path).target = c
<1>1. PICK m : m = Message("exec", p)
  OBVIOUS
<1>2. m \in Messages /\ m.kind = "exec" /\ m.actor = p
  BY <1>1, PlainMessages DEF Kinds
<1>3. ExecMessage(p, c, path) = [m EXCEPT !.target = c, !.path = path]
  BY <1>1 DEF ExecMessage
<1> QED
  BY <1>2, <1>3 DEF Messages

LEMMA FileMessages ==
    ASSUME NEW p \in Tokens, NEW path \in FilePaths, NEW destination \in FilePaths,
           NEW kind \in FileOperations, NEW flags \in OpenModes \cup {{}}
    PROVE  LET m == FileMessage(kind, p, path, destination, flags)
           IN  /\ m \in Messages /\ m.kind = kind /\ m.actor = p
               /\ kind \notin {"fork", "exec", "exit"}
<1>0. kind \in {"open", "create", "rename", "unlink"}
  BY EndpointAssumption
<1>1. PICK m : m = Message(kind, p)
  OBVIOUS
<1>2. m \in Messages /\ m.kind = kind /\ m.actor = p
  BY <1>0, <1>1, PlainMessages DEF Kinds
<1>3. FileMessage(kind, p, path, destination, flags)
         = [m EXCEPT !.path = path, !.destination = destination, !.flags = flags]
  BY <1>1 DEF FileMessage
<1>4. flags \in SUBSET OpenBits
  BY EndpointAssumption
<1> QED
  BY <1>0, <1>2, <1>3, <1>4 DEF Messages

LEMMA ConfKernel ==
    ASSUME ConfInv, KernelStep
    PROVE  ConfInv'
<1>0. procs = [t \in Tokens |-> procs[t]]
  BY DEF ConfInv, Typed
<1>1. ASSUME NEW p \in Tokens, NEW c \in Tokens, Fork(p, c) PROVE ConfInv'
  <2>1. /\ procs[p] = "running" /\ procs[c] = "free" /\ p # c
        /\ procs' = [procs EXCEPT ![c] = "running"]
        /\ queue' = queue \/ queue' = Append(queue, ForkMessage(p, c))
        /\ UNCHANGED <<attributions, policy, lineage, deserted, breaches, requests, now>>
    BY <1>1 DEF Fork, fast, xpc, ghosts
  <2>2. procs' = [t \in Tokens |-> procs'[t]] /\ \A t \in Tokens \ {p, c} : procs'[t] = procs[t]
    BY <1>0, <2>1
  <2>3. procs'[p] = "running" /\ procs'[c] = "running"
    BY <1>0, <2>1
  <2>4. ForkMessage(p, c) \in Messages /\ ForkMessage(p, c).kind # "exec" /\ Sound(ForkMessage(p, c), procs')
    BY <2>3, ForkMessages DEF Sound, Unborn
  <2>5. procs'[p] \notin Unborn
    BY <2>3 DEF Unborn
  <2>6. queue' = queue \/ \E m \in Messages : /\ queue' = Append(queue, m) /\ Sound(m, procs')
                                              /\ m.kind = "exec" => m.target = c /\ c # p
    BY <2>1, <2>4
  <2> QED
    BY <2>1, <2>2, <2>5, <2>6, ConfProcess
<1>2. ASSUME NEW p \in Tokens, ExitProcess(p) PROVE ConfInv'
  <2>1. /\ procs[p] = "running" /\ procs' = [procs EXCEPT ![p] = "gone"]
        /\ queue' = queue \/ queue' = Append(queue, Message("exit", p))
        /\ UNCHANGED <<attributions, policy, lineage, deserted, breaches, requests, now>>
    BY <1>2 DEF ExitProcess, fast, xpc, ghosts
  <2>2. procs' = [t \in Tokens |-> procs'[t]] /\ \A t \in Tokens \ {p, p} : procs'[t] = procs[t]
    BY <1>0, <2>1
  <2>3. procs'[p] = "gone"
    BY <1>0, <2>1
  <2>4. /\ Message("exit", p) \in Messages /\ Message("exit", p).kind # "exec"
        /\ Sound(Message("exit", p), procs')
    BY <2>3, PlainMessages DEF Sound, Unborn, Kinds
  <2>5. procs'[p] \notin Unborn
    BY <2>3 DEF Unborn
  <2>6. queue' = queue \/ \E m \in Messages : /\ queue' = Append(queue, m) /\ Sound(m, procs')
                                              /\ m.kind = "exec" => m.target = p /\ p # p
    BY <2>1, <2>4
  <2> QED
    BY <2>1, <2>2, <2>5, <2>6, ConfProcess
<1>3. ASSUME NEW p \in Tokens, Request(p) PROVE ConfInv'
  <2>0. "blocked" \notin Unborn
    BY DEF Unborn
  <2>1. /\ procs[p] = "running"
        /\ UNCHANGED <<attributions, policy, lineage, deserted, breaches, requests, now>>
    BY <1>3 DEF Request, fast, xpc, ghosts
  <2>2. ASSUME NEW t \in Tokens, NEW path \in FilePaths, procs[t] = "free",
               procs' = [procs EXCEPT ![p] = "blocked", ![t] = "reserved"],
               queue' = Append(queue, ExecMessage(p, t, path))
        PROVE  ConfInv'
    <3>1. t # p /\ procs'[p] = "blocked" /\ procs'[t] = "reserved"
      BY <1>0, <2>1, <2>2
    <3>2. procs' = [x \in Tokens |-> procs'[x]] /\ \A x \in Tokens \ {p, t} : procs'[x] = procs[x]
      BY <1>0, <2>2
    <3>3. ExecMessage(p, t, path) \in Messages /\ Sound(ExecMessage(p, t, path), procs')
      BY <3>1, <2>0, ExecMessages DEF Sound
    <3>4. ExecMessage(p, t, path).target = t
      BY ExecMessages
    <3>5. \E m \in Messages : /\ queue' = Append(queue, m) /\ Sound(m, procs')
                              /\ m.kind = "exec" => m.target = t /\ t # p
      BY <2>2, <3>1, <3>3, <3>4
    <3> QED
      BY <2>0, <2>1, <2>2, <3>1, <3>2, <3>5, ConfProcess
  <2>3. ASSUME NEW kind \in FileOperations, NEW path \in FilePaths, NEW destination \in FilePaths,
               NEW flags \in OpenModes \cup {{}},
               procs' = [procs EXCEPT ![p] = "blocked"],
               queue' = Append(queue, FileMessage(kind, p, path, destination, flags))
        PROVE  ConfInv'
    <3>1. PICK m : m = FileMessage(kind, p, path, destination, flags)
      OBVIOUS
    <3>2. m \in Messages /\ m.actor = p /\ m.kind \notin {"fork", "exec", "exit"}
      BY <3>1, FileMessages
    <3>3. /\ procs' = [x \in Tokens |-> procs'[x]] /\ procs'[p] = "blocked"
          /\ \A x \in Tokens \ {p, p} : procs'[x] = procs[x]
      BY <1>0, <2>3
    <3>4. Sound(m, procs')
      BY <3>2, <3>3, <2>0 DEF Sound
    <3>5. \E x \in Messages : /\ queue' = Append(queue, x) /\ Sound(x, procs')
                              /\ x.kind = "exec" => x.target = p /\ p # p
      BY <2>3, <3>1, <3>2, <3>4
    <3> QED
      BY <2>0, <2>1, <3>3, <3>5, ConfProcess
  <2> QED
    BY <1>3, <2>2, <2>3 DEF Request
<1>4. ASSUME NEW early \in BOOLEAN, NEW late \in BOOLEAN, NEW fails \in BOOLEAN,
             NEW clock \in {now, -1}, Handle(early, late, fails, clock)
      PROVE  ConfInv'
  BY <1>4, ConfHandle
<1> QED
  BY <1>1, <1>2, <1>3, <1>4 DEF KernelStep

(* Steps of the control channel that decide nothing.                       *)
LEMMA ConfQuiet ==
    ASSUME ConfInv, UNCHANGED <<procs, queue, attributions, policy, lineage, deserted, breaches>>,
           now' \in Nat,
           DOMAIN requests' = DOMAIN requests,
           \A i \in DOMAIN requests : requests'[i].body = requests[i].body
    PROVE  ConfInv'
<1>1. StayBorn(procs, procs')
  BY DEF StayBorn
<1>2. Typed'
  BY DEF ConfInv, Typed
<1>3. Following'
  BY DEF ConfInv, Following
<1>4. Queued'
  BY <1>1, QueuedStays DEF ConfInv
<1>5. Binding'
  BY <1>1, BindingStays DEF ConfInv
<1>6. ConfinedUnlessDeserted'
  BY DEF ConfInv, ConfinedUnlessDeserted
<1> QED
  BY <1>2, <1>3, <1>4, <1>5, <1>6 DEF ConfInv

LEMMA ConfSent ==
    ASSUME SpentInv, ConfInv, NEW body, ClientSend(body),
           body.op = "bind_root" => /\ body.token \in Tokens /\ procs[body.token] \notin Unborn
                                    /\ body.session \in Sessions
    PROVE  ConfInv'
<1>1. /\ \E outcome : requests' = Append(requests, [body |-> body, outcome |-> outcome])
      /\ UNCHANGED <<procs, queue, attributions, policy, lineage, deserted, breaches, now>>
  BY DEF ClientSend, kernel, fast, ghosts
<1>2. PICK r : requests' = Append(requests, r) /\ r.body = body
  <2>1. PICK outcome : requests' = Append(requests, [body |-> body, outcome |-> outcome])
    BY <1>1
  <2>2. [body |-> body, outcome |-> outcome].body = body
    OBVIOUS
  <2> QED
    BY <2>1, <2>2
<1>3. requests \in Seq(Asked)
  BY DEF SpentInv, Told
<1> DEFINE n == Len(requests)
<1>4. /\ n \in Nat /\ DOMAIN requests = 1..n /\ DOMAIN requests' = 1..(n + 1)
      /\ \A i \in 1..n : requests'[i] = requests[i]
      /\ requests'[n + 1] = r
  BY <1>2, <1>3
<1> HIDE DEF n
<1>5. \A i \in DOMAIN requests' : (i \in DOMAIN requests /\ requests'[i] = requests[i]) \/ i = n + 1
  BY <1>4
<1>6. Binding'
  BY <1>1, <1>2, <1>4, <1>5 DEF ConfInv, Binding
<1>7. StayBorn(procs, procs')
  BY <1>1 DEF StayBorn
<1>8. Queued'
  BY <1>1, <1>7, QueuedStays DEF ConfInv
<1>9. Typed' /\ Following' /\ ConfinedUnlessDeserted'
  BY <1>1 DEF ConfInv, Typed, Following, ConfinedUnlessDeserted
<1> QED
  BY <1>6, <1>8, <1>9 DEF ConfInv

(* A new policy keeps the processes of the sessions that stay.             *)
LEMMA ConfSync ==
    ASSUME SpentInv, ConfInv, NEW synced \in BOOLEAN, SyncDirectory(synced)
    PROVE  ConfInv'
<1>1. UNCHANGED <<procs, queue, requests, now, deserted, breaches>>
  BY DEF SyncDirectory, kernel
<1>2. CASE ~synced
  <2>1. UNCHANGED <<attributions, policy, lineage>>
    BY <1>2 DEF SyncDirectory, fast
  <2> QED
    BY <1>1, <2>1, ConfQuiet DEF ConfInv, Typed
<1>3. CASE synced
  <2> DEFINE e == installing.envelope
  <2>1. /\ policy' = [generation |-> e.generation, sessions |-> e.sessions, expires |-> e.expires]
        /\ attributions' = [t \in Tokens |-> IF attributions[t] \in e.sessions THEN attributions[t]
                                             ELSE None]
        /\ lineage' = [t \in Tokens |-> IF lineage[t] \in e.sessions THEN lineage[t] ELSE None]
    BY <1>3 DEF SyncDirectory, carriedAttributions
  <2>2. e \in Envelopes
    BY DEF SyncDirectory, SpentInv, Renamed
  <2>3. e.expires \in Int /\ e.sessions \subseteq Sessions
    BY <2>2, EnvelopesAreTyped
  <2> HIDE DEF e
  <2>4. Typed'
    <3>1. policy'.expires = e.expires
      BY <2>1
    <3>2. /\ attributions' \in [Tokens -> Sessions \cup {None}]
          /\ lineage' \in [Tokens -> Sessions \cup {None}]
      BY <2>1, <2>3
    <3> QED
      BY <1>1, <2>3, <3>1, <3>2 DEF ConfInv, Typed
  <2>5. Following'
    BY <1>1, <2>1 DEF ConfInv, Following
  <2>6. StayBorn(procs, procs')
    BY <1>1 DEF StayBorn
  <2>7. Queued' /\ Binding'
    BY <1>1, <2>6, QueuedStays, BindingStays DEF ConfInv
  <2>8. ConfinedUnlessDeserted'
    BY <1>1 DEF ConfInv, ConfinedUnlessDeserted
  <2> QED
    BY <2>4, <2>5, <2>7, <2>8 DEF ConfInv
<1> QED
  BY <1>2, <1>3

LEMMA ConfServed ==
    ASSUME SpentInv, ConfInv, NEW clock, Serve(clock)
    PROVE  ConfInv'
<1> DEFINE id == Head(wire)
           b == requests[id].body
<1>1. /\ wire # <<>> /\ UNCHANGED <<procs, queue, policy, requests, now>>
      /\ \/ b.op = "install_policy" /\ ServeInstall(id, b.envelope, clock)
         \/ b.op = "bind_root" /\ ServeBind(id, b, clock)
  BY DEF Serve, kernel
<1>2. id \in DOMAIN requests
  BY <1>1, TailShifts DEF SpentInv, Told
<1>3. CASE b.op = "install_policy" /\ ServeInstall(id, b.envelope, clock)
  <2>1. UNCHANGED <<attributions, lineage, deserted, breaches>>
    BY <1>3 DEF ServeInstall, ghosts
  <2> QED
    BY <1>1, <2>1, ConfQuiet DEF ConfInv, Typed
<1>4. CASE b.op = "bind_root" /\ ServeBind(id, b, clock)
  <2> DEFINE bound == bindCode(b, clock) = "ok"
             t == b.token
             s == b.session
  <2>1. /\ attributions' = (IF bound THEN [attributions EXCEPT ![t] = s] ELSE attributions)
        /\ lineage' = (IF bound THEN [lineage EXCEPT ![t] = s] ELSE lineage)
        /\ deserted' = (IF bound THEN deserted \ {t} ELSE deserted)
        /\ breaches' = breaches
    BY <1>4 DEF ServeBind
  <2>2. t \in Tokens /\ procs[t] \notin Unborn /\ s \in Sessions
    BY <1>2, <1>4 DEF ConfInv, Binding
  <2> HIDE DEF bound, t, s
  <2>3. CASE ~bound
    BY <1>1, <2>1, <2>3, ConfQuiet DEF ConfInv, Typed
  <2>4. CASE bound
    <3>1. Typed'
      BY <1>1, <2>1, <2>2, <2>4 DEF ConfInv, Typed
    <3>2. /\ attributions'[t] = s /\ lineage'[t] = s
          /\ \A x \in Tokens \ {t} : attributions'[x] = attributions[x] /\ lineage'[x] = lineage[x]
          /\ \A x \in Tokens \ {t} : x \in deserted <=> x \in deserted'
      BY <2>1, <2>2, <2>4 DEF ConfInv, Typed
    <3>3. Following'
      BY <1>1, <2>2, <3>2 DEF ConfInv, Following
    <3>4. StayBorn(procs, procs')
      BY <1>1 DEF StayBorn
    <3>5. Queued' /\ Binding'
      BY <1>1, <3>4, QueuedStays, BindingStays DEF ConfInv
    <3>6. ConfinedUnlessDeserted'
      BY <2>1 DEF ConfInv, ConfinedUnlessDeserted
    <3> QED
      BY <3>1, <3>3, <3>5, <3>6 DEF ConfInv
  <2> QED
    BY <2>3, <2>4
<1> QED
  BY <1>1, <1>3, <1>4

LEMMA ConfRestart ==
    ASSUME SpentInv, ConfInv, NEW power \in BOOLEAN, Restart(power)
    PROVE  ConfInv'
<1>1. /\ policy' = NoPolicy /\ attributions' = [t \in Tokens |-> None] /\ queue' = <<>>
      /\ procs' = [t \in Tokens |-> CASE procs[t] = "blocked" -> "running"
                                      [] procs[t] = "reserved" -> "gone"
                                      [] OTHER -> procs[t]]
      /\ requests' = (IF power THEN invalidateAll(0, "lost") ELSE requests)
      /\ lineage' = [t \in Tokens |-> None]
      /\ UNCHANGED <<now, breaches>>
  BY DEF Restart
<1>2. StayBorn(procs, procs')
  BY <1>1 DEF StayBorn, Unborn
<1>3. DOMAIN requests' = DOMAIN requests /\ \A i \in DOMAIN requests : requests'[i].body = requests[i].body
  <2>1. CASE power
    <3>1. "lost" \in Codes
      BY DEF Codes
    <3> QED
      BY <1>1, <2>1, <3>1, InvalidatedRequests
  <2>2. CASE ~power
    BY <1>1, <2>2
  <2> QED
    BY <2>1, <2>2
<1>4. Typed'
  BY <1>1 DEF ConfInv, Typed, NoPolicy
<1>5. Following'
  BY <1>1 DEF Following
<1>6. Queued'
  BY <1>1 DEF Queued
<1>7. Binding'
  BY <1>2, <1>3, BindingStays DEF ConfInv
<1>8. ConfinedUnlessDeserted'
  BY <1>1 DEF ConfInv, ConfinedUnlessDeserted
<1> QED
  BY <1>4, <1>5, <1>6, <1>7, <1>8 DEF ConfInv

LEMMA ConfStep ==
    ASSUME SpentInv, ConfInv, EndpointStep \/ UNCHANGED endpointVars
    PROVE  ConfInv'
<1>0. now \in Nat
  BY DEF ConfInv, Typed
<1>1. CASE UNCHANGED endpointVars
  <2>1. UNCHANGED <<procs, queue, attributions, policy, lineage, deserted, breaches, requests, now>>
    BY <1>1 DEF endpointVars, kernel, fast, xpc, ghosts
  <2> QED
    BY <1>0, <2>1, ConfQuiet
<1>2. CASE KernelStep
  BY <1>2, ConfKernel
<1>3. CASE Tick
  <2>1. /\ UNCHANGED <<procs, queue, attributions, policy, lineage, deserted, breaches, requests>>
        /\ now' = now + 1
    BY <1>3 DEF Tick, kernel, fast, xpc, ghosts
  <2> QED
    BY <1>0, <2>1, ConfQuiet
<1>4. ASSUME UNCHANGED <<kernel, fast, now, ghosts, requests>> PROVE ConfInv'
  <2>1. UNCHANGED <<procs, queue, attributions, policy, lineage, deserted, breaches, requests, now>>
    BY <1>4 DEF kernel, fast, ghosts
  <2> QED
    BY <1>0, <2>1, ConfQuiet
<1>5. ASSUME UNCHANGED <<kernel, fast, now, ghosts>>, NEW primary, NEW error \in Codes, error # "ok",
             requests' = invalidateAll(primary, error)
      PROVE  ConfInv'
  <2>1. UNCHANGED <<procs, queue, attributions, policy, lineage, deserted, breaches, now>>
    BY <1>5 DEF kernel, fast, ghosts
  <2>2. DOMAIN requests' = DOMAIN requests /\ \A i \in DOMAIN requests : requests'[i].body = requests[i].body
    BY <1>5, InvalidatedRequests
  <2> QED
    BY <1>0, <2>1, <2>2, ConfQuiet
<1>6. "deadline_exceeded_outcome_unknown" \in Codes /\ "connection_invalidated" \in Codes
  BY DEF Codes
<1>7. ASSUME NEW p, Accept(p) PROVE ConfInv'
  <2>1. UNCHANGED <<kernel, fast, now, ghosts>>
    BY <1>7 DEF Accept
  <2> QED
    BY <1>4, <1>5, <1>6, <1>7, <2>1 DEF Accept
<1>8. CASE ControlStep
  <2>1. CASE SendInstall
    <3>1. PICK e \in Envelopes : ClientSend([Body("install_policy") EXCEPT !.envelope = e])
      BY <2>1 DEF SendInstall
    <3>2. PICK body : body = [Body("install_policy") EXCEPT !.envelope = e]
      OBVIOUS
    <3>3. body.op = "install_policy"
      BY <3>2, InstallBodies
    <3> QED
      BY <3>1, <3>2, <3>3, ConfSent
  <2>2. CASE SendBind
    <3>1. PICK t \in Tokens, s \in Sessions, g \in Generations :
             procs[t] \notin Unborn /\ ClientSend(BindBody(t, s, g))
      BY <2>2 DEF SendBind, BindBody
    <3>2. BindBody(t, s, g).token = t /\ BindBody(t, s, g).session = s
      BY BindBodies
    <3> QED
      BY <3>1, <3>2, ConfSent
  <2>3. CASE ClientReceive
    <3>1. PICK r \in replies :
            /\ requests' = (IF r.id \in Pending
                            THEN [requests EXCEPT ![r.id].outcome = r.code] ELSE requests)
            /\ UNCHANGED <<kernel, fast, now, ghosts>>
      BY <2>3 DEF ClientReceive
    <3>2. UNCHANGED <<procs, queue, attributions, policy, lineage, deserted, breaches, now>>
      BY <3>1 DEF kernel, fast, ghosts
    <3>3. requests \in Seq(Asked) /\ r.id \in DOMAIN requests /\ requests[r.id] \in Asked
      BY DEF SpentInv, Told
    <3>4. PICK x : x = [requests[r.id] EXCEPT !.outcome = r.code]
      OBVIOUS
    <3>5. x.body = requests[r.id].body
      BY <3>3, <3>4 DEF Asked
    <3>6. requests' = requests \/ requests' = [requests EXCEPT ![r.id] = x]
      BY <3>1, <3>4
    <3>7. DOMAIN requests' = DOMAIN requests /\ \A i \in DOMAIN requests : requests'[i].body = requests[i].body
      BY <3>3, <3>5, <3>6
    <3> QED
      BY <1>0, <3>2, <3>7, ConfQuiet
  <2>4. CASE Accept(Client)
    BY <1>7, <2>4
  <2>5. CASE \E clock \in {now, -1} : Serve(clock)
    BY <2>5, ConfServed
  <2>6. CASE \E synced \in BOOLEAN : SyncDirectory(synced)
    BY <2>6, ConfSync
  <2> QED
    BY <1>8, <2>1, <2>2, <2>3, <2>4, <2>5, <2>6 DEF ControlStep
<1>9. CASE FaultStep
  <2>1. CASE ClientTimeout
    <3>1. PICK i \in Pending : requests' = invalidateAll(i, "deadline_exceeded_outcome_unknown")
      BY <2>1 DEF ClientTimeout
    <3>2. UNCHANGED <<kernel, fast, now, ghosts>>
      BY <2>1 DEF ClientTimeout
    <3> QED
      BY <1>5, <1>6, <3>1, <3>2
  <2>2. CASE ConnectionLost
    BY <1>5, <1>6, <2>2 DEF ConnectionLost
  <2>3. CASE NewClient
    BY <1>4, <2>3 DEF NewClient
  <2>4. CASE \E p \in Strangers : Accept(p)
    BY <1>7, <2>4
  <2>5. CASE (\E p \in Strangers : Refuse(p)) \/ (\E p \in Strangers \cup {Client} : ExpirePeer(p))
    BY <1>4, <2>5 DEF Refuse, ExpirePeer, Remove
  <2>6. CASE \E e \in Envelopes : OtherCommit(e)
    <3>1. UNCHANGED <<procs, queue, attributions, policy, lineage, deserted, breaches, requests, now>>
      BY <2>6 DEF OtherCommit, kernel, fast, xpc
    <3> QED
      BY <1>0, <3>1, ConfQuiet
  <2>7. CASE \E power \in BOOLEAN : Restart(power)
    BY <2>7, ConfRestart
  <2> QED
    BY <1>9, <2>1, <2>2, <2>3, <2>4, <2>5, <2>6, <2>7 DEF FaultStep
<1> QED
  BY <1>1, <1>2, <1>3, <1>8, <1>9 DEF EndpointStep

THEOREM ConfInvariant == EndpointSpec => []ConfInv
<1>1. SpentInv /\ ConfInv /\ [EndpointStep]_endpointVars => ConfInv'
  BY ConfStep
<1> QED
  BY <1>1, ConfInit, SpentInvariant, PTL DEF EndpointSpec

(* A process under a session is granted nothing the session's policy       *)
(* refuses (decideLocked), through forks, executions, exits, policy swaps  *)
(* and binds in any order, unless an execution approved for it, or for an  *)
(* ancestor, did not happen, or a late fork replaced the session it was    *)
(* bound to.  A process is under the session while its binding, or every   *)
(* fork since an ancestor's, reached the extension with room in the        *)
(* attribution table, no restart came since and the policy lists the       *)
(* session: nothing is said of the others, which the code leaves           *)
(* unmanaged.                                                              *)
THEOREM ManagedAreConfined == EndpointSpec => []ConfinedUnlessDeserted
<1>1. ConfInv => ConfinedUnlessDeserted
  BY DEF ConfInv
<1> QED
  BY <1>1, ConfInvariant, PTL

LEMMA MessageFields ==
    ASSUME NEW t, NEW k
    PROVE  /\ Message(k, t).kind = k /\ Message(k, t).actor = t
           /\ DOMAIN Message(k, t) = {"kind", "actor", "target", "path", "destination", "flags"}
BY DEF Message, NoMessage

(* The probes of process t.                                                *)
LEMMA ProbesAre ==
    ASSUME NEW t \in Tokens, NEW e \in Probes(t)
    PROVE  /\ e.actor = t /\ e.kind \in Kinds
           /\ e.kind = "exec" => e.path # "absent"
           /\ e.kind = "fork" => e.target \in Tokens \cup {None}
<1>0. e \in {Message("exit", t)}
       \cup {ForkMessage(t, u) : u \in Tokens \cup {None}}
       \cup {ExecMessage(t, u, path) : u \in {None, t}, path \in ProbePaths}
       \cup {FileMessage("open", t, path, path, {"read"}) : path \in ProbePaths \cup {"absent"}}
       \cup {FileMessage("open", t, path, path, flags) :
                path \in {"workspace", "outside"}, flags \in SUBSET OpenBits}
       \cup {FileMessage(kind, t, path, path, {}) : kind \in {"create", "unlink"}, path \in ProbePaths}
       \cup {FileMessage("rename", t, path, destination, {}) :
                path \in ProbePaths, destination \in {"workspace", "protected"}}
  BY DEF Probes
<1>1. CASE e = Message("exit", t)
  BY <1>1, MessageFields DEF Kinds
<1>2. ASSUME NEW u \in Tokens \cup {None}, e = ForkMessage(t, u)
      PROVE  e.actor = t /\ e.kind = "fork" /\ e.target = u
  BY <1>2, MessageFields DEF ForkMessage
<1>3. ASSUME NEW u \in {None, t}, NEW path \in ProbePaths, e = ExecMessage(t, u, path)
      PROVE  e.actor = t /\ e.kind = "exec" /\ e.path = path
  BY <1>3, MessageFields DEF ExecMessage
<1>4. ASSUME NEW flags, NEW path, e = FileMessage("open", t, path, path, flags)
      PROVE  e.actor = t /\ e.kind = "open"
  BY <1>4, MessageFields DEF FileMessage
<1>5. ASSUME NEW kind \in {"create", "unlink"}, NEW path \in ProbePaths, e = FileMessage(kind, t, path, path, {})
      PROVE  e.actor = t /\ e.kind = kind
  BY <1>5, MessageFields DEF FileMessage
<1>6. ASSUME NEW path \in ProbePaths, NEW destination \in {"workspace", "protected"},
             e = FileMessage("rename", t, path, destination, {})
      PROVE  e.actor = t /\ e.kind = "rename"
  BY <1>6, MessageFields DEF FileMessage
<1>7. \/ e = Message("exit", t)
      \/ e.actor = t /\ e.kind = "fork" /\ e.target \in Tokens \cup {None}
      \/ e.actor = t /\ e.kind = "exec" /\ e.path \in ProbePaths
      \/ e.actor = t /\ e.kind \in {"open", "create", "unlink", "rename"}
  BY <1>0, <1>2, <1>3, <1>4, <1>5, <1>6
<1>8. "absent" \notin ProbePaths
  BY DEF ProbePaths
<1> QED
  BY <1>1, <1>7, <1>8 DEF Kinds

LEMMA DecisionsAgree ==
    ASSUME Typed, NEW t \in Tokens, attributions[t] # None, now < policy.expires,
           NEW e \in Probes(t)
    PROVE  decideLocked(e, now) =
              IF AsksToExecute(e) /\ attributions[t] \in policy.sessions
              THEN Deny("unknown_open_flags")
              ELSE evaluate(e, attributions[t], FALSE)
<1>1. e.actor = t /\ e.actor # None /\ (e.kind = "exec" => e.path # "absent")
  BY ProbesAre, EndpointAssumption
<1>2. ~(now < 0) /\ ~(now >= policy.expires)
  BY DEF Typed
<1>3. decideLocked(e, now) =
          IF e.kind \in Notifications THEN Allow("notification")
          ELSE IF attributions[t] \notin policy.sessions THEN Deny("missing_session")
          ELSE IF e.kind = "exec" THEN decideExec(e.target, e.path, attributions[t])
          ELSE IF e.kind = "open" /\ ~knownOpenFlags(e.flags) THEN Deny("unknown_open_flags")
          ELSE IF e.kind = "rename" /\ decidePath(e.path, attributions[t]).allow
          THEN decidePath(e.destination, attributions[t])
          ELSE decidePath(e.path, attributions[t])
  BY <1>1, <1>2 DEF decideLocked
<1>4. evaluate(e, attributions[t], FALSE) =
          IF e.kind \in Notifications THEN Allow("notification")
          ELSE IF attributions[t] \notin policy.sessions THEN Deny("missing_session")
          ELSE IF e.kind = "exec" THEN evaluate_executable(e.target, e.path, attributions[t])
          ELSE IF e.kind = "open" /\ ~open_flags_known(e.flags) THEN Deny("unknown_open_flags")
          ELSE IF e.kind = "rename" /\ evaluate_workspace_path(e.path, attributions[t]).allow
          THEN evaluate_workspace_path(e.destination, attributions[t])
          ELSE evaluate_workspace_path(e.path, attributions[t])
  BY DEF evaluate
<1>5. /\ decidePath(e.path, attributions[t]) = evaluate_workspace_path(e.path, attributions[t])
      /\ decidePath(e.destination, attributions[t]) = evaluate_workspace_path(e.destination, attributions[t])
      /\ e.kind = "exec" => decideExec(e.target, e.path, attributions[t])
                            = evaluate_executable(e.target, e.path, attributions[t])
  BY <1>1, PathsAgree, ExecutionsAgree
<1>9. /\ AsksToExecute(e) => e.kind = "open" /\ ~knownOpenFlags(e.flags)
      /\ e.kind = "open" /\ ~AsksToExecute(e)
         => (knownOpenFlags(e.flags) <=> open_flags_known(e.flags))
  BY DEF AsksToExecute, knownOpenFlags, open_flags_known
<1>6. CASE e.kind \in Notifications
  BY <1>3, <1>4, <1>6, <1>9 DEF Notifications
<1>8. CASE e.kind \notin Notifications /\ attributions[t] \notin policy.sessions
  BY <1>3, <1>4, <1>8
<1>7. CASE e.kind \notin Notifications /\ attributions[t] \in policy.sessions
  <2>1. CASE e.kind = "exec"
    BY <1>3, <1>4, <1>5, <1>7, <1>9, <2>1
  <2>2. CASE e.kind = "open" /\ AsksToExecute(e)
    BY <1>3, <1>7, <1>9, <2>2
  <2>3. CASE e.kind = "open" /\ ~AsksToExecute(e) /\ ~knownOpenFlags(e.flags)
    BY <1>3, <1>4, <1>7, <1>9, <2>3
  <2>4. CASE e.kind = "open" /\ ~AsksToExecute(e) /\ knownOpenFlags(e.flags)
    BY <1>3, <1>4, <1>5, <1>7, <1>9, <2>4
  <2>5. CASE e.kind \notin {"exec", "open"}
    BY <1>3, <1>4, <1>5, <1>7, <1>9, <2>5
  <2> QED
    BY <2>1, <2>2, <2>3, <2>4, <2>5
<1> QED
  BY <1>6, <1>7, <1>8

LEMMA TransitionsAgree ==
    ASSUME NEW t \in Tokens, attributions[t] # None, NEW e \in Probes(t), NEW d
    PROVE  attributionsAfter(e, d) = apply_successful_transition(e, d)
<1>1. e.actor = t /\ e.kind \in Kinds
  BY ProbesAre
<1>2. e.kind = "fork" => e.target \in Tokens \cup {None}
  <2>1. SUFFICES ASSUME e.kind = "fork" PROVE e.target \in Tokens \cup {None}
    OBVIOUS
  <2> QED
    BY <2>1, ProbesAre
<1>3. CASE e.kind = "fork"
  <2>1. attributionsAfter(e, d) = inheritAttribution(t, e.target)
    BY <1>1, <1>3 DEF attributionsAfter
  <2>2. e.target # None => (e.target \in Held <=> attributions[e.target] # None)
    BY <1>2, <1>3 DEF Held
  <2>3. CASE /\ e.target # None
             /\ Cardinality(Held) < MaxAttributions \/ attributions[e.target] # None
    <3>1. apply_successful_transition(e, d) = [attributions EXCEPT ![e.target] = attributions[t]]
      BY <1>1, <1>3, <2>3 DEF apply_successful_transition
    <3> QED
      BY <2>1, <2>2, <2>3, <3>1 DEF inheritAttribution
  <2>4. CASE ~(/\ e.target # None
               /\ Cardinality(Held) < MaxAttributions \/ attributions[e.target] # None)
    <3>1. apply_successful_transition(e, d) = attributions
      BY <1>1, <1>3, <2>4 DEF apply_successful_transition
    <3> QED
      BY <2>1, <2>2, <2>4, <3>1 DEF inheritAttribution
  <2> QED
    BY <2>3, <2>4
<1>4. CASE e.kind = "exit"
  BY <1>4 DEF attributionsAfter, apply_successful_transition
<1>5. CASE e.kind = "exec"
  BY <1>5 DEF attributionsAfter, apply_successful_transition
<1>6. CASE e.kind \in {"open", "create", "rename", "unlink"}
  BY <1>6 DEF attributionsAfter, apply_successful_transition
<1> QED
  BY <1>1, <1>3, <1>4, <1>5, <1>6 DEF Kinds

EnvelopeType ==
    [signed : BOOLEAN, schema : BOOLEAN, instance : BOOLEAN, normal : BOOLEAN,
     generation : Int, issued : Int, expires : Int, sessions : SUBSET Sessions,
     copies : Nat, roots : Nat, executables : Nat, prefixes : Nat]

(* The two verifiers check the same things, in another order.              *)
LEMMA VerifiersAgree ==
    ASSUME NEW a \in EnvelopeType, NEW clock \in Nat
    PROVE  verify(a, clock) = verify_contract(a, clock)
<1>1. /\ a.signed \in BOOLEAN /\ a.schema \in BOOLEAN /\ a.instance \in BOOLEAN /\ a.normal \in BOOLEAN
      /\ a.generation \in Int /\ a.issued \in Int /\ a.expires \in Int /\ a.sessions \subseteq Sessions
      /\ a.copies \in Nat /\ a.roots \in Nat /\ a.executables \in Nat /\ a.prefixes \in Nat
  BY DEF EnvelopeType
<1>2. Limits.roots \in Nat /\ Limits.sessions \in Nat /\ IsFiniteSet(Sessions)
  BY EndpointAssumption
<1>3. IsFiniteSet(a.sessions) /\ Cardinality(a.sessions) \in Nat
  BY <1>1, <1>2, FS_Subset, FS_CardinalityType
<1>4. a.sessions = {} => Cardinality(a.sessions) = 0
  BY FS_EmptySet
<1> DEFINE c == Cardinality(a.sessions)
           window == /\ a.generation > 0 /\ a.issued >= 0 /\ a.expires > a.issued
                     /\ a.expires - a.issued <= Limits.lifetime
           fresh == clock >= 0 /\ a.issued <= clock + Limits.skew /\ a.expires > clock
           listed == /\ a.normal /\ a.prefixes <= Limits.prefixes
                     /\ \/ a.sessions = {}
                        \/ /\ a.roots > 0 /\ a.roots <= Limits.roots
                           /\ a.executables <= Limits.executables
                           /\ c <= Limits.sessions /\ a.copies = 1
<1>5. valid_state(a) <=> listed
  <2>1. CASE a.sessions = {}
    <3>1. c * a.copies = 0
      BY <1>1, <1>4, <2>1
    <3> HIDE DEF c
    <3> QED
      BY <1>2, <2>1, <3>1 DEF valid_state, valid_sessions, c
  <2>2. CASE a.sessions # {}
    <3>1. a.copies = 1 => c * a.copies = c
      BY <1>3
    <3>2. a.roots \in 1..Limits.roots <=> a.roots > 0 /\ a.roots <= Limits.roots
      BY <1>1, <1>2
    <3> HIDE DEF c
    <3> QED
      BY <1>2, <2>2, <3>1, <3>2 DEF valid_state, valid_sessions, c
  <2> QED
    BY <2>1, <2>2
<1>6. verify(a, clock) <=> a.signed /\ a.schema /\ a.instance /\ window /\ fresh /\ listed
  BY DEF verify
<1>7. verify_contract(a, clock) <=> a.signed /\ a.schema /\ a.instance /\ window /\ fresh /\ listed
  BY <1>5 DEF verify_contract, validate_structure
<1>8. verify(a, clock) \in BOOLEAN /\ verify_contract(a, clock) \in BOOLEAN
  BY DEF verify, verify_contract
<1> QED
  BY <1>6, <1>7, <1>8

LEMMA AlteredAreTyped ==
    ASSUME NEW e \in Envelopes, NEW a \in Altered(e)
    PROVE  a \in EnvelopeType
<1>1. e \in EnvelopeType
  BY EndpointAssumption DEF EnvelopeType
<1>2. PICK change \in ({"signed", "schema", "instance", "normal"} \X BOOLEAN)
                 \cup ({"issued", "expires"} \X (-1..(Limits.lifetime + 2)))
                 \cup ({"generation", "copies", "roots", "executables", "prefixes"} \X (0..2)) :
          a = [e EXCEPT ![change[1]] = change[2]]
  BY DEF Altered
<1>3. PICK name, value : name = change[1] /\ value = change[2]
  OBVIOUS
<1>4. a = [e EXCEPT ![name] = value]
  BY <1>2, <1>3
<1>5. \/ name \in {"signed", "schema", "instance", "normal"} /\ value \in BOOLEAN
      \/ name \in {"issued", "expires"} /\ value \in Int
      \/ name \in {"generation", "copies", "roots", "executables", "prefixes"} /\ value \in Nat
  <2>1. CASE change \in {"signed", "schema", "instance", "normal"} \X BOOLEAN
    BY <1>3, <2>1
  <2>2. CASE change \in {"issued", "expires"} \X (-1..(Limits.lifetime + 2))
    BY <1>3, <2>2
  <2>3. CASE change \in {"generation", "copies", "roots", "executables", "prefixes"} \X (0..2)
    BY <1>3, <2>3
  <2> QED
    BY <1>2, <2>1, <2>2, <2>3
<1>11. CASE name = "signed"
  <2>1. a = [e EXCEPT !.signed = value] /\ value \in BOOLEAN
    BY <1>4, <1>5, <1>11
  <2> QED
    BY <1>1, <2>1 DEF EnvelopeType
<1>12. CASE name = "schema"
  <2>1. a = [e EXCEPT !.schema = value] /\ value \in BOOLEAN
    BY <1>4, <1>5, <1>12
  <2> QED
    BY <1>1, <2>1 DEF EnvelopeType
<1>13. CASE name = "instance"
  <2>1. a = [e EXCEPT !.instance = value] /\ value \in BOOLEAN
    BY <1>4, <1>5, <1>13
  <2> QED
    BY <1>1, <2>1 DEF EnvelopeType
<1>14. CASE name = "normal"
  <2>1. a = [e EXCEPT !.normal = value] /\ value \in BOOLEAN
    BY <1>4, <1>5, <1>14
  <2> QED
    BY <1>1, <2>1 DEF EnvelopeType
<1>15. CASE name \in {"issued", "expires"}
  <2>1. value \in Int
    BY <1>5, <1>15
  <2>2. a = [e EXCEPT !.issued = value] \/ a = [e EXCEPT !.expires = value]
    BY <1>4, <1>15
  <2> QED
    BY <1>1, <2>1, <2>2 DEF EnvelopeType
<1>16. CASE name \in {"generation", "copies", "roots", "executables", "prefixes"}
  <2>1. value \in Nat
    BY <1>5, <1>16
  <2>2. \/ a = [e EXCEPT !.generation = value] \/ a = [e EXCEPT !.copies = value]
        \/ a = [e EXCEPT !.roots = value] \/ a = [e EXCEPT !.executables = value]
        \/ a = [e EXCEPT !.prefixes = value]
    BY <1>4, <1>16
  <2> QED
    BY <1>1, <2>1, <2>2 DEF EnvelopeType
<1> QED
  BY <1>5, <1>11, <1>12, <1>13, <1>14, <1>15, <1>16

LEMMA BindsAgree ==
    ASSUME NEW t \in Tokens, NEW s \in Sessions, NEW clock, isReady(clock)
    PROVE  bindCode([token |-> t, session |-> s, generation |-> policy.generation], clock)
              = Answers[bind_root(t, s)]
<1>1. t # None /\ s # None
  BY EndpointAssumption
<1>2. PICK b : b = [token |-> t, session |-> s, generation |-> policy.generation]
  OBVIOUS
<1>3. b.token = t /\ b.session = s /\ b.generation = policy.generation
  BY <1>2
<1>4. /\ Answers["ok"] = "ok" /\ Answers["not_found"] = "policy_rejected"
      /\ Answers["unauthorized"] = "attribution_conflict"
      /\ Answers["budget_exhausted"] = "internal_failure"
  BY DEF Answers
<1>5. bindCode(b, clock) = Answers[bind_root(t, s)]
  <2>1. CASE s \notin policy.sessions
    BY <1>1, <1>3, <1>4, <2>1 DEF bindCode, bind_root
  <2>2. CASE s \in policy.sessions /\ attributions[t] = s
    BY <1>1, <1>3, <1>4, <2>2 DEF bindCode, bind_root
  <2>3. CASE s \in policy.sessions /\ attributions[t] # s /\ attributions[t] # None
    BY <1>1, <1>3, <1>4, <2>3 DEF bindCode, bind_root
  <2>4. CASE s \in policy.sessions /\ attributions[t] = None
    BY <1>1, <1>3, <1>4, <2>4 DEF bindCode, bind_root
  <2> QED
    BY <2>1, <2>2, <2>3, <2>4
<1> QED
  BY <1>2, <1>5

(* The Swift adapter and the contract of the vigil-endpoint crate agree:   *)
(* on the verdict, the reason and the attributions left of every event of  *)
(* a managed process under a lease (decideLocked and evaluate), except     *)
(* that the adapter refuses every open which asks for execution, a flag    *)
(* the contract knows; on which process may be bound to which session      *)
(* (bindRoot and bind_root); and on which policies are acceptable (the two *)
(* verifiers).                                                             *)
THEOREM AdapterKeepsTheContract == EndpointSpec => []EndpointParity
<1>1. ConfInv => EndpointParity
  <2> SUFFICES ASSUME ConfInv PROVE EndpointParity
    OBVIOUS
  <2>1. Typed /\ now \in Nat
    BY DEF ConfInv, Typed
  <2>2. ASSUME NEW t \in Tokens, attributions[t] # None, now < policy.expires, NEW e \in Probes(t)
        PROVE  /\ decideLocked(e, now) =
                      IF AsksToExecute(e) /\ attributions[t] \in policy.sessions
                      THEN Deny("unknown_open_flags")
                      ELSE evaluate(e, attributions[t], FALSE)
               /\ \A d \in {decideLocked(e, now)} :
                      attributionsAfter(e, d) = apply_successful_transition(e, d)
    BY <2>1, <2>2, DecisionsAgree, TransitionsAgree
  <2>3. isReady(now) => \A t \in Tokens, s \in Sessions :
          bindCode([token |-> t, session |-> s, generation |-> policy.generation], now)
              = Answers[bind_root(t, s)]
    BY BindsAgree
  <2>4. \A e \in Envelopes : \A a \in Altered(e) : verify(a, now) = verify_contract(a, now)
    BY <2>1, AlteredAreTyped, VerifiersAgree
  <2> QED
    BY <2>2, <2>3, <2>4 DEF EndpointParity
<1> QED
  BY <1>1, ConfInvariant, PTL

=============================================================================
