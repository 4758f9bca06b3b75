--------------------------- MODULE DurabilityProofs ---------------------------
(***************************************************************************)
(* The parts of the system that answer to files they wrote earlier: the    *)
(* event store, the audit log and the network filter's published policy.   *)
(*                                                                         *)
(* The event chain, its checkpoints and the migration that every open runs *)
(* (store.rs, checkpoint.rs), for any number of processes, any length of   *)
(* the log and any set of old versions.                                    *)
(*                                                                         *)
(* The log is linked to its whole history as soon as the version is past   *)
(* the chain step, or as soon as some process is: backfill_event_chain     *)
(* links every event again from the first on, whatever was there, and an   *)
(* append links to what it reads, so a linked log stays linked.  What a    *)
(* backfill computes is shown by the least position at which it would      *)
(* differ from the history.  What a process read of the log is a prefix of *)
(* it ever after.                                                          *)
(*                                                                         *)
(* An open that overlaps no other finds the version where its own last     *)
(* step left it, and of the steps that create their objects exactly those  *)
(* up to the version done.                                                 *)
(*                                                                         *)
(* The server's audit log (vigil-audit) follows: its file is read back as  *)
(* the records at increasing places, counted by how many lie before them,  *)
(* so that a part of the file from its start has a part of the records.    *)
(* What was acknowledged lies in the synced part, which no step takes      *)
(* away.  The network filter comes last.                                   *)
(***************************************************************************)
EXTENDS EventStore, AuditLog, NetworkFilter, CountingTheorems

-----------------------------------------------------------------------------
(* What a backfill computes.                                               *)

LEMMA HistoryGrows ==
    ASSUME NEW i \in Nat \ {0}
    PROVE  LinkHash(History(i - 1), i) = History(i)
  BY DEF LinkHash, History

LEMMA HistoryIsSequence ==
    ASSUME NEW i \in Nat
    PROVE  History(i) \in Seq(Nat) /\ Len(History(i)) = i
  BY DEF History

LEMMA NoneIsEmpty == History(0) = None
  BY DEF History, None

(* Links computed one from the other are the history.                      *)
LEMMA LinkedIsHistory ==
    ASSUME NEW n \in Nat, NEW f, NEW i \in 0..n,
           f = [j \in 0..n |-> IF j = 0 THEN None ELSE LinkHash(f[j - 1], j)]
    PROVE  f[i] = History(i)
<1> DEFINE T == {k \in 0..n : f[k] # History(k)}
<1>1. SUFFICES ASSUME T # {} PROVE FALSE
  OBVIOUS
<1>2. PICK k \in T : \A m \in T : k <= m
  <2>1. T \subseteq Nat
    OBVIOUS
  <2> HIDE DEF T
  <2> QED
    BY <1>1, <2>1, LeastNatural
<1>3. k # 0
  BY NoneIsEmpty
<1>4. f[k-1] = History(k-1)
  BY <1>2, <1>3
<1>5. f[k] = LinkHash(f[k-1], k)
  BY <1>3
<1> QED
  BY <1>3, <1>4, <1>5, HistoryGrows

LEMMA BackfillLinks ==
    ASSUME NEW S, NEW log \in Seq(S)
    PROVE  Backfilled(log) = [i \in DOMAIN log |-> [previous |-> History(i - 1), link |-> History(i)]]
<1> DEFINE n == Len(log)
           linked[i \in 0..n] == IF i = 0 THEN None ELSE LinkHash(linked[i - 1], i)
           h == [i \in 0..n |-> History(i)]
<1>1. h = [i \in 0..n |-> IF i = 0 THEN None ELSE LinkHash(h[i-1], i)]
  <2>1. \A i \in 0..n : i # 0 => i - 1 \in 0..n /\ History(i) = LinkHash(h[i-1], i)
    BY HistoryGrows
  <2> QED
    BY <2>1, NoneIsEmpty
<1>2. linked = [i \in 0..n |-> IF i = 0 THEN None ELSE LinkHash(linked[i - 1], i)]
  <2> HIDE DEF h
  <2>1. \E f : f = [i \in 0..n |-> IF i = 0 THEN None ELSE LinkHash(f[i - 1], i)]
    BY <1>1
  <2> QED
    BY <2>1
<1>3. Backfilled(log) = [i \in DOMAIN log |-> [previous |-> linked[i - 1], link |-> linked[i]]]
  BY DEF Backfilled
<1> HIDE DEF linked
<1>4. \A i \in 0..n : linked[i] = History(i)
  BY <1>2, LinkedIsHistory
<1> QED
  BY <1>3, <1>4

-----------------------------------------------------------------------------
(* The invariant of the chain.                                             *)

Rows   == [previous: Seq(Nat), link: Seq(Nat)]
Linked == \A i \in DOMAIN events : events[i] = [previous |-> History(i - 1), link |-> History(i)]

Steps(pc) ==
    CASE pc = "apply"               -> 1..SchemaVersion
      [] pc \in {"alter", "backfill"} -> {ChainStep}
      [] pc = "stamp"               -> {ChainStep, FillStep}
      [] OTHER                      -> 1..(SchemaVersion + 1)

OpeningPcs  == {"check", "apply", "alter", "backfill", "stamp"}
OpenedPcs   == {"ready", "issued", "sequence", "sign", "walk", "verdict"}
ReadingPcs  == {"issued", "sequence", "sign", "verdict"}

IsProc(r) ==
    /\ r = [pc |-> r.pc, step |-> r.step, seen |-> r.seen, rows |-> r.rows, head |-> r.head,
            sequence |-> r.sequence, listed |-> r.listed, result |-> r.result]
    /\ r.pc \in {"closed"} \cup OpeningPcs \cup OpenedPcs
    /\ r.step \in Steps(r.pc)

(* Where a process must have seen to it that the log is linked.            *)
PastChain(r) == \/ r.pc \in OpeningPcs /\ r.step > ChainStep
                \/ r.pc = "stamp"
                \/ r.pc \in OpenedPcs

(* What a process has read of the log is a prefix of it.                   *)
ReadsPrefix(r) ==
    /\ r.pc \in ReadingPcs => r.rows \in 0..Len(events) /\ r.head = History(r.rows)
    /\ r.pc \in {"issued", "sequence", "sign"} => r.rows >= 1
    /\ r.pc = "sign" => r.sequence \in r.rows..Len(events)

Local(r) ==
    /\ IsProc(r) /\ ReadsPrefix(r) /\ r.result # "broken"
    /\ PastChain(r) => Linked

LogShape == events \in Seq(Rows) /\ Len(events) <= MaxEvents /\ version \in 0..SchemaVersion

ChainInv ==
    /\ LogShape
    /\ proc = [p \in Processes |-> proc[p]]
    /\ version >= ChainStep => Linked
    /\ \A p \in Processes : Local(proc[p])
    /\ checkpoints = [s \in Positions |-> checkpoints[s]]
    /\ CheckpointNamesAHead
(* The invariant of an open that overlaps no other.                        *)
AtWork == {"apply", "alter", "backfill", "stamp"}

Unrefused(r) ==
    /\ r.result # "refused"
    /\ r.pc \in OpeningPcs => r.step <= version + 1
    /\ r.pc \in AtWork => version = r.step - 1
    /\ r.pc = "alter" => r.seen = columns

LoneInv ==
    contended \/
    /\ \A p, q \in Processes : Opening(p) /\ Opening(q) => p = q
    /\ objects \cap CreatingSteps = {k \in CreatingSteps : k <= version}
    /\ \A p \in Processes : Unrefused(proc[p])
-----------------------------------------------------------------------------
(* What a step does to the record of its process.                          *)

Moved(p) == /\ proc' = [q \in Processes |-> proc'[q]]
            /\ \A q \in Processes \ {p} : proc'[q] = proc[q]

(* Its fields, but for the three that few steps change.                    *)
Becomes(p, pc, step, seen, result) ==
    /\ Moved(p)
    /\ IsProc(proc[p])'
    /\ proc'[p].pc = pc /\ proc'[p].step = step /\ proc'[p].seen = seen /\ proc'[p].result = result

Table == proc = [p \in Processes |-> proc[p]] /\ \A p \in Processes : IsProc(proc[p])

LEMMA GotoMoves ==
    ASSUME Table, NEW p \in Processes, NEW pc, Goto(p, pc),
           pc \in {"closed"} \cup OpeningPcs \cup OpenedPcs, proc[p].step \in Steps(pc)
    PROVE  /\ Becomes(p, pc, proc[p].step, proc[p].seen, proc[p].result)
           /\ proc'[p].rows = proc[p].rows /\ proc'[p].head = proc[p].head
           /\ proc'[p].sequence = proc[p].sequence
<1> DEFINE r == [proc[p] EXCEPT !.pc = pc]
<1>1. proc' = [proc EXCEPT ![p] = r] /\ proc = [q \in Processes |-> proc[q]] /\ IsProc(proc[p])
  BY DEF Goto, Table
<1>2. /\ r = [pc |-> r.pc, step |-> r.step, seen |-> r.seen, rows |-> r.rows, head |-> r.head,
              sequence |-> r.sequence, listed |-> r.listed, result |-> r.result]
      /\ r.pc = pc /\ r.step = proc[p].step /\ r.seen = proc[p].seen /\ r.result = proc[p].result
      /\ r.rows = proc[p].rows /\ r.head = proc[p].head /\ r.sequence = proc[p].sequence
  BY <1>1 DEF IsProc
<1> HIDE DEF r
<1>3. proc'[p] = r /\ Moved(p)
  BY <1>1 DEF Moved
<1> QED
  BY <1>2, <1>3 DEF Becomes, IsProc

LEMMA NextStepMoves ==
    ASSUME Table, NEW p \in Processes, NextStep(p), proc[p].step \in 1..SchemaVersion
    PROVE  Becomes(p, "check", proc[p].step + 1, proc[p].seen, proc[p].result)
<1> DEFINE a == [proc[p] EXCEPT !.pc = "check"]
           r == [a EXCEPT !.step = proc[p].step + 1]
<1>1. proc = [q \in Processes |-> proc[q]] /\ IsProc(proc[p])
  BY DEF Table
<1>0. proc' = [proc EXCEPT ![p] = r]
  BY <1>1 DEF NextStep
<1>2. /\ a = [pc |-> "check", step |-> proc[p].step, seen |-> proc[p].seen, rows |-> proc[p].rows,
              head |-> proc[p].head, sequence |-> proc[p].sequence, listed |-> proc[p].listed,
              result |-> proc[p].result]
  BY <1>1 DEF IsProc
<1> HIDE DEF a
<1>3. r = [pc |-> "check", step |-> proc[p].step + 1, seen |-> proc[p].seen, rows |-> proc[p].rows,
              head |-> proc[p].head, sequence |-> proc[p].sequence, listed |-> proc[p].listed,
              result |-> proc[p].result]
  BY <1>2
<1> HIDE DEF r
<1>4. proc'[p] = r /\ Moved(p)
  BY <1>0, <1>1 DEF Moved
<1> QED
  BY <1>3, <1>4 DEF Becomes, IsProc, Steps, OpeningPcs, SchemaVersion

(* A record made anew: the handle is dropped, or the answer is given.      *)
Anew(pc, result) == [pc |-> pc, step |-> 1, seen |-> {}, rows |-> 0, head |-> None,
                     sequence |-> 0, listed |-> {}, result |-> result]

LEMMA AnewMoves ==
    ASSUME Table, NEW p \in Processes, NEW pc \in {"closed", "check", "ready"}, NEW result,
           NEW r, r = Anew(pc, result), proc' = [proc EXCEPT ![p] = r]
    PROVE  Becomes(p, pc, 1, {}, result)
<1>1. proc'[p] = r /\ Moved(p)
  BY DEF Table, Moved
<1>2. 1 \in Steps(pc)
  BY DEF Steps, SchemaVersion, ChainStep, FillStep
<1>3. r = [pc |-> r.pc, step |-> r.step, seen |-> r.seen, rows |-> r.rows, head |-> r.head,
              sequence |-> r.sequence, listed |-> r.listed, result |-> r.result]
      /\ r.pc = pc /\ r.step = 1 /\ r.seen = {} /\ r.result = result
  BY DEF Anew
<1>4. pc \in {"closed"} \cup OpeningPcs \cup OpenedPcs
  BY DEF OpeningPcs, OpenedPcs
<1> QED
  BY <1>1, <1>2, <1>3, <1>4 DEF Becomes, IsProc

LEMMA FreshIsAnew == Fresh = Anew("closed", "none")
  BY DEF Fresh, Anew

LEMMA RefusedMoves ==
    ASSUME Table, NEW p \in Processes, Refused(p)
    PROVE  Becomes(p, "closed", 1, {}, "refused")
<1>1. [Anew("closed", "none") EXCEPT !.result = "refused"] = Anew("closed", "refused")
  BY DEF Anew
<1> QED
  BY <1>1, FreshIsAnew, AnewMoves DEF Refused

LEMMA ReturnMoves ==
    ASSUME Table, NEW p \in Processes, NEW result, Return(p, result)
    PROVE  Becomes(p, "ready", 1, {}, result)
<1> DEFINE a == [Fresh EXCEPT !.pc = "ready"]
           r == [a EXCEPT !.result = result]
<1>0. proc' = [proc EXCEPT ![p] = r]
  BY DEF Return
<1>1. a = Anew("ready", "none")
  <2>1. [Anew("closed", "none") EXCEPT !.pc = "ready"] = Anew("ready", "none")
    BY DEF Anew
  <2> QED
    BY <2>1, FreshIsAnew
<1> HIDE DEF a
<1>2. r = Anew("ready", result)
  <2>1. [Anew("ready", "none") EXCEPT !.result = result] = Anew("ready", result)
    BY DEF Anew
  <2> QED
    BY <1>1, <2>1
<1> HIDE DEF r
<1> QED
  BY <1>0, <1>2, AnewMoves

LEMMA OpenMoves ==
    ASSUME Table, NEW p \in Processes, Open(p)
    PROVE  Becomes(p, "check", 1, {}, "none")
<1>1. [Anew("closed", "none") EXCEPT !.pc = "check"] = Anew("check", "none")
  BY DEF Anew
<1> QED
  BY <1>1, FreshIsAnew, AnewMoves DEF Open

LEMMA DeathMoves ==
    ASSUME Table, NEW p \in Processes, Dies(p)
    PROVE  Becomes(p, "closed", 1, {}, "none")
  BY FreshIsAnew, AnewMoves DEF Dies
LEMMA StepMoves ==
    ASSUME Table, NEW p \in Processes, NEW n \in Steps(proc[p].pc),
           proc' = [proc EXCEPT ![p].step = n]
    PROVE  Becomes(p, proc[p].pc, n, proc[p].seen, proc[p].result)
<1> DEFINE r == [proc[p] EXCEPT !.step = n]
<1>1. proc' = [proc EXCEPT ![p] = r] /\ proc = [q \in Processes |-> proc[q]] /\ IsProc(proc[p])
  BY DEF Table
<1>2. /\ r = [pc |-> r.pc, step |-> r.step, seen |-> r.seen, rows |-> r.rows, head |-> r.head,
              sequence |-> r.sequence, listed |-> r.listed, result |-> r.result]
      /\ r.pc = proc[p].pc /\ r.step = n /\ r.seen = proc[p].seen /\ r.result = proc[p].result
  BY <1>1 DEF IsProc
<1> HIDE DEF r
<1>3. proc'[p] = r /\ Moved(p)
  BY <1>1 DEF Moved
<1> QED
  BY <1>1, <1>2, <1>3 DEF Becomes, IsProc

LEMMA SeenMoves ==
    ASSUME Table, NEW p \in Processes, NEW s, proc' = [proc EXCEPT ![p].seen = s]
    PROVE  Becomes(p, proc[p].pc, proc[p].step, s, proc[p].result)
<1> DEFINE r == [proc[p] EXCEPT !.seen = s]
<1>1. proc' = [proc EXCEPT ![p] = r] /\ proc = [q \in Processes |-> proc[q]] /\ IsProc(proc[p])
  BY DEF Table
<1>2. /\ r = [pc |-> r.pc, step |-> r.step, seen |-> r.seen, rows |-> r.rows, head |-> r.head,
              sequence |-> r.sequence, listed |-> r.listed, result |-> r.result]
      /\ r.pc = proc[p].pc /\ r.step = proc[p].step /\ r.seen = s /\ r.result = proc[p].result
  BY <1>1 DEF IsProc
<1> HIDE DEF r
<1>3. proc'[p] = r /\ Moved(p)
  BY <1>1 DEF Moved
<1> QED
  BY <1>1, <1>2, <1>3 DEF Becomes, IsProc

LEMMA ListMoves ==
    ASSUME Table, NEW p \in Processes, ListColumns(p)
    PROVE  Becomes(p, "alter", ChainStep, columns, proc[p].result)
<1> DEFINE a == [proc[p] EXCEPT !.pc = "alter"]
           r == [a EXCEPT !.seen = columns]
<1>1. proc = [q \in Processes |-> proc[q]] /\ IsProc(proc[p]) /\ proc[p].step = ChainStep
  BY DEF Table, ListColumns
<1>0. proc' = [proc EXCEPT ![p] = r]
  BY <1>1 DEF ListColumns
<1>2. a = [pc |-> "alter", step |-> proc[p].step, seen |-> proc[p].seen, rows |-> proc[p].rows,
           head |-> proc[p].head, sequence |-> proc[p].sequence, listed |-> proc[p].listed,
           result |-> proc[p].result]
  BY <1>1 DEF IsProc
<1> HIDE DEF a
<1>3. r = [pc |-> "alter", step |-> proc[p].step, seen |-> columns, rows |-> proc[p].rows,
           head |-> proc[p].head, sequence |-> proc[p].sequence, listed |-> proc[p].listed,
           result |-> proc[p].result]
  BY <1>2
<1> HIDE DEF r
<1>4. proc'[p] = r /\ Moved(p)
  BY <1>0, <1>1 DEF Moved
<1> QED
  BY <1>1, <1>3, <1>4 DEF Becomes, IsProc, Steps, OpeningPcs

LEMMA NumberMoves ==
    ASSUME Table, NEW p \in Processes, CheckpointNumbers(p)
    PROVE  /\ Becomes(p, "sign", proc[p].step, proc[p].seen, proc[p].result)
           /\ proc'[p].rows = proc[p].rows /\ proc'[p].head = proc[p].head
           /\ proc'[p].sequence = Len(events)
<1> DEFINE a == [proc[p] EXCEPT !.pc = "sign"]
           r == [a EXCEPT !.sequence = Len(events)]
<1>1. proc = [q \in Processes |-> proc[q]] /\ IsProc(proc[p]) /\ proc[p].step \in Steps("sequence")
  BY DEF Table, CheckpointNumbers, At, IsProc
<1>0. proc' = [proc EXCEPT ![p] = r]
  BY <1>1 DEF CheckpointNumbers
<1>2. a = [pc |-> "sign", step |-> proc[p].step, seen |-> proc[p].seen, rows |-> proc[p].rows,
           head |-> proc[p].head, sequence |-> proc[p].sequence, listed |-> proc[p].listed,
           result |-> proc[p].result]
  BY <1>1 DEF IsProc
<1> HIDE DEF a
<1>3. r = [pc |-> "sign", step |-> proc[p].step, seen |-> proc[p].seen, rows |-> proc[p].rows,
           head |-> proc[p].head, sequence |-> Len(events), listed |-> proc[p].listed,
           result |-> proc[p].result]
  BY <1>2
<1> HIDE DEF r
<1>4. proc'[p] = r /\ Moved(p)
  BY <1>0, <1>1 DEF Moved
<1> QED
  BY <1>1, <1>3, <1>4 DEF Becomes, IsProc, Steps, OpenedPcs

LEMMA ListingMoves ==
    ASSUME Table, NEW p \in Processes, VerifierLists(p)
    PROVE  Becomes(p, "walk", proc[p].step, proc[p].seen, proc[p].result)
<1> DEFINE all == {<<s, checkpoints[s]>> : s \in {t \in Positions : checkpoints[t] # None}}
           a == [proc[p] EXCEPT !.pc = "walk"]
           r == [a EXCEPT !.listed = all]
<1>1. proc = [q \in Processes |-> proc[q]] /\ IsProc(proc[p]) /\ proc[p].step \in Steps("ready")
  BY DEF Table, VerifierLists, At, IsProc
<1>0. proc' = [proc EXCEPT ![p] = r]
  BY <1>1 DEF VerifierLists
<1> HIDE DEF all
<1>2. a = [pc |-> "walk", step |-> proc[p].step, seen |-> proc[p].seen, rows |-> proc[p].rows,
           head |-> proc[p].head, sequence |-> proc[p].sequence, listed |-> proc[p].listed,
           result |-> proc[p].result]
  BY <1>1 DEF IsProc
<1> HIDE DEF a
<1>3. r = [pc |-> "walk", step |-> proc[p].step, seen |-> proc[p].seen, rows |-> proc[p].rows,
           head |-> proc[p].head, sequence |-> proc[p].sequence, listed |-> all,
           result |-> proc[p].result]
  BY <1>2
<1> HIDE DEF r
<1>4. proc'[p] = r /\ Moved(p)
  BY <1>0, <1>1 DEF Moved
<1> QED
  BY <1>1, <1>3, <1>4 DEF Becomes, IsProc, Steps, OpenedPcs

LEMMA WalkMoves ==
    ASSUME Table, NEW p \in Processes, NEW next \in {"issued", "verdict"}, Walk(p, next), WalkVerifies,
           proc[p].pc \in OpenedPcs
    PROVE  /\ Becomes(p, next, proc[p].step, proc[p].seen, proc[p].result)
           /\ proc'[p].rows = Len(events) /\ proc'[p].head = LastLink
<1> DEFINE a == [proc[p] EXCEPT !.pc = next]
           b == [a EXCEPT !.rows = Len(events)]
           r == [b EXCEPT !.head = LastLink]
<1>1. proc = [q \in Processes |-> proc[q]] /\ IsProc(proc[p]) /\ proc[p].step \in Steps(next)
  BY DEF Table, IsProc, Steps, OpenedPcs
<1>0. proc' = [proc EXCEPT ![p] = r]
  BY <1>1 DEF Walk
<1>2. a = [pc |-> next, step |-> proc[p].step, seen |-> proc[p].seen, rows |-> proc[p].rows,
           head |-> proc[p].head, sequence |-> proc[p].sequence, listed |-> proc[p].listed,
           result |-> proc[p].result]
  BY <1>1 DEF IsProc
<1> HIDE DEF a
<1>3. b = [pc |-> next, step |-> proc[p].step, seen |-> proc[p].seen, rows |-> Len(events),
           head |-> proc[p].head, sequence |-> proc[p].sequence, listed |-> proc[p].listed,
           result |-> proc[p].result]
  BY <1>2
<1> HIDE DEF b
<1>4. r = [pc |-> next, step |-> proc[p].step, seen |-> proc[p].seen, rows |-> Len(events),
           head |-> LastLink, sequence |-> proc[p].sequence, listed |-> proc[p].listed,
           result |-> proc[p].result]
  BY <1>3
<1> HIDE DEF r
<1>5. proc'[p] = r /\ Moved(p)
  BY <1>0, <1>1 DEF Moved
<1> QED
  BY <1>1, <1>4, <1>5 DEF Becomes, IsProc, OpenedPcs
-----------------------------------------------------------------------------
(* The chain is kept.                                                      *)

LEMMA ChainIsTable == ChainInv => Table
  BY DEF ChainInv, Table, Local

LEMMA LinkedLogVerifies ==
    ASSUME LogShape, Linked
    PROVE  WalkVerifies /\ LastLink = History(Len(events))
<1>1. DOMAIN events = 1..Len(events) /\ Len(events) \in Nat
  BY DEF LogShape
<1>2. ASSUME NEW i \in DOMAIN events
      PROVE  /\ events[i].previous = History(i - 1) /\ events[i].link = History(i)
             /\ i # 1 => i - 1 \in DOMAIN events
  BY <1>1, <1>2 DEF Linked
<1>3. WalkVerifies
  BY <1>1, <1>2, HistoryGrows, NoneIsEmpty DEF WalkVerifies
<1>4. LastLink = History(Len(events))
  <2>1. CASE events = <<>>
    BY <2>1, NoneIsEmpty DEF LastLink
  <2>2. CASE events # <<>>
    BY <1>1, <1>2, <2>2 DEF LastLink, LogShape
  <2> QED
    BY <2>1, <2>2
<1> QED
  BY <1>3, <1>4

(* A step that leaves the log and the checkpoints alone.                   *)
LEMMA QuietStepsKeepChain ==
    ASSUME ChainInv, NEW p \in Processes, Moved(p), IsProc(proc[p])', UNCHANGED <<events, checkpoints>>,
           version' \in 0..SchemaVersion, version' >= ChainStep => Linked,
           PastChain(proc[p])' => Linked, ReadsPrefix(proc[p])', proc'[p].result # "broken"
    PROVE  ChainInv'
<1>1. Linked <=> Linked'
  BY DEF Linked, History
<1>2. ASSUME NEW q \in Processes PROVE Local(proc[q])'
  <2>1. CASE q = p
    BY <1>1, <2>1 DEF Local
  <2>2. CASE q # p
    <3>1. proc'[q] = proc[q] /\ Local(proc[q])
      BY <2>2 DEF Moved, ChainInv
    <3> QED
      BY <1>1, <3>1 DEF Local, IsProc, Steps, PastChain, ReadsPrefix, History
  <2> QED
    BY <2>1, <2>2
<1>3. CheckpointNamesAHead'
  BY DEF ChainInv, CheckpointNamesAHead, History, Positions
<1> QED
  BY <1>1, <1>2, <1>3 DEF ChainInv, LogShape, Moved

(* A step of an open, or one that closes the handle or answers.            *)
LEMMA OpeningKeepsChain ==
    ASSUME ChainInv, NEW p \in Processes, NEW pc, NEW step, NEW seen, NEW result,
           Becomes(p, pc, step, seen, result), UNCHANGED <<events, checkpoints>>,
           pc \notin ReadingPcs, result # "broken",
           version' \in 0..SchemaVersion, version' >= ChainStep => Linked,
           PastChain([pc |-> pc, step |-> step]) => Linked
    PROVE  ChainInv'
<1>1. ReadsPrefix(proc[p])'
  BY DEF Becomes, ReadsPrefix, ReadingPcs
<1>2. PastChain(proc[p])' => Linked
  BY DEF Becomes, PastChain
<1> QED
  BY <1>1, <1>2, QuietStepsKeepChain DEF Becomes

LEMMA BatchKeepsChain ==
    ASSUME ChainInv, NEW p \in Processes, At(p, "apply"), RunBatch(p, proc[p].step),
           proc[p].step # ChainStep, UNCHANGED <<events, checkpoints>>
    PROVE  ChainInv'
<1>1. /\ Table /\ IsProc(proc[p]) /\ proc[p].step \in 1..SchemaVersion /\ proc[p].result # "broken"
      /\ proc[p].step > ChainStep => Linked
  BY ChainIsTable DEF At, ChainInv, Local, IsProc, Steps, PastChain, OpeningPcs
<1>2. Becomes(p, "check", proc[p].step + 1, proc[p].seen, proc[p].result) /\ version' = proc[p].step
  BY <1>1, NextStepMoves DEF RunBatch
<1>3. version' >= ChainStep => Linked
  BY <1>1, <1>2 DEF ChainStep, SchemaVersion
<1>4. PastChain([pc |-> "check", step |-> proc[p].step + 1]) => Linked
  BY <1>1 DEF PastChain, OpenedPcs, ChainStep, SchemaVersion
<1>5. "check" \notin ReadingPcs /\ version' \in 0..SchemaVersion
  BY <1>1, <1>2 DEF ReadingPcs, SchemaVersion
<1> QED
  BY <1>1, <1>2, <1>3, <1>4, <1>5, OpeningKeepsChain

(* The steps that change the log.                                          *)
LEMMA AppendKeepsChain ==
    ASSUME ChainInv, NEW p \in Processes, AppendEvent(p)
    PROVE  ChainInv'
<1> DEFINE n == Len(events)
           row == [previous |-> LastLink, link |-> LinkHash(LastLink, n + 1)]
<1>1. Linked /\ LogShape /\ n \in Nat /\ n < MaxEvents
  BY DEF AppendEvent, At, ChainInv, Local, PastChain, OpenedPcs, LogShape
<1>2. row = [previous |-> History(n), link |-> History(n + 1)]
  BY <1>1, LinkedLogVerifies, HistoryGrows
<1>3. row \in Rows
  BY <1>1, <1>2, HistoryIsSequence DEF Rows
<1>4. events' = Append(events, row)
  BY DEF AppendEvent
<1> HIDE DEF row
<1>5. /\ events' \in Seq(Rows) /\ Len(events') = n + 1 /\ DOMAIN events' = 1..(n+1)
      /\ \A i \in 1..n : events'[i] = events[i]
      /\ events'[n + 1] = row
  BY <1>1, <1>3, <1>4 DEF LogShape
<1>6. Linked'
  <2>1. \A i \in 1..(n+1) : events'[i] = [previous |-> History(i - 1), link |-> History(i)]
    <3> SUFFICES ASSUME NEW i \in 1..(n+1)
                 PROVE  events'[i] = [previous |-> History(i - 1), link |-> History(i)]
      OBVIOUS
    <3>1. CASE i \in 1..n
      BY <1>1, <1>5, <3>1 DEF Linked, LogShape
    <3>2. CASE i = n + 1
      BY <1>1, <1>2, <1>5, <3>2
    <3> QED
      BY <1>1, <3>1, <3>2
  <2> QED
    BY <1>5, <2>1 DEF Linked, History
<1>7. LogShape'
  BY <1>1, <1>5, StoreAssumption DEF LogShape, AppendEvent, schema
<1>8. ASSUME NEW q \in Processes PROVE Local(proc[q])'
  <2>1. Local(proc[q]) /\ proc' = proc
    BY DEF ChainInv, AppendEvent
  <2>2. ReadsPrefix(proc[q])'
    BY <1>1, <1>5, <2>1 DEF Local, ReadsPrefix, History
  <2> QED
    BY <1>6, <2>1, <2>2 DEF Local, IsProc, Steps
<1>9. CheckpointNamesAHead'
  BY <1>1, <1>5 DEF ChainInv, CheckpointNamesAHead, AppendEvent, History, Positions
<1> QED
  BY <1>6, <1>7, <1>8, <1>9 DEF ChainInv, AppendEvent

LEMMA BackfillKeepsChain ==
    ASSUME ChainInv, NEW p \in Processes, Backfill(p)
    PROVE  ChainInv'
<1> DEFINE n == Len(events)
<1>1. LogShape /\ n \in Nat /\ DOMAIN events = 1..n /\ events \in Seq(Rows)
  BY DEF ChainInv, LogShape
<1>2. events' = [i \in 1..n |-> [previous |-> History(i - 1), link |-> History(i)]]
  BY <1>1, BackfillLinks DEF Backfill
<1>3. \A i \in 1..n : [previous |-> History(i - 1), link |-> History(i)] \in Rows
  <2> SUFFICES ASSUME NEW i \in 1..n PROVE [previous |-> History(i - 1), link |-> History(i)] \in Rows
    OBVIOUS
  <2>1. History(i - 1) \in Seq(Nat) /\ History(i) \in Seq(Nat)
    BY HistoryIsSequence
  <2> QED
    BY <2>1 DEF Rows
<1>4. events' \in Seq(Rows) /\ Len(events') = n /\ DOMAIN events' = 1..n
  BY <1>1, <1>2, <1>3
<1>5. Linked'
  <2>1. \A i \in 1..n : events'[i] = [previous |-> History(i - 1), link |-> History(i)]
    BY <1>2
  <2> QED
    BY <1>4, <2>1 DEF Linked, History
<1>6. LogShape'
  BY <1>1, <1>4 DEF LogShape, Backfill, schema
<1>7. Table /\ proc[p].step = ChainStep
  BY ChainIsTable DEF ChainInv, Local, IsProc, Steps, Backfill, At
<1>8. Becomes(p, "stamp", proc[p].step, proc[p].seen, proc[p].result)
  <2>1. proc[p].step \in Steps("stamp")
    BY <1>7 DEF Steps
  <2> QED
    BY <1>7, <2>1, GotoMoves DEF Backfill, OpeningPcs
<1>9. ASSUME NEW q \in Processes PROVE Local(proc[q])'
  <2>1. CASE q = p
    <3>1. ReadsPrefix(proc[q])' /\ IsProc(proc[q])' /\ proc'[q].result # "broken"
      BY <1>8, <2>1 DEF Becomes, ReadsPrefix, ReadingPcs, ChainInv, Local
    <3> QED
      BY <1>5, <3>1 DEF Local
  <2>2. CASE q # p
    <3>1. proc'[q] = proc[q] /\ Local(proc[q])
      BY <1>8, <2>2 DEF Becomes, Moved, ChainInv
    <3>2. ReadsPrefix(proc[q])'
      BY <1>1, <1>4, <3>1 DEF Local, ReadsPrefix, History
    <3> QED
      BY <1>5, <3>1, <3>2 DEF Local, IsProc, Steps
  <2> QED
    BY <2>1, <2>2
<1>10. CheckpointNamesAHead'
  BY <1>1, <1>4 DEF ChainInv, CheckpointNamesAHead, Backfill, History, Positions
<1> QED
  BY <1>5, <1>6, <1>8, <1>9, <1>10 DEF ChainInv, Backfill, Becomes, Moved
LEMMA ChainInitially == StoreInit => ChainInv
<1> SUFFICES ASSUME StoreInit PROVE ChainInv
  OBVIOUS
<1>1. version \in 0..SchemaVersion
  BY StoreAssumption DEF StoreInit
<1>2. PICK n \in 0..(MaxEvents - 1) :
        events = [i \in 1..n |-> IF version >= ChainStep
                                 THEN [previous |-> History(i - 1), link |-> History(i)]
                                 ELSE [previous |-> None, link |-> None]]
  BY DEF StoreInit
<1>3. \A i \in 1..n : /\ [previous |-> History(i - 1), link |-> History(i)] \in Rows
                      /\ [previous |-> None, link |-> None] \in Rows
  <2> SUFFICES ASSUME NEW i \in 1..n
               PROVE  /\ [previous |-> History(i - 1), link |-> History(i)] \in Rows
                      /\ [previous |-> None, link |-> None] \in Rows
    OBVIOUS
  <2>1. History(i - 1) \in Seq(Nat) /\ History(i) \in Seq(Nat) /\ None \in Seq(Nat)
    BY HistoryIsSequence DEF None
  <2> QED
    BY <2>1 DEF Rows
<1>4. events \in Seq(Rows) /\ Len(events) = n /\ DOMAIN events = 1..n
  BY <1>2, <1>3
<1>5. version >= ChainStep => Linked
  BY <1>2, <1>4 DEF Linked
<1>6. LogShape
  BY <1>1, <1>4, StoreAssumption DEF LogShape
<1>7. ASSUME NEW p \in Processes PROVE Local(proc[p])
  <2>1. proc[p] = Anew("closed", "none")
    BY FreshIsAnew DEF StoreInit
  <2> HIDE DEF StoreInit
  <2>2. /\ proc[p].pc = "closed" /\ proc[p].step = 1 /\ proc[p].result = "none"
        /\ proc[p] = [pc |-> proc[p].pc, step |-> proc[p].step, seen |-> proc[p].seen,
                      rows |-> proc[p].rows, head |-> proc[p].head, sequence |-> proc[p].sequence,
                      listed |-> proc[p].listed, result |-> proc[p].result]
    BY <2>1 DEF Anew
  <2>3. IsProc(proc[p])
    BY <2>2 DEF IsProc, Steps, SchemaVersion
  <2> QED
    BY <2>2, <2>3 DEF Local, ReadsPrefix, ReadingPcs, PastChain, OpeningPcs, OpenedPcs
<1> QED
  BY <1>5, <1>6, <1>7 DEF StoreInit, ChainInv, CheckpointNamesAHead

(* One step of a process, action by action.                                *)
LEMMA ChainStepOf ==
    ASSUME ChainInv, NEW p \in Processes,
           \/ Open(p) \/ CheckVersion(p) \/ ApplyEnsuring(p) \/ ApplyCreating(p) \/ ApplyFill(p)
           \/ ListColumns(p) \/ AddColumn(p) \/ Backfill(p) \/ Stamp(p)
    PROVE  ChainInv'
<1>0. /\ Table /\ LogShape /\ version \in 0..SchemaVersion /\ Local(proc[p]) /\ IsProc(proc[p])
      /\ version >= ChainStep => Linked
  BY ChainIsTable DEF ChainInv, LogShape, Local
<1>r. proc[p].result # "broken" /\ (PastChain(proc[p]) => Linked)
  BY <1>0 DEF Local
<1>a. UNCHANGED schema => version' = version
  BY DEF schema
<1>b. \A pc \in {"closed", "check", "apply", "alter", "backfill", "stamp", "ready", "walk"} :
         pc \notin ReadingPcs
  BY DEF ReadingPcs
<1>c. \A pc \in {"closed", "check", "alter", "apply"} : ~PastChain([pc |-> pc, step |-> 1])
  BY DEF PastChain, OpenedPcs, OpeningPcs, ChainStep
<1>1. CASE Open(p)
  BY <1>0, <1>1, <1>a, <1>b, <1>c, OpenMoves, OpeningKeepsChain DEF Open
<1>2. CASE CheckVersion(p)
  <2> DEFINE k == proc[p].step
  <2>1. k \in 1..(SchemaVersion + 1) /\ proc[p].pc = "check" /\ (k > ChainStep => Linked)
    BY <1>0, <1>2, <1>r DEF CheckVersion, At, IsProc, Steps, PastChain, OpeningPcs
  <2>2. version' = version /\ UNCHANGED <<events, checkpoints>>
    BY <1>2, <1>a DEF CheckVersion
  <2>3. CASE Refused(p)
    BY <1>0, <1>b, <1>c, <2>2, <2>3, RefusedMoves, OpeningKeepsChain
  <2>4. CASE k > SchemaVersion /\ Return(p, "none")
    <3>1. Linked
      BY <2>1, <2>4 DEF ChainStep, SchemaVersion
    <3> QED
      BY <1>0, <1>b, <2>2, <2>4, <3>1, ReturnMoves, OpeningKeepsChain
  <2>5. CASE k <= SchemaVersion /\ Goto(p, "apply")
    <3>1. k \in Steps("apply") /\ "apply" \in OpeningPcs
      BY <2>1, <2>5 DEF Steps, SchemaVersion, OpeningPcs
    <3>2. Becomes(p, "apply", k, proc[p].seen, proc[p].result)
      BY <1>0, <2>5, <3>1, GotoMoves
    <3>3. PastChain([pc |-> "apply", step |-> k]) => Linked
      BY <2>1 DEF PastChain, OpenedPcs
    <3> QED
      BY <1>0, <1>b, <1>r, <2>2, <3>2, <3>3, OpeningKeepsChain
  <2>6. CASE k <= SchemaVersion /\ version >= k /\ proc' = [proc EXCEPT ![p].step = k + 1]
    <3>1. k + 1 \in Steps(proc[p].pc)
      BY <2>1, <2>6 DEF Steps, SchemaVersion
    <3>2. Becomes(p, "check", k + 1, proc[p].seen, proc[p].result)
      BY <1>0, <2>1, <2>6, <3>1, StepMoves
    <3>3. PastChain([pc |-> "check", step |-> k + 1]) => Linked
      BY <1>0, <2>1, <2>6 DEF PastChain, OpenedPcs, ChainStep, SchemaVersion
    <3> QED
      BY <1>0, <1>b, <1>r, <2>2, <3>2, <3>3, OpeningKeepsChain
  <2> QED
    BY <1>2, <2>3, <2>4, <2>5, <2>6 DEF CheckVersion
<1>3. CASE ApplyEnsuring(p)
  <2>1. proc[p].step # ChainStep
    BY <1>3 DEF ApplyEnsuring, EnsuringSteps, ChainStep
  <2> QED
    BY <1>3, <2>1, BatchKeepsChain DEF ApplyEnsuring
<1>4. CASE ApplyCreating(p)
  <2>1. proc[p].step # ChainStep
    BY <1>4 DEF ApplyCreating, CreatingSteps, ChainStep
  <2>2. CASE RunBatch(p, proc[p].step)
    BY <1>4, <2>1, <2>2, BatchKeepsChain DEF ApplyCreating
  <2>3. CASE Refused(p) /\ version' = version
    BY <1>0, <1>4, <1>b, <1>c, <2>3, RefusedMoves, OpeningKeepsChain DEF ApplyCreating
  <2> QED
    BY <1>4, <2>2, <2>3 DEF ApplyCreating
<1>5. CASE ApplyFill(p)
  <2>1. Becomes(p, "stamp", FillStep, proc[p].seen, proc[p].result)
    <3>1. proc[p].step = FillStep /\ FillStep \in Steps("stamp") /\ "stamp" \in OpeningPcs
      BY <1>5 DEF ApplyFill, Steps, OpeningPcs
    <3> QED
      BY <1>0, <1>5, <3>1, GotoMoves DEF ApplyFill
  <2>2. Linked
    BY <1>5, <1>r DEF ApplyFill, At, PastChain, OpeningPcs, ChainStep, FillStep
  <2> QED
    BY <1>0, <1>5, <1>a, <1>b, <1>r, <2>1, <2>2, OpeningKeepsChain DEF ApplyFill
<1>6. CASE ListColumns(p)
  <2>1. ~PastChain([pc |-> "alter", step |-> ChainStep])
    BY DEF PastChain, OpenedPcs, ChainStep
  <2> QED
    BY <1>0, <1>6, <1>a, <1>b, <1>r, <2>1, ListMoves, OpeningKeepsChain DEF ListColumns
<1>7. CASE AddColumn(p)
  <2>1. proc[p].pc = "alter" /\ proc[p].step = ChainStep /\ version' = version
        /\ UNCHANGED <<events, checkpoints>>
    BY <1>0, <1>7 DEF AddColumn, At, IsProc, Steps
  <2>2. CASE Refused(p)
    BY <1>0, <1>b, <1>c, <2>1, <2>2, RefusedMoves, OpeningKeepsChain
  <2>3. CASE \E c : proc' = [proc EXCEPT ![p].seen = @ \cup {c}]
    <3>1. PICK c : proc' = [proc EXCEPT ![p].seen = @ \cup {c}]
      BY <2>3
    <3> DEFINE s == proc[p].seen \cup {c}
    <3>2. proc' = [proc EXCEPT ![p].seen = s]
      BY <1>0, <3>1 DEF Table
    <3> HIDE DEF s
    <3>3. Becomes(p, "alter", ChainStep, s, proc[p].result)
      BY <1>0, <2>1, <3>2, SeenMoves
    <3>4. ~PastChain([pc |-> "alter", step |-> ChainStep])
      BY DEF PastChain, OpenedPcs, ChainStep
    <3> QED
      BY <1>0, <1>b, <1>r, <2>1, <3>3, <3>4, OpeningKeepsChain
  <2>4. CASE Goto(p, "backfill")
    <3>1. ChainStep \in Steps("backfill") /\ "backfill" \in OpeningPcs
      BY DEF Steps, OpeningPcs
    <3>2. Becomes(p, "backfill", ChainStep, proc[p].seen, proc[p].result)
      BY <1>0, <2>1, <2>4, <3>1, GotoMoves
    <3>3. ~PastChain([pc |-> "backfill", step |-> ChainStep])
      BY DEF PastChain, OpenedPcs, ChainStep
    <3> QED
      BY <1>0, <1>b, <1>r, <2>1, <3>2, <3>3, OpeningKeepsChain
  <2> QED
    BY <1>7, <2>2, <2>3, <2>4 DEF AddColumn
<1>8. CASE Backfill(p)
  BY <1>8, BackfillKeepsChain
<1>9. CASE Stamp(p)
  <2>1. proc[p].step \in {ChainStep, FillStep} /\ Linked
    BY <1>0, <1>9, <1>r DEF Stamp, At, IsProc, Steps, PastChain
  <2>2. proc[p].step \in 1..SchemaVersion
    BY <2>1 DEF ChainStep, FillStep, SchemaVersion
  <2>3. Becomes(p, "check", proc[p].step + 1, proc[p].seen, proc[p].result)
    BY <1>0, <1>9, <2>2, NextStepMoves DEF Stamp
  <2>4. version' \in 0..SchemaVersion
    BY <1>9, <2>2 DEF Stamp, SchemaVersion
  <2> QED
    BY <1>9, <1>b, <1>r, <2>1, <2>3, <2>4, OpeningKeepsChain DEF Stamp
<1> QED
  BY <1>1, <1>2, <1>3, <1>4, <1>5, <1>6, <1>7, <1>8, <1>9
LEMMA ChainReadBy ==
    ASSUME ChainInv, NEW p \in Processes,
           \/ CheckpointWalks(p) \/ CheckpointCompares(p) \/ CheckpointNumbers(p)
           \/ VerifierLists(p) \/ VerifierWalks(p) \/ VerifierConcludes(p) \/ Dies(p)
    PROVE  ChainInv'
<1>0. /\ Table /\ LogShape /\ version \in 0..SchemaVersion /\ Local(proc[p]) /\ IsProc(proc[p])
      /\ version >= ChainStep => Linked
  BY ChainIsTable DEF ChainInv, LogShape, Local
<1>r. proc[p].result # "broken" /\ ReadsPrefix(proc[p]) /\ (proc[p].pc \in OpenedPcs => Linked)
  BY <1>0 DEF Local, PastChain
<1>a. version' = version /\ UNCHANGED <<events, checkpoints>>
  BY DEF CheckpointWalks, CheckpointCompares, CheckpointNumbers, VerifierLists, VerifierWalks,
     VerifierConcludes, Dies, schema
<1>n. Len(events) \in Nat
  BY <1>0 DEF LogShape
<1>1. ASSUME NEW result \in {"removed", "verified", "mismatch"}, Return(p, result), proc[p].pc \in OpenedPcs
      PROVE  ChainInv'
  <2>1. "ready" \notin ReadingPcs /\ result # "broken"
    BY DEF ReadingPcs
  <2> QED
    BY <1>0, <1>1, <1>a, <1>r, <2>1, ReturnMoves, OpeningKeepsChain
<1>2. ASSUME NEW next \in {"issued", "verdict"}, Walk(p, next), proc[p].pc \in OpenedPcs,
             next = "issued" => events # <<>>
      PROVE  ChainInv'
  <2>1. Linked /\ WalkVerifies /\ LastLink = History(Len(events))
    BY <1>0, <1>2, <1>r, LinkedLogVerifies
  <2>2. /\ Becomes(p, next, proc[p].step, proc[p].seen, proc[p].result)
        /\ proc'[p].rows = Len(events) /\ proc'[p].head = History(Len(events))
    BY <1>0, <1>2, <2>1, WalkMoves
  <2>3. next = "issued" => Len(events) >= 1
    BY <1>0, <1>2, <1>n DEF LogShape
  <2>4. ReadsPrefix(proc[p])'
    BY <1>2, <1>a, <1>n, <2>2, <2>3 DEF Becomes, ReadsPrefix, ReadingPcs, History
  <2> QED
    BY <1>0, <1>a, <1>r, <2>1, <2>2, <2>4, QuietStepsKeepChain DEF Becomes
<1>3. CASE CheckpointWalks(p)
  BY <1>2, <1>3 DEF CheckpointWalks, At, OpenedPcs
<1>4. CASE CheckpointCompares(p)
  <2>1. proc[p].pc = "issued" /\ proc[p].pc \in OpenedPcs
    BY <1>4 DEF CheckpointCompares, At, OpenedPcs
  <2>2. CASE Return(p, "removed")
    BY <1>1, <2>1, <2>2
  <2>3. CASE Goto(p, "sequence")
    <3>1. proc[p].step \in Steps("sequence") /\ "sequence" \in OpenedPcs
      BY <1>0, <2>1 DEF IsProc, Steps, OpenedPcs
    <3>2. /\ Becomes(p, "sequence", proc[p].step, proc[p].seen, proc[p].result)
          /\ proc'[p].rows = proc[p].rows /\ proc'[p].head = proc[p].head
      BY <1>0, <2>3, <3>1, GotoMoves
    <3>3. ReadsPrefix(proc[p])'
      BY <1>a, <1>r, <2>1, <3>2 DEF Becomes, ReadsPrefix, ReadingPcs, History
    <3> QED
      BY <1>0, <1>a, <1>r, <2>1, <3>2, <3>3, QuietStepsKeepChain DEF Becomes
  <2> QED
    BY <1>4, <2>2, <2>3 DEF CheckpointCompares
<1>5. CASE CheckpointNumbers(p)
  <2>1. proc[p].pc = "sequence" /\ proc[p].pc \in OpenedPcs
    BY <1>5 DEF CheckpointNumbers, At, OpenedPcs
  <2>2. /\ Becomes(p, "sign", proc[p].step, proc[p].seen, proc[p].result)
        /\ proc'[p].rows = proc[p].rows /\ proc'[p].head = proc[p].head
        /\ proc'[p].sequence = Len(events)
    BY <1>0, <1>5, NumberMoves
  <2>3. ReadsPrefix(proc[p])'
    BY <1>a, <1>n, <1>r, <2>1, <2>2 DEF Becomes, ReadsPrefix, ReadingPcs, History
  <2> QED
    BY <1>0, <1>a, <1>r, <2>1, <2>2, <2>3, QuietStepsKeepChain DEF Becomes
<1>6. CASE VerifierLists(p)
  <2>1. proc[p].pc \in OpenedPcs /\ "walk" \notin ReadingPcs
    BY <1>6 DEF VerifierLists, At, OpenedPcs, ReadingPcs
  <2> QED
    BY <1>0, <1>6, <1>a, <1>r, <2>1, ListingMoves, OpeningKeepsChain
<1>7. CASE VerifierWalks(p)
  BY <1>2, <1>7 DEF VerifierWalks, At, OpenedPcs
<1>8. CASE VerifierConcludes(p)
  BY <1>1, <1>8 DEF VerifierConcludes, At, OpenedPcs
<1>9. CASE Dies(p)
  <2>1. "closed" \notin ReadingPcs /\ ~PastChain([pc |-> "closed", step |-> 1])
    BY DEF ReadingPcs, PastChain, OpenedPcs, OpeningPcs
  <2> QED
    BY <1>0, <1>9, <1>a, <2>1, DeathMoves, OpeningKeepsChain
<1> QED
  BY <1>3, <1>4, <1>5, <1>6, <1>7, <1>8, <1>9

LEMMA SigningKeepsChain ==
    ASSUME ChainInv, NEW p \in Processes, CheckpointSigns(p)
    PROVE  ChainInv'
<1> DEFINE s == proc[p].sequence
           k == proc[p].rows
<1>1. /\ Table /\ LogShape /\ Linked /\ Len(events) \in Nat
      /\ k \in 1..Len(events) /\ proc[p].head = History(k) /\ s \in k..Len(events)
  <2>1. Local(proc[p]) /\ proc[p].pc = "sign" /\ LogShape
    BY DEF ChainInv, CheckpointSigns, At
  <2> QED
    BY <2>1, ChainIsTable DEF Local, PastChain, OpenedPcs, ReadsPrefix, ReadingPcs, LogShape
<1>2. UNCHANGED <<version, events>> /\ checkpoints' = [checkpoints EXCEPT ![s] = History(k)]
  BY <1>1 DEF CheckpointSigns, schema
<1>3. Becomes(p, "ready", 1, {}, "signed")
  BY <1>1, ReturnMoves DEF CheckpointSigns
<1>4. LogShape' /\ Linked'
  BY <1>1, <1>2 DEF LogShape, Linked, History
<1>5. ASSUME NEW q \in Processes PROVE Local(proc[q])'
  <2>1. CASE q = p
    BY <1>3, <1>4, <2>1 DEF Becomes, Local, ReadsPrefix, ReadingPcs
  <2>2. CASE q # p
    <3>1. proc'[q] = proc[q] /\ Local(proc[q])
      BY <1>3, <2>2 DEF Becomes, Moved, ChainInv
    <3> QED
      BY <1>2, <1>4, <3>1 DEF Local, IsProc, Steps, ReadsPrefix, History
  <2> QED
    BY <2>1, <2>2
<1>6. s \in Positions /\ k \in 1..s /\ s <= Len(events)
  BY <1>1, StoreAssumption DEF Positions, LogShape
<1>7. checkpoints' = [t \in Positions |-> checkpoints'[t]] /\ checkpoints'[s] = History(k)
      /\ \A t \in Positions \ {s} : checkpoints'[t] = checkpoints[t]
  BY <1>2, <1>6 DEF ChainInv
<1>8. CheckpointNamesAHead'
  <2> SUFFICES ASSUME NEW t \in Positions, checkpoints'[t] # None
               PROVE  t <= Len(events) /\ \E j \in 1..t : checkpoints'[t] = History(j)
    BY <1>2 DEF CheckpointNamesAHead, Positions, History, None
  <2>1. CASE t = s
    BY <1>6, <1>7, <2>1
  <2>2. CASE t # s
    BY <1>7, <2>2 DEF ChainInv, CheckpointNamesAHead
  <2> QED
    BY <2>1, <2>2
<1> QED
  BY <1>3, <1>4, <1>5, <1>7, <1>8 DEF ChainInv, Becomes, Moved, Positions

LEMMA ChainKept == ChainInv /\ [StoreStep]_storeVars => ChainInv'
<1> SUFFICES ASSUME ChainInv, [StoreStep]_storeVars PROVE ChainInv'
  OBVIOUS
<1>1. CASE UNCHANGED storeVars
  BY <1>1 DEF storeVars, ChainInv, LogShape, Linked, Local, IsProc, Steps, PastChain, ReadsPrefix,
     CheckpointNamesAHead, History, Positions
<1>2. CASE StoreStep
  <2>1. PICK p \in Processes :
          \/ Open(p) \/ CheckVersion(p) \/ ApplyEnsuring(p) \/ ApplyCreating(p) \/ ApplyFill(p)
          \/ ListColumns(p) \/ AddColumn(p) \/ Backfill(p) \/ Stamp(p)
          \/ AppendEvent(p)
          \/ CheckpointWalks(p) \/ CheckpointCompares(p) \/ CheckpointNumbers(p) \/ CheckpointSigns(p)
          \/ VerifierLists(p) \/ VerifierWalks(p) \/ VerifierConcludes(p)
          \/ Dies(p)
    BY <1>2 DEF StoreStep
  <2> QED
    BY <2>1, ChainStepOf, ChainReadBy, AppendKeepsChain, SigningKeepsChain
<1> QED
  BY <1>1, <1>2

(* The chain's invariant holds of every behaviour of the store (store.rs   *)
(* migrate, append_event, walk_event_chain; checkpoint.rs).                *)
THEOREM ChainInvariant == StoreSpec => []ChainInv
  BY ChainInitially, ChainKept, PTL DEF StoreSpec

(* A process whose store is open finds every event linked to the whole     *)
(* history before it, whatever opens, crashes and appends came before      *)
(* (store.rs add_event_chain_columns, backfill_event_chain, append_event). *)
THEOREM ChainHasNoGap == StoreSpec => []LinksCoverHistory
<1>1. ChainInv => LinksCoverHistory
  BY DEF ChainInv, Local, IsProc, PastChain, OpeningPcs, OpenedPcs, LinksCoverHistory, Linked, At, Opening
<1> QED
  BY <1>1, ChainInvariant, PTL

(* No walk over a log nobody altered reports a broken link (store.rs       *)
(* walk_event_chain).                                                      *)
THEOREM WalksFindNoBreak == StoreSpec => []NoFalseBreak
<1>1. ChainInv => NoFalseBreak
  BY DEF ChainInv, Local, NoFalseBreak
<1> QED
  BY <1>1, ChainInvariant, PTL

(* A checkpoint pins a head the log had at its sequence or before it,      *)
(* never one it had not yet reached (store.rs write_checkpoint).  That it  *)
(* pins the head at that very sequence is not true of the code             *)
(* (CheckpointIsTheHead).                                                  *)
THEOREM CheckpointsPinHeads == StoreSpec => []CheckpointNamesAHead
<1>1. ChainInv => CheckpointNamesAHead
  BY DEF ChainInv
<1> QED
  BY <1>1, ChainInvariant, PTL
-----------------------------------------------------------------------------
(* An open that overlaps no other is not refused.                          *)

OthersDone(p) == \A q \in Processes \ {p} : ~Opening(q)

LEMMA LoneStep ==
    ASSUME Table, LoneInv, ~contended, NEW p \in Processes,
           NEW pc, NEW step, NEW seen, NEW result,
           Becomes(p, pc, step, seen, result), result # "refused",
           pc \in OpeningPcs => OthersDone(p) /\ step <= version' + 1,
           pc \in AtWork => version' = step - 1,
           pc = "alter" => seen = columns',
           UNCHANGED <<version, columns>> \/ OthersDone(p),
           objects' \cap CreatingSteps = {k \in CreatingSteps : k <= version'}
    PROVE  LoneInv'
<1>1. \A q \in Processes : Opening(q) <=> proc[q].pc \in OpeningPcs
  BY DEF Opening, OpeningPcs
<1>2. \A q \in Processes : Opening(q)' <=> proc'[q].pc \in OpeningPcs
  BY DEF Opening, OpeningPcs
<1>3. proc'[p].pc = pc /\ proc'[p].step = step /\ proc'[p].seen = seen /\ proc'[p].result = result
      /\ \A q \in Processes \ {p} : proc'[q] = proc[q]
  BY DEF Becomes, Moved
<1>4. ASSUME NEW q \in Processes, NEW r \in Processes, Opening(q)', Opening(r)' PROVE q = r
  BY <1>1, <1>2, <1>3, <1>4 DEF LoneInv, OthersDone
<1>5. ASSUME NEW q \in Processes PROVE Unrefused(proc[q])'
  <2>1. CASE q = p
    BY <1>3, <2>1 DEF Unrefused
  <2>2. CASE q # p /\ proc[q].pc \in OpeningPcs
    <3>1. version' = version /\ columns' = columns /\ Unrefused(proc[q]) /\ proc'[q] = proc[q]
      BY <1>1, <1>3, <2>2 DEF LoneInv, OthersDone
    <3> QED
      BY <3>1 DEF Unrefused
  <2>3. CASE q # p /\ proc[q].pc \notin OpeningPcs
    <3>1. Unrefused(proc[q]) /\ proc'[q] = proc[q]
      BY <1>3, <2>3 DEF LoneInv
    <3> QED
      BY <2>3, <3>1 DEF Unrefused, OpeningPcs, AtWork
  <2> QED
    BY <2>1, <2>2, <2>3
<1> QED
  BY <1>4, <1>5 DEF LoneInv

LEMMA LoneFacts ==
    ASSUME ChainInv, LoneInv, ~contended, NEW p \in Processes
    PROVE  /\ Table /\ version \in 0..SchemaVersion
           /\ proc[p].pc \in {"closed"} \cup OpeningPcs \cup OpenedPcs /\ proc[p].step \in Steps(proc[p].pc)
           /\ Unrefused(proc[p]) /\ proc[p].result # "refused"
           /\ objects \cap CreatingSteps = {k \in CreatingSteps : k <= version}
           /\ proc[p].pc \in OpeningPcs => OthersDone(p)
  BY ChainIsTable DEF ChainInv, LogShape, Local, IsProc, LoneInv, Unrefused, OthersDone, Opening, OpeningPcs

LEMMA LoneBatch ==
    ASSUME ChainInv, LoneInv, ~contended, NEW p \in Processes, At(p, "apply"),
           RunBatch(p, proc[p].step)
    PROVE  LoneInv'
<1> DEFINE k == proc[p].step
<1>1. /\ Table /\ k \in 1..SchemaVersion /\ version = k - 1 /\ proc[p].result # "refused" /\ OthersDone(p)
      /\ objects \cap CreatingSteps = {j \in CreatingSteps : j <= version}
  BY LoneFacts DEF At, Steps, Unrefused, OpeningPcs, AtWork
<1>2. Becomes(p, "check", k + 1, proc[p].seen, proc[p].result) /\ version' = k /\ objects' = objects \cup {k}
  BY <1>1, NextStepMoves DEF RunBatch
<1>3. objects' \cap CreatingSteps = {j \in CreatingSteps : j <= version'}
  BY <1>1, <1>2 DEF CreatingSteps, SchemaVersion
<1>4. "check" \notin AtWork /\ "check" # "alter" /\ k + 1 <= version' + 1
  BY <1>1, <1>2 DEF AtWork, SchemaVersion
<1> QED
  BY <1>1, <1>2, <1>3, <1>4, LoneStep

LEMMA LoneOpening ==
    ASSUME ChainInv, LoneInv, ~contended, ~contended', NEW p \in Processes,
           \/ Open(p) \/ CheckVersion(p) \/ ApplyEnsuring(p) \/ ApplyCreating(p) \/ ApplyFill(p)
           \/ ListColumns(p) \/ AddColumn(p) \/ Backfill(p) \/ Stamp(p)
    PROVE  LoneInv'
<1>0. /\ Table /\ version \in 0..SchemaVersion
      /\ proc[p].step \in Steps(proc[p].pc) /\ Unrefused(proc[p]) /\ proc[p].result # "refused"
      /\ objects \cap CreatingSteps = {k \in CreatingSteps : k <= version}
      /\ proc[p].pc \in OpeningPcs => OthersDone(p)
  BY LoneFacts
<1>a. UNCHANGED schema => version' = version /\ objects' = objects /\ columns' = columns
  BY DEF schema
<1>b. /\ "check" \notin AtWork /\ "ready" \notin AtWork /\ "ready" \notin OpeningPcs
      /\ {"check", "apply", "alter", "backfill", "stamp"} = OpeningPcs
      /\ {"apply", "alter", "backfill", "stamp"} = AtWork
  BY DEF AtWork, OpeningPcs
<1>1. CASE Open(p)
  <2>1. OthersDone(p)
    BY <1>1 DEF Open, OthersDone
  <2>2. 1 <= version' + 1 /\ UNCHANGED <<version, columns, objects>>
    BY <1>0, <1>1, <1>a DEF Open, SchemaVersion
  <2> QED
    BY <1>0, <1>1, <1>b, <2>1, <2>2, OpenMoves, LoneStep
<1>2. CASE CheckVersion(p)
  <2> DEFINE k == proc[p].step
  <2>1. k \in 1..(SchemaVersion + 1) /\ proc[p].pc = "check" /\ OthersDone(p) /\ k <= version + 1
    BY <1>0, <1>2, <1>b DEF CheckVersion, At, Steps, Unrefused
  <2>2. UNCHANGED <<version, columns, objects>>
    BY <1>2, <1>a DEF CheckVersion
  <2>3. CASE k > SchemaVersion /\ Return(p, "none")
    BY <1>0, <1>b, <2>2, <2>3, ReturnMoves, LoneStep
  <2>4. ~(k > SchemaVersion /\ version # SchemaVersion)
    BY <1>0, <2>1 DEF SchemaVersion
  <2>5. CASE k <= SchemaVersion /\ version < k /\ Goto(p, "apply")
    <3>1. k \in Steps("apply") /\ version = k - 1
      BY <1>0, <2>1, <2>5 DEF Steps, SchemaVersion
    <3>2. Becomes(p, "apply", k, proc[p].seen, proc[p].result)
      BY <1>0, <1>b, <2>5, <3>1, GotoMoves
    <3>3. k <= version' + 1 /\ version' = k - 1
      BY <2>1, <2>2, <3>1
    <3> QED
      BY <1>0, <2>1, <2>2, <3>2, <3>3, LoneStep
  <2>6. CASE k <= SchemaVersion /\ version >= k /\ proc' = [proc EXCEPT ![p].step = k + 1]
    <3>1. k + 1 \in Steps(proc[p].pc) /\ k + 1 <= version' + 1
      BY <1>0, <2>1, <2>2, <2>6 DEF Steps, SchemaVersion
    <3>2. Becomes(p, "check", k + 1, proc[p].seen, proc[p].result)
      BY <1>0, <2>1, <2>6, <3>1, StepMoves
    <3> QED
      BY <1>0, <1>b, <2>1, <2>2, <3>1, <3>2, LoneStep
  <2> QED
    BY <1>2, <2>3, <2>4, <2>5, <2>6 DEF CheckVersion
<1>3. CASE ApplyEnsuring(p)
  BY <1>3, LoneBatch DEF ApplyEnsuring
<1>4. CASE ApplyCreating(p)
  <2>1. proc[p].step \notin objects
    <3>1. version = proc[p].step - 1 /\ proc[p].step \in CreatingSteps
      BY <1>0, <1>4 DEF ApplyCreating, At, Unrefused, AtWork
    <3> QED
      BY <1>0, <3>1 DEF CreatingSteps
  <2> QED
    BY <1>4, <2>1, LoneBatch DEF ApplyCreating
<1>5. CASE ApplyFill(p)
  <2>1. Becomes(p, "stamp", proc[p].step, proc[p].seen, proc[p].result)
    <3>1. proc[p].step \in Steps("stamp")
      BY <1>5 DEF ApplyFill, Steps
    <3> QED
      BY <1>0, <1>5, <1>b, <3>1, GotoMoves DEF ApplyFill
  <2>2. UNCHANGED <<version, columns, objects>> /\ version = proc[p].step - 1 /\ OthersDone(p)
    BY <1>0, <1>5, <1>a, <1>b DEF ApplyFill, At, Unrefused
  <2>3. proc[p].step <= version' + 1 /\ version' = proc[p].step - 1
    BY <1>5, <2>2 DEF ApplyFill, FillStep
  <2> QED
    BY <1>0, <2>1, <2>2, <2>3, LoneStep
<1>6. CASE ListColumns(p)
  <2>1. UNCHANGED <<version, columns, objects>> /\ version = ChainStep - 1 /\ OthersDone(p)
    BY <1>0, <1>6, <1>a, <1>b DEF ListColumns, At, Unrefused
  <2>2. ChainStep <= version' + 1 /\ version' = ChainStep - 1
    BY <2>1 DEF ChainStep
  <2> QED
    BY <1>0, <1>6, <2>1, <2>2, ListMoves, LoneStep
<1>7. CASE AddColumn(p)
  <2>1. /\ proc[p].pc = "alter" /\ proc[p].step = ChainStep /\ proc[p].seen = columns
        /\ UNCHANGED <<version, objects>> /\ version = ChainStep - 1 /\ OthersDone(p)
    BY <1>0, <1>7, <1>b DEF AddColumn, At, Steps, Unrefused
  <2>2. ChainStep <= version' + 1 /\ version' = ChainStep - 1
    BY <2>1 DEF ChainStep
  <2>3. ASSUME NEW c, columns' = columns \cup {c}, proc' = [proc EXCEPT ![p].seen = @ \cup {c}]
        PROVE  LoneInv'
    <3> DEFINE s == proc[p].seen \cup {c}
    <3>1. proc' = [proc EXCEPT ![p].seen = s] /\ s = columns'
      BY <1>0, <2>1, <2>3 DEF Table
    <3> HIDE DEF s
    <3>2. Becomes(p, "alter", ChainStep, s, proc[p].result)
      BY <1>0, <2>1, <3>1, SeenMoves
    <3> QED
      BY <1>0, <2>1, <2>2, <3>1, <3>2, LoneStep
  <2>4. CASE Goto(p, "backfill") /\ UNCHANGED columns
    <3>1. ChainStep \in Steps("backfill")
      BY DEF Steps
    <3>2. Becomes(p, "backfill", ChainStep, proc[p].seen, proc[p].result)
      BY <1>0, <1>b, <2>1, <2>4, <3>1, GotoMoves
    <3> QED
      BY <1>0, <2>1, <2>2, <2>4, <3>2, LoneStep
  <2> QED
    BY <1>7, <2>1, <2>3, <2>4 DEF AddColumn
<1>8. CASE Backfill(p)
  <2>1. UNCHANGED <<version, columns, objects>> /\ version = ChainStep - 1 /\ OthersDone(p)
        /\ proc[p].step = ChainStep
    BY <1>0, <1>8, <1>a, <1>b DEF Backfill, At, Steps, Unrefused
  <2>2. ChainStep <= version' + 1 /\ version' = ChainStep - 1
    BY <2>1 DEF ChainStep
  <2>3. ChainStep \in Steps("stamp")
    BY DEF Steps
  <2>4. Becomes(p, "stamp", ChainStep, proc[p].seen, proc[p].result)
    BY <1>0, <1>8, <1>b, <2>1, <2>3, GotoMoves DEF Backfill
  <2> QED
    BY <1>0, <2>1, <2>2, <2>4, LoneStep
<1>9. CASE Stamp(p)
  <2>1. proc[p].step \in {ChainStep, FillStep} /\ version = proc[p].step - 1 /\ OthersDone(p)
    BY <1>0, <1>9, <1>b DEF Stamp, At, Steps, Unrefused
  <2>2. proc[p].step \in 1..SchemaVersion /\ proc[p].step + 1 <= version' + 1
    BY <1>9, <2>1 DEF Stamp, ChainStep, FillStep, SchemaVersion
  <2>3. Becomes(p, "check", proc[p].step + 1, proc[p].seen, proc[p].result)
    BY <1>0, <1>9, <2>2, NextStepMoves DEF Stamp
  <2>4. objects' \cap CreatingSteps = {k \in CreatingSteps : k <= version'}
    BY <1>0, <1>9, <2>1 DEF Stamp, ChainStep, FillStep, CreatingSteps
  <2> QED
    BY <1>0, <1>b, <2>1, <2>2, <2>3, <2>4, LoneStep
<1> QED
  BY <1>1, <1>2, <1>3, <1>4, <1>5, <1>6, <1>7, <1>8, <1>9

(* A process whose store is open, or that dies, opens nothing.             *)
LEMMA LoneReading ==
    ASSUME ChainInv, LoneInv, ~contended, NEW p \in Processes,
           \/ CheckpointWalks(p) \/ CheckpointCompares(p) \/ CheckpointNumbers(p) \/ CheckpointSigns(p)
           \/ VerifierLists(p) \/ VerifierWalks(p) \/ VerifierConcludes(p) \/ Dies(p)
    PROVE  LoneInv'
<1>0. /\ Table /\ proc[p].step \in Steps(proc[p].pc) /\ proc[p].result # "refused"
      /\ objects \cap CreatingSteps = {k \in CreatingSteps : k <= version}
  BY LoneFacts
<1>a. UNCHANGED <<version, objects, columns>>
  BY DEF CheckpointWalks, CheckpointCompares, CheckpointNumbers, CheckpointSigns, VerifierLists,
     VerifierWalks, VerifierConcludes, Dies, schema
<1>1. ASSUME NEW pc \in OpenedPcs \cup {"closed"}, NEW step, NEW seen, NEW result,
             Becomes(p, pc, step, seen, result), result # "refused"
      PROVE  LoneInv'
  <2>1. pc \notin OpeningPcs /\ pc \notin AtWork /\ pc # "alter"
    BY <1>1 DEF OpeningPcs, OpenedPcs, AtWork
  <2> QED
    BY <1>0, <1>1, <1>a, <2>1, LoneStep
<1>b. {"ready", "issued", "sequence", "sign", "walk", "verdict"} = OpenedPcs
  BY DEF OpenedPcs
<1>2. ASSUME NEW result, result # "refused", Return(p, result) PROVE LoneInv'
  BY <1>0, <1>1, <1>2, <1>b, ReturnMoves
<1>3. ASSUME NEW next \in {"issued", "verdict"}, Walk(p, next), proc[p].pc \in OpenedPcs
      PROVE  LoneInv'
  <2>1. CASE WalkVerifies
    BY <1>0, <1>1, <1>3, <1>b, <2>1, WalkMoves
  <2>2. CASE ~WalkVerifies
    BY <1>2, <1>3, <2>2 DEF Walk
  <2> QED
    BY <2>1, <2>2
<1>4. CASE CheckpointWalks(p) \/ VerifierWalks(p)
  BY <1>3, <1>4, <1>b DEF CheckpointWalks, VerifierWalks, At
<1>5. CASE CheckpointCompares(p)
  <2>1. CASE Goto(p, "sequence")
    <3>1. proc[p].step \in Steps("sequence")
      BY <1>0, <1>5 DEF CheckpointCompares, At, Steps
    <3>2. Becomes(p, "sequence", proc[p].step, proc[p].seen, proc[p].result)
      BY <1>0, <1>b, <2>1, <3>1, GotoMoves
    <3> QED
      BY <1>0, <1>1, <1>b, <3>2
  <2> QED
    BY <1>2, <1>5, <2>1 DEF CheckpointCompares
<1>6. CASE CheckpointNumbers(p)
  BY <1>0, <1>1, <1>6, <1>b, NumberMoves
<1>7. CASE CheckpointSigns(p) \/ VerifierConcludes(p)
  BY <1>2, <1>7 DEF CheckpointSigns, VerifierConcludes
<1>8. CASE VerifierLists(p)
  BY <1>0, <1>1, <1>8, <1>b, ListingMoves
<1>9. CASE Dies(p)
  BY <1>0, <1>1, <1>9, DeathMoves
<1> QED
  BY <1>4, <1>5, <1>6, <1>7, <1>8, <1>9

LEMMA LoneInitially == StoreInit => LoneInv
<1> SUFFICES ASSUME StoreInit PROVE LoneInv
  OBVIOUS
<1>1. version \in 0..SchemaVersion /\ objects = 1..version \ {ChainStep, FillStep}
  BY StoreAssumption DEF StoreInit
<1>2. objects \cap CreatingSteps = {k \in CreatingSteps : k <= version}
  BY <1>1 DEF CreatingSteps, ChainStep, FillStep, SchemaVersion
<1>3. ASSUME NEW p \in Processes PROVE proc[p].pc = "closed" /\ proc[p].result = "none"
  BY DEF StoreInit, Fresh
<1> QED
  BY <1>2, <1>3 DEF LoneInv, Unrefused, Opening, OpeningPcs, AtWork

LEMMA LoneKept == ChainInv /\ LoneInv /\ [StoreStep]_storeVars => LoneInv'
<1> SUFFICES ASSUME ChainInv, LoneInv, [StoreStep]_storeVars PROVE LoneInv'
  OBVIOUS
<1>1. CASE UNCHANGED storeVars
  BY <1>1 DEF storeVars, LoneInv, Unrefused, Opening
<1>2. CASE StoreStep
  <2>1. PICK p \in Processes :
          \/ Open(p) \/ CheckVersion(p) \/ ApplyEnsuring(p) \/ ApplyCreating(p) \/ ApplyFill(p)
          \/ ListColumns(p) \/ AddColumn(p) \/ Backfill(p) \/ Stamp(p)
          \/ AppendEvent(p)
          \/ CheckpointWalks(p) \/ CheckpointCompares(p) \/ CheckpointNumbers(p) \/ CheckpointSigns(p)
          \/ VerifierLists(p) \/ VerifierWalks(p) \/ VerifierConcludes(p)
          \/ Dies(p)
    BY <1>2 DEF StoreStep
  <2>2. CASE contended'
    BY <2>2 DEF LoneInv
  <2>3. ~contended' => ~contended
    BY <2>1 DEF Open, CheckVersion, ApplyEnsuring, ApplyCreating, ApplyFill, ListColumns, AddColumn,
       Backfill, Stamp, AppendEvent, CheckpointWalks, CheckpointCompares, CheckpointNumbers,
       CheckpointSigns, VerifierLists, VerifierWalks, VerifierConcludes, Dies
  <2>4. CASE AppendEvent(p)
    BY <2>4 DEF AppendEvent, schema, LoneInv, Unrefused, Opening
  <2> QED
    BY <2>1, <2>2, <2>3, <2>4, LoneOpening, LoneReading
<1> QED
  BY <1>1, <1>2

(* While no two opens overlap no open is refused, wherever earlier ones    *)
(* were cut off (store.rs migrate).                                        *)
THEOREM LoneOpensSucceed == StoreSpec => []LoneOpenSucceeds
<1>1. LoneInv => LoneOpenSucceeds
  BY DEF LoneInv, Unrefused, LoneOpenSucceeds
<1> QED
  BY <1>1, ChainInvariant, LoneInitially, LoneKept, PTL DEF StoreSpec

-----------------------------------------------------------------------------
(* The audit log: sequences and the records of a file.                     *)

IsSeq(s) == \E S : s \in Seq(S)

LEMMA SeqFacts ==
    ASSUME NEW s, IsSeq(s)
    PROVE  Len(s) \in Nat /\ DOMAIN s = 1..Len(s)
  BY DEF IsSeq

LEMMA EmptySequence == IsSeq(<<>>) /\ Len(<<>>) = 0
<1>1. <<>> \in Seq({})
  OBVIOUS
<1> QED
  BY <1>1 DEF IsSeq

LEMMA MakeSeq ==
    ASSUME NEW n \in Nat, NEW s, s = [i \in 1..n |-> s[i]]
    PROVE  IsSeq(s) /\ Len(s) = n
<1>1. s \in Seq({s[i] : i \in 1..n}) /\ Len(s) = n
  OBVIOUS
<1> QED
  BY <1>1 DEF IsSeq

LEMMA AppendIs ==
    ASSUME NEW s, IsSeq(s), NEW e
    PROVE  /\ IsSeq(Append(s, e)) /\ Len(Append(s, e)) = Len(s) + 1
           /\ \A i \in 1..Len(s) : Append(s, e)[i] = s[i]
           /\ Append(s, e)[Len(s) + 1] = e
<1>1. PICK S : s \in Seq(S)
  BY DEF IsSeq
<1>2. s \in Seq(S \cup {e}) /\ Append(s, e) \in Seq(S \cup {e})
  BY <1>1
<1> QED
  BY <1>1, <1>2 DEF IsSeq

LEMMA PrefixIs ==
    ASSUME NEW s, IsSeq(s), NEW n \in 0..Len(s)
    PROVE  /\ IsSeq(SubSeq(s, 1, n)) /\ Len(SubSeq(s, 1, n)) = n
           /\ \A i \in 1..n : SubSeq(s, 1, n)[i] = s[i]
<1>1. PICK S : s \in Seq(S)
  BY DEF IsSeq
<1>2. SubSeq(s, 1, n) \in Seq(S)
  BY <1>1
<1> QED
  BY <1>1, <1>2 DEF IsSeq

LEMMA SameSeq ==
    ASSUME NEW s, NEW u, IsSeq(s), IsSeq(u), Len(s) = Len(u), \A i \in 1..Len(s) : s[i] = u[i]
    PROVE  s = u
<1>1. PICK S : s \in Seq(S)
  BY DEF IsSeq
<1>2. PICK U : u \in Seq(U)
  BY DEF IsSeq
<1>3. s \in Seq(S \cup U) /\ u \in Seq(S \cup U)
  BY <1>1, <1>2
<1> QED
  BY <1>3

(* Places of a file of n pieces, counted from its start.                   *)
Places(P, n) == n \in Nat /\ \A i \in P : i \in Int /\ 1 <= i /\ i <= n

LEMMA PlacesAreFinite ==
    ASSUME NEW n, NEW P, Places(P, n)
    PROVE  IsFiniteSet(P) /\ Cardinality(P) \in Nat
<1>1. n \in Nat /\ P \subseteq 1..n
  BY DEF Places
<1>2. IsFiniteSet(1..n)
  BY <1>1, FS_Interval
<1> QED
  BY <1>1, <1>2, FS_Subset, FS_CardinalityType

LEMMA FewerPlaces ==
    ASSUME NEW n, NEW P, Places(P, n), NEW Q, Q \subseteq P
    PROVE  Places(Q, n)
  BY DEF Places

LEMMA RankType ==
    ASSUME NEW n, NEW P, Places(P, n), NEW i \in Int
    PROVE  /\ IsFiniteSet(P) /\ Cardinality(P) \in Nat
           /\ rank(P, i) \in 0..Cardinality(P)
           /\ i >= n => rank(P, i) = Cardinality(P)
<1>2. IsFiniteSet(P)
  BY PlacesAreFinite
<1> DEFINE Q == {j \in P : j <= i}
<1>3. Q \subseteq P
  OBVIOUS
<1>4. IsFiniteSet(Q) /\ Cardinality(Q) <= Cardinality(P)
  <2> HIDE DEF Q
  <2> QED
    BY <1>2, <1>3, FS_Subset
<1>5. Cardinality(P) \in Nat /\ Cardinality(Q) \in Nat
  BY <1>2, <1>4, FS_CardinalityType
<1>6. i >= n => Q = P
  BY DEF Places
<1> QED
  BY <1>2, <1>4, <1>5, <1>6 DEF rank

LEMMA RankGrows ==
    ASSUME NEW n, NEW P, Places(P, n), NEW i \in Int, NEW j \in P, i < j
    PROVE  rank(P, i) < rank(P, j)
<1> DEFINE Q == {m \in P : m <= i}
           U == {m \in P : m <= j}
<1>0. j \in Int
  BY DEF Places
<1>1. IsFiniteSet(P)
  BY PlacesAreFinite
<1>2. U \subseteq P /\ Q \subseteq U \ {j} /\ j \in U
  <2>1. \A m \in P : m <= i => m <= j /\ m # j
    BY <1>0 DEF Places
  <2>2. j \in U
    BY <1>0
  <2>3. Q \subseteq U \ {j}
    BY <2>1
  <2> QED
    BY <2>2, <2>3
<1>3. IsFiniteSet(U) /\ IsFiniteSet(U \ {j}) /\ Cardinality(U \ {j}) = Cardinality(U) - 1
  <2> HIDE DEF U
  <2> QED
    BY <1>1, <1>2, FS_Subset, FS_RemoveElement
<1>4. Cardinality(Q) <= Cardinality(U \ {j})
  <2> HIDE DEF U, Q
  <2> QED
    BY <1>2, <1>3, FS_Subset
<1>5. rank(P, i) = Cardinality(Q) /\ rank(P, j) = Cardinality(U)
  BY DEF rank
<1>6. Cardinality(Q) \in Nat /\ Cardinality(U) \in Nat
  BY <1>0, <1>5, RankType
<1> QED
  BY <1>3, <1>4, <1>5, <1>6

(* The least prefix with so many places ends in one of them.               *)
LEMMA RankOnto ==
    ASSUME NEW n, NEW P, Places(P, n), NEW k \in 1..Cardinality(P)
    PROVE  \E i \in P : rank(P, i) = k
<1>0. Cardinality(P) \in Nat /\ IsFiniteSet(P) /\ n \in Nat
  BY PlacesAreFinite DEF Places
<1> DEFINE T == {m \in 0..n : rank(P, m) >= k}
<1>1. n \in T
  BY <1>0, RankType
<1>2. PICK m \in T : \A q \in T : m <= q
  <2>1. T \subseteq Nat /\ T # {}
    BY <1>1
  <2> HIDE DEF T
  <2> QED
    BY <2>1, LeastNatural
<1>3. m \in 0..n /\ m \in Int /\ rank(P, m) >= k
  OBVIOUS
<1>4. rank(P, 0) = 0
  <2>1. {j \in P : j <= 0} = {}
    BY DEF Places
  <2> QED
    BY <2>1, FS_EmptySet DEF rank
<1>5. m # 0
  BY <1>0, <1>3, <1>4
<1>6. m - 1 \in 0..n /\ m - 1 \notin T
  BY <1>0, <1>2, <1>3, <1>5
<1>7. rank(P, m - 1) \in Nat /\ rank(P, m) \in Nat /\ rank(P, m - 1) < k
  BY <1>0, <1>3, <1>6, RankType
<1> DEFINE Q == {j \in P : j <= m - 1}
<1>9. m \in P
  <2>1. SUFFICES ASSUME m \notin P PROVE FALSE
    OBVIOUS
  <2>2. {j \in P : j <= m} = Q
    BY <1>3, <2>1 DEF Places
  <2> QED
    BY <1>3, <1>7, <2>2 DEF rank
<1>10. rank(P, m) = rank(P, m - 1) + 1
  <2>0. m \notin Q /\ Q \subseteq P
    BY <1>3
  <2>1. \A j \in P : j <= m <=> j <= m - 1 \/ j = m
    BY <1>3 DEF Places
  <2>3. {j \in P : j <= m} = Q \cup {m}
    BY <1>9, <2>1
  <2>2. Cardinality(Q \cup {m}) = Cardinality(Q) + 1
    <3> HIDE DEF Q
    <3> QED
      BY <1>0, <2>0, FS_Subset, FS_AddElement
  <2> QED
    BY <2>2, <2>3 DEF rank
<1> QED
  BY <1>0, <1>3, <1>7, <1>9, <1>10

LEMMA InOrderIs ==
    ASSUME NEW n, NEW P, Places(P, n), NEW f
    PROVE  /\ IsSeq(inOrder(f, P)) /\ Len(inOrder(f, P)) = Cardinality(P)
           /\ \A i \in P : /\ rank(P, i) \in 1..Cardinality(P)
                           /\ inOrder(f, P)[rank(P, i)] = f[i]
<1>1. Cardinality(P) \in Nat
  BY PlacesAreFinite
<1>2. inOrder(f, P) = [k \in 1..Cardinality(P) |-> inOrder(f, P)[k]]
  BY DEF inOrder
<1>3. ASSUME NEW i \in P
      PROVE  rank(P, i) \in 1..Cardinality(P) /\ inOrder(f, P)[rank(P, i)] = f[i]
  <2>1. i \in Int /\ 0 < i
    BY DEF Places
  <2>2. rank(P, i) \in 0..Cardinality(P) /\ rank(P, 0) \in 0..Cardinality(P)
    BY <2>1, RankType
  <2>3. rank(P, 0) < rank(P, i)
    BY <2>1, RankGrows
  <2>4. rank(P, i) \in 1..Cardinality(P)
    BY <1>1, <2>2, <2>3
  <2> DEFINE j == CHOOSE j \in P : rank(P, j) = rank(P, i)
  <2>5. j \in P /\ rank(P, j) = rank(P, i)
    OBVIOUS
  <2>6. j = i
    <3> HIDE DEF j
    <3>1. j \in Int
      BY <2>5 DEF Places
    <3>2. rank(P, i) \in Int
      BY <2>4, <1>1
    <3>3. ~(j < i) /\ ~(i < j)
      BY <2>1, <2>5, <3>1, <3>2, RankGrows
    <3> QED
      BY <2>1, <3>1, <3>3
  <2>7. inOrder(f, P)[rank(P, i)] = f[j]
    BY <2>4 DEF inOrder
  <2> QED
    BY <2>4, <2>6, <2>7
<1> HIDE DEF inOrder
<1>4. IsSeq(inOrder(f, P)) /\ Len(inOrder(f, P)) = Cardinality(P)
  BY <1>1, <1>2, MakeSeq
<1> QED
  BY <1>3, <1>4

(* A file and a part of it from its start agree on the records of the part.*)
LEMMA InOrderAgrees ==
    ASSUME NEW n, NEW P, Places(P, n), NEW m \in Int, NEW f, NEW g,
           \A i \in P : i <= m => f[i] = g[i],
           NEW k \in 1..rank(P, m)
    PROVE  /\ k \in 1..Cardinality(P)
           /\ inOrder(f, P)[k] = inOrder(g, {i \in P : i <= m})[k]
<1> DEFINE Q == {i \in P : i <= m}
<1>1. Places(Q, n) /\ Q \subseteq P
  BY DEF Places
<1>2. rank(P, m) = Cardinality(Q)
  BY DEF rank
<1>3. PICK i \in Q : rank(Q, i) = k
  <2> HIDE DEF Q
  <2> QED
    BY <1>1, <1>2, RankOnto
<1>4. i \in P /\ i <= m /\ i \in Int
  BY DEF Places
<1>5. rank(P, i) = rank(Q, i)
  <2>1. \A j \in P : j \in Int
    BY DEF Places
  <2>2. \A j \in P : j <= i => j <= m
    BY <1>4, <2>1
  <2>3. {j \in P : j <= i} = {j \in Q : j <= i}
    BY <2>2
  <2> QED
    BY <2>3 DEF rank
<1>6. inOrder(f, P)[k] = f[i] /\ k \in 1..Cardinality(P)
  BY <1>3, <1>4, <1>5, InOrderIs
<1>7. inOrder(g, Q)[k] = g[i]
  <2> HIDE DEF Q
  <2> QED
    BY <1>1, <1>3, InOrderIs
<1> QED
  BY <1>4, <1>6, <1>7

-----------------------------------------------------------------------------
(* All the records of a file, those of lines that do not parse included.   *)
Recorded(f) == inOrder(f, written(f))

IsRecord(e) == e \notin {LineEnd, Torn}

LEMMA WrittenPlaces ==
    ASSUME NEW f, IsSeq(f)
    PROVE  Places(written(f), Len(f))
  BY SeqFacts DEF Places, written

LEMMA RecordedIs ==
    ASSUME NEW f, IsSeq(f)
    PROVE  IsSeq(Recorded(f)) /\ Len(Recorded(f)) = Cardinality(written(f))
  BY WrittenPlaces, InOrderIs DEF Recorded

(* A line end or a piece of a record adds no record, a record adds one.    *)
LEMMA OtherAdds ==
    ASSUME NEW f, IsSeq(f), NEW e, e \in {LineEnd, Torn}
    PROVE  written(Append(f, e)) = written(f) /\ Recorded(Append(f, e)) = Recorded(f)
<1> DEFINE g == Append(f, e)
<1>0. IsSeq(g) /\ Len(g) = Len(f) + 1 /\ (\A i \in 1..Len(f) : g[i] = f[i]) /\ g[Len(f) + 1] = e
  BY AppendIs
<1>1. DOMAIN f = 1..Len(f) /\ DOMAIN g = 1..(Len(f) + 1) /\ Len(f) \in Nat
  BY <1>0, SeqFacts
<1> HIDE DEF g
<1>2. written(g) = written(f)
  BY <1>0, <1>1 DEF written
<1>3. \A i \in written(f) : g[i] = f[i]
  BY <1>0, <1>1 DEF written
<1>4. ASSUME NEW k \in 1..Cardinality(written(f))
      PROVE  inOrder(g, written(f))[k] = inOrder(f, written(f))[k]
  <2>1. PICK i \in written(f) : rank(written(f), i) = k
    BY WrittenPlaces, RankOnto
  <2> QED
    BY <1>3, <2>1, WrittenPlaces, InOrderIs
<1>5. Recorded(g) = Recorded(f)
  <2>1. IsSeq(Recorded(g)) /\ IsSeq(Recorded(f)) /\ Len(Recorded(g)) = Len(Recorded(f))
        /\ Len(Recorded(f)) = Cardinality(written(f))
    BY <1>0, <1>2, RecordedIs
  <2>2. \A k \in 1..Len(Recorded(g)) : Recorded(g)[k] = Recorded(f)[k]
    BY <1>2, <1>4, <2>1 DEF Recorded
  <2> QED
    BY <2>1, <2>2, SameSeq
<1> QED
  BY <1>2, <1>5 DEF g

LEMMA RecordAdds ==
    ASSUME NEW f, IsSeq(f), NEW e, IsRecord(e)
    PROVE  /\ written(Append(f, e)) = written(f) \cup {Len(f) + 1}
           /\ Recorded(Append(f, e)) = Append(Recorded(f), e)
<1> DEFINE g == Append(f, e)
           n == Len(f)
<1>0. IsSeq(g) /\ Len(g) = n + 1 /\ (\A i \in 1..n : g[i] = f[i]) /\ g[n + 1] = e
  BY AppendIs
<1>1. DOMAIN f = 1..n /\ DOMAIN g = 1..(n + 1) /\ n \in Nat
  BY <1>0, SeqFacts
<1> HIDE DEF g, n
<1>2. written(g) = written(f) \cup {n + 1}
  BY <1>0, <1>1 DEF written, IsRecord
<1>3. Places(written(f), n) /\ Places(written(g), n + 1)
  BY <1>0, WrittenPlaces DEF n
<1>4. {i \in written(g) : i <= n} = written(f)
  BY <1>1, <1>2, <1>3 DEF Places
<1>5. rank(written(g), n) = Cardinality(written(f)) /\ Cardinality(written(f)) \in Nat
  BY <1>3, <1>4, PlacesAreFinite DEF rank
<1>6. rank(written(g), n + 1) = Cardinality(written(g))
  BY <1>1, <1>3, RankType
<1>7. Cardinality(written(g)) = Cardinality(written(f)) + 1
  <2>1. n + 1 \notin written(f)
    BY <1>1, <1>3 DEF Places
  <2>2. IsFiniteSet(written(f))
    BY <1>3, PlacesAreFinite
  <2> QED
    BY <1>2, <2>1, <2>2, FS_AddElement
<1>8. ASSUME NEW k \in 1..Cardinality(written(f))
      PROVE  Recorded(g)[k] = Recorded(f)[k]
  <2>1. \A i \in written(g) : i <= n => g[i] = f[i]
    BY <1>0, <1>3 DEF Places
  <2>2. inOrder(g, written(g))[k] = inOrder(f, {i \in written(g) : i <= n})[k]
    BY <1>1, <1>3, <1>5, <2>1, InOrderAgrees
  <2> QED
    BY <1>4, <2>2 DEF Recorded
<1>9. Recorded(g)[Cardinality(written(g))] = e
  <2>1. n + 1 \in written(g)
    BY <1>2
  <2>2. inOrder(g, written(g))[rank(written(g), n + 1)] = g[n + 1]
    BY <1>3, <2>1, InOrderIs
  <2> QED
    BY <1>0, <1>6, <2>2 DEF Recorded
<1>10. Recorded(g) = Append(Recorded(f), e)
  <2>1. /\ IsSeq(Recorded(g)) /\ Len(Recorded(g)) = Cardinality(written(g))
        /\ IsSeq(Recorded(f)) /\ Len(Recorded(f)) = Cardinality(written(f))
    BY <1>0, RecordedIs
  <2> DEFINE h == Append(Recorded(f), e)
             c == Cardinality(written(f))
  <2>2. IsSeq(h) /\ Len(h) = c + 1 /\ (\A k \in 1..c : h[k] = Recorded(f)[k]) /\ h[c + 1] = e
    BY <2>1, AppendIs
  <2>3. c \in Nat /\ Cardinality(written(g)) = c + 1
    BY <1>5, <1>7
  <2> HIDE DEF h
  <2>4. \A k \in 1..Len(Recorded(g)) : Recorded(g)[k] = h[k]
    BY <1>8, <1>9, <2>1, <2>2, <2>3
  <2>5. Recorded(g) = h
    BY <2>1, <2>2, <2>3, <2>4, SameSeq
  <2> QED
    BY <2>5 DEF h
<1> QED
  BY <1>2, <1>10 DEF g, n

(* A part of a file from its start has a part of the records.              *)
LEMMA PrefixRecords ==
    ASSUME NEW f, IsSeq(f), NEW n \in 0..Len(f)
    PROVE  LET g == SubSeq(f, 1, n)
               c == rank(written(f), n)
           IN  /\ written(g) = {i \in written(f) : i <= n}
               /\ c \in 0..Len(Recorded(f)) /\ Len(Recorded(g)) = c
               /\ \A k \in 1..c : Recorded(g)[k] = Recorded(f)[k]
<1> DEFINE g == SubSeq(f, 1, n)
           c == rank(written(f), n)
<1>0. IsSeq(g) /\ Len(g) = n /\ \A i \in 1..n : g[i] = f[i]
  BY PrefixIs
<1>1. DOMAIN f = 1..Len(f) /\ DOMAIN g = 1..n /\ Len(f) \in Nat
  BY <1>0, SeqFacts
<1> HIDE DEF g
<1>2. written(g) = {i \in written(f) : i <= n}
  BY <1>0, <1>1 DEF written
<1>3. Places(written(f), Len(f)) /\ n \in Int
  BY <1>1, WrittenPlaces
<1>4. c \in 0..Len(Recorded(f)) /\ Len(Recorded(g)) = c
  <2>1. Len(Recorded(g)) = Cardinality(written(g)) /\ Len(Recorded(f)) = Cardinality(written(f))
    BY <1>0, RecordedIs
  <2>2. rank(written(f), n) \in 0..Cardinality(written(f))
    BY <1>3, RankType
  <2> QED
    BY <1>2, <2>1, <2>2 DEF rank
<1>5. ASSUME NEW k \in 1..c
      PROVE  Recorded(g)[k] = Recorded(f)[k]
  <2>1. \A i \in written(f) : i <= n => f[i] = g[i]
    BY <1>0, <1>1, <1>3 DEF Places
  <2>2. inOrder(f, written(f))[k] = inOrder(g, {i \in written(f) : i <= n})[k]
    BY <1>3, <2>1, InOrderAgrees
  <2> QED
    BY <1>2, <2>2 DEF Recorded
<1> QED
  BY <1>2, <1>4, <1>5 DEF g

(* A file that reads is all its records.                                   *)
LEMMA ReadableRecords ==
    ASSUME NEW f, IsSeq(f), readable(f)
    PROVE  records(f) = Recorded(f)
<1>1. DOMAIN f = 1..Len(f) /\ Len(f) \in Nat
  BY SeqFacts
<1>2. ASSUME NEW i \in written(f)
      PROVE  (i > 1 => f[i - 1] = LineEnd) /\ (i < Len(f) => f[i + 1] = LineEnd)
  <2>1. i \in 1..Len(f) /\ f[i] # LineEnd /\ f[i] # Torn
    BY <1>1 DEF written
  <2>2. i > 1 => f[i - 1] = LineEnd
    BY <1>1, <2>1 DEF readable
  <2>3. ASSUME i < Len(f), f[i + 1] # LineEnd PROVE FALSE
    <3>1. i + 1 \in DOMAIN f /\ i + 1 > 1 /\ (i + 1) - 1 = i
      BY <1>1, <2>1, <2>3
    <3> QED
      BY <2>1, <2>3, <3>1 DEF readable
  <2> QED
    BY <2>2, <2>3
<1>3. {i \in written(f) : (i > 1 => f[i - 1] = LineEnd) /\ (i < Len(f) => f[i + 1] = LineEnd)}
        = written(f)
  BY <1>2
<1> QED
  BY <1>3 DEF records, Recorded

-----------------------------------------------------------------------------
(* What was acknowledged is on the disk and in memory, in its order.       *)
Embeds(a, s, n) ==
    \E at \in [1..Len(a) -> 1..n] :
        /\ \A i \in 1..Len(a) : s[at[i]] = a[i]
        /\ \A i, j \in 1..Len(a) : i < j => at[i] < at[j]

Filed ==
    /\ IsSeq(file) /\ IsSeq(acknowledged) /\ synced \in 0..Len(file)
    /\ writing \in {"idle", "record", "line_end", "sync"}
    /\ state = "up" => IsSeq(chain.entries)
    /\ state # "up" => writing = "idle" /\ signing = Nothing

(* Where the append that holds the lock has got to in the file.            *)
Halfway ==
    /\ writing # "idle" => IsRecord(entry)
    /\ writing = "line_end" => Len(file) > synced /\ file[Len(file)] = entry
    /\ writing = "sync" => Len(file) > synced + 1 /\ file[Len(file) - 1] = entry

Acked ==
    /\ \A i \in 1..Len(acknowledged) : IsRecord(acknowledged[i])
    /\ Embeds(acknowledged, file, synced)
    /\ state = "up" => Embeds(acknowledged, chain.entries, Len(chain.entries))

KeptInv == Filed /\ Halfway /\ Acked

LEMMA KindsDiffer == LineEnd # Torn /\ LineEnd # Nothing /\ Torn # Nothing
<1>1. LineEnd.piece = "line_end" /\ Torn.piece = "torn" /\ Nothing.piece = "nothing"
  BY DEF LineEnd, Torn, Nothing
<1> QED
  BY <1>1

LEMMA EntriesAreRecords ==
    ASSUME NEW s, NEW e, NEW h
    PROVE  /\ IsRecord(Entry(s, e, h))
           /\ Entry(s, e, h).sequence = s /\ Entry(s, e, h).event = e
           /\ Entry(s, e, h).chain_hash = link_hash(s, e, h)
<1>1. /\ Entry(s, e, h).piece = "record"
      /\ Entry(s, e, h).sequence = s /\ Entry(s, e, h).event = e
      /\ Entry(s, e, h).chain_hash = link_hash(s, e, h)
  BY DEF Entry
<1>2. LineEnd.piece = "line_end" /\ Torn.piece = "torn"
  BY DEF LineEnd, Torn
<1> QED
  BY <1>1, <1>2 DEF IsRecord

LEMMA EmbedsFurther ==
    ASSUME NEW a, NEW s, NEW u, NEW n \in Int, NEW m \in Int, n <= m,
           \A i \in 1..n : u[i] = s[i], Embeds(a, s, n)
    PROVE  Embeds(a, u, m)
<1>1. PICK at \in [1..Len(a) -> 1..n] :
          /\ \A i \in 1..Len(a) : s[at[i]] = a[i]
          /\ \A i, j \in 1..Len(a) : i < j => at[i] < at[j]
  BY DEF Embeds
<1>2. at \in [1..Len(a) -> 1..m]
  OBVIOUS
<1>3. \A i \in 1..Len(a) : u[at[i]] = a[i]
  BY <1>1
<1> QED
  BY <1>1, <1>2, <1>3 DEF Embeds

LEMMA EmbedsOne ==
    ASSUME NEW a, IsSeq(a), NEW s, NEW u, NEW n \in Int, NEW m \in Int, NEW p \in Nat, NEW e,
           0 <= n, n < p, p <= m, u[p] = e, \A i \in 1..n : u[i] = s[i], Embeds(a, s, n)
    PROVE  Embeds(Append(a, e), u, m)
<1> DEFINE b == Append(a, e)
           c == Len(a)
<1>0. c \in Nat /\ Len(b) = c + 1 /\ (\A i \in 1..c : b[i] = a[i]) /\ b[c + 1] = e
  BY AppendIs, SeqFacts
<1>1. PICK at \in [1..c -> 1..n] :
          /\ \A i \in 1..c : s[at[i]] = a[i]
          /\ \A i, j \in 1..c : i < j => at[i] < at[j]
  BY DEF Embeds
<1> HIDE DEF b, c
<1> DEFINE by == [i \in 1..(c + 1) |-> IF i = c + 1 THEN p ELSE at[i]]
<1>2. by \in [1..(c + 1) -> 1..m]
  BY <1>0
<1>3. (\A i \in 1..c : by[i] = at[i] /\ at[i] \in 1..n) /\ by[c + 1] = p
  BY <1>0
<1> HIDE DEF by
<1>4. ASSUME NEW i \in 1..(c + 1) PROVE u[by[i]] = b[i]
  <2>1. CASE i = c + 1
    BY <1>0, <1>3, <2>1
  <2>2. CASE i \in 1..c
    BY <1>0, <1>1, <1>3, <2>2
  <2> QED
    BY <1>0, <2>1, <2>2
<1>5. ASSUME NEW i \in 1..(c + 1), NEW j \in 1..(c + 1), i < j PROVE by[i] < by[j]
  <2>0. i \in 1..c
    BY <1>0, <1>5
  <2>1. CASE j = c + 1
    BY <1>3, <2>0, <2>1
  <2>2. CASE j \in 1..c
    BY <1>1, <1>3, <1>5, <2>0, <2>2
  <2> QED
    BY <1>0, <2>1, <2>2
<1>6. Embeds(b, u, m)
  BY <1>0, <1>2, <1>4, <1>5 DEF Embeds
<1> QED
  BY <1>6 DEF b

LEMMA EmbedsInRecords ==
    ASSUME NEW a, NEW f, IsSeq(f), NEW n \in 0..Len(f),
           \A i \in 1..Len(a) : IsRecord(a[i]), Embeds(a, f, n)
    PROVE  Embeds(a, Recorded(f), Len(Recorded(f)))
<1> DEFINE W == written(f)
<1>0. DOMAIN f = 1..Len(f) /\ Len(f) \in Nat /\ Places(W, Len(f))
  BY SeqFacts, WrittenPlaces
<1>1. PICK at \in [1..Len(a) -> 1..n] :
          /\ \A i \in 1..Len(a) : f[at[i]] = a[i]
          /\ \A i, j \in 1..Len(a) : i < j => at[i] < at[j]
  BY DEF Embeds
<1>2. \A i \in 1..Len(a) : at[i] \in W /\ at[i] \in Int
  BY <1>0, <1>1 DEF written, IsRecord
<1>3. Len(Recorded(f)) = Cardinality(W) /\ Cardinality(W) \in Nat
  BY <1>0, RecordedIs, PlacesAreFinite
<1> HIDE DEF W
<1> DEFINE by == [i \in 1..Len(a) |-> rank(W, at[i])]
<1>4. \A i \in 1..Len(a) : rank(W, at[i]) \in 1..Cardinality(W)
                           /\ Recorded(f)[rank(W, at[i])] = f[at[i]]
  BY <1>0, <1>2, InOrderIs DEF Recorded, W
<1>5. by \in [1..Len(a) -> 1..Len(Recorded(f))]
  BY <1>3, <1>4
<1>6. \A i \in 1..Len(a) : Recorded(f)[by[i]] = a[i]
  BY <1>1, <1>4
<1>7. \A i, j \in 1..Len(a) : i < j => by[i] < by[j]
  BY <1>0, <1>1, <1>2, RankGrows
<1> QED
  BY <1>5, <1>6, <1>7 DEF Embeds

LEMMA KeptInit == AuditInit => KeptInv
<1> SUFFICES ASSUME AuditInit PROVE KeptInv
  OBVIOUS
<1> USE DEF AuditInit
<1>1. chain.entries = <<>>
  BY DEF resumed
<1>2. Filed
  BY <1>1, EmptySequence DEF Filed
<1>3. Halfway
  BY DEF Halfway
<1>4. Embeds(<<>>, <<>>, 0)
  <2>1. 1..Len(<<>>) = {}
    BY EmptySequence
  <2>2. [i \in {} |-> i] \in [{} -> 1..0]
    OBVIOUS
  <2> QED
    BY <2>1, <2>2 DEF Embeds
<1>5. Acked
  BY <1>1, <1>4, EmptySequence DEF Acked
<1> QED
  BY <1>2, <1>3, <1>5 DEF KeptInv

(* Steps that leave the disk alone and tell nobody anything.               *)
LEMMA QuietIsKept ==
    ASSUME KeptInv, UNCHANGED <<file, synced, acknowledged, state>>, chain'.entries = chain.entries,
           writing' \in {"idle", "record", "line_end", "sync"}, Halfway',
           state' # "up" => writing' = "idle" /\ signing' = Nothing
    PROVE  KeptInv'
  BY DEF KeptInv, Filed, Acked

(* Steps that write a piece and tell nobody yet.                           *)
LEMMA GrowingIsKept ==
    ASSUME KeptInv, NEW e, file' = Append(file, e), UNCHANGED <<synced, acknowledged, state>>,
           chain'.entries = chain.entries, state' = "up",
           writing' \in {"idle", "record", "line_end", "sync"}, Halfway'
    PROVE  KeptInv'
<1>1. /\ IsSeq(file') /\ Len(file') = Len(file) + 1 /\ Len(file) \in Nat
      /\ \A i \in 1..Len(file) : file'[i] = file[i]
  BY AppendIs, SeqFacts DEF KeptInv, Filed
<1>2. synced \in Int /\ synced <= Len(file) /\ 0 <= synced
  BY <1>1 DEF KeptInv, Filed
<1>3. Embeds(acknowledged, file', synced)
  <2>1. \A i \in 1..synced : file'[i] = file[i]
    BY <1>1, <1>2
  <2>2. Embeds(acknowledged, file, synced)
    BY DEF KeptInv, Acked
  <2>3. synced <= synced
    BY <1>2
  <2> QED
    BY <1>2, <2>1, <2>2, <2>3, EmbedsFurther
<1>4. Filed'
  BY <1>1, <1>2 DEF KeptInv, Filed
<1>5. Acked'
  BY <1>3 DEF KeptInv, Acked
<1> QED
  BY <1>4, <1>5 DEF KeptInv

LEMMA UpWhileWriting ==
    ASSUME KeptInv, writing # "idle"
    PROVE  state = "up"
  BY DEF KeptInv, Filed

LEMMA FailIsKept ==
    ASSUME KeptInv, writing # "idle", Fail,
           file' = file \/ \E e : file' = Append(file, e)
    PROVE  KeptInv'
<1>1. state = "up" /\ Halfway' /\ writing' = "idle"
  BY UpWhileWriting DEF Fail, Halfway
<1>2. CASE file' = file
  BY <1>1, <1>2, QuietIsKept DEF Fail
<1>3. CASE \E e : file' = Append(file, e)
  BY <1>1, <1>3, GrowingIsKept DEF Fail
<1> QED
  BY <1>2, <1>3

LEMMA SyncIsKept ==
    ASSUME KeptInv, Sync
    PROVE  KeptInv'
<1>1. CASE Fail /\ file' = file
  BY <1>1, FailIsKept DEF Sync
<1>2. CASE ~(Fail /\ file' = file)
  <2>0. /\ writing = "sync" /\ synced' = Len(file)
        /\ chain' = [entries |-> Append(chain.entries, entry), next |-> chain.next + 1,
                     head |-> entry.chain_hash]
        /\ acknowledged' = Append(acknowledged, entry)
        /\ writing' = "idle" /\ entry' = Nothing /\ UNCHANGED <<file, state, signing>>
    BY <1>2 DEF Sync
  <2>1. /\ state = "up" /\ IsRecord(entry)
        /\ Len(file) > synced + 1 /\ file[Len(file) - 1] = entry
        /\ IsSeq(file) /\ IsSeq(acknowledged) /\ synced \in 0..Len(file) /\ IsSeq(chain.entries)
    BY <2>0, UpWhileWriting DEF KeptInv, Halfway, Filed
  <2>2. chain'.entries = Append(chain.entries, entry)
    BY <2>0
  <2>3. Len(file) \in Nat /\ Len(acknowledged) \in Nat /\ Len(chain.entries) \in Nat
    BY <2>1, SeqFacts
  <2>4. IsSeq(acknowledged') /\ IsSeq(chain'.entries)
    BY <2>0, <2>1, <2>2, AppendIs
  <2>5. Filed'
    BY <2>0, <2>1, <2>3, <2>4 DEF Filed
  <2>6. Halfway'
    BY <2>0 DEF Halfway
  <2>7. \A i \in 1..Len(acknowledged') : IsRecord(acknowledged'[i])
    <3>1. /\ Len(acknowledged') = Len(acknowledged) + 1
          /\ \A i \in 1..Len(acknowledged) : acknowledged'[i] = acknowledged[i]
          /\ acknowledged'[Len(acknowledged) + 1] = entry
      BY <2>0, <2>1, AppendIs
    <3>2. \A i \in 1..Len(acknowledged) : IsRecord(acknowledged[i])
      BY DEF KeptInv, Acked
    <3> QED
      BY <2>1, <2>3, <3>1, <3>2
  <2>8. Embeds(acknowledged', file', synced')
    <3>1. Embeds(acknowledged, file, synced)
      BY DEF KeptInv, Acked
    <3>2. /\ Len(file) - 1 \in Nat /\ synced \in Int /\ 0 <= synced /\ synced < Len(file) - 1
          /\ Len(file) - 1 <= Len(file) /\ Len(file) \in Int
      BY <2>1, <2>3
    <3> QED
      BY <2>0, <2>1, <3>1, <3>2, EmbedsOne
  <2>9. Embeds(acknowledged', chain'.entries, Len(chain'.entries))
    <3> DEFINE n == Len(chain.entries)
    <3>1. Embeds(acknowledged, chain.entries, n)
      BY <2>1 DEF KeptInv, Acked
    <3>2. /\ Len(chain'.entries) = n + 1 /\ chain'.entries[n + 1] = entry
          /\ \A i \in 1..n : chain'.entries[i] = chain.entries[i]
      BY <2>1, <2>2, AppendIs
    <3>3. n \in Int /\ n + 1 \in Nat /\ n + 1 \in Int /\ 0 <= n /\ n < n + 1 /\ n + 1 <= n + 1
      BY <2>3
    <3> HIDE DEF n
    <3>4. Embeds(Append(acknowledged, entry), chain'.entries, n + 1)
      BY <2>1, <3>1, <3>2, <3>3, EmbedsOne
    <3> QED
      BY <2>0, <3>2, <3>4
  <2>10. Acked'
    BY <2>7, <2>8, <2>9 DEF Acked
  <2> QED
    BY <2>5, <2>6, <2>10 DEF KeptInv
<1> QED
  BY <1>1, <1>2

LEMMA WriteIsKept ==
    ASSUME KeptInv, WriteRecord \/ WriteLineEnd
    PROVE  KeptInv'
<1>0. state = "up" /\ Len(file) \in Nat /\ synced \in 0..Len(file) /\ IsRecord(entry) /\ IsSeq(file)
  BY UpWhileWriting, SeqFacts DEF WriteRecord, WriteLineEnd, KeptInv, Filed, Halfway
<1>1. CASE Fail
  BY <1>1, FailIsKept DEF WriteRecord, WriteLineEnd
<1>2. CASE WriteRecord /\ ~Fail
  <2>1. writing = "record" /\ file' = Append(file, entry) /\ writing' = "line_end"
        /\ UNCHANGED <<synced, state, chain, entry, acknowledged>>
    BY <1>2 DEF WriteRecord
  <2>2. Len(file') = Len(file) + 1 /\ file'[Len(file) + 1] = entry
    BY <1>0, <2>1, AppendIs
  <2>3. Halfway'
    BY <1>0, <2>1, <2>2 DEF Halfway
  <2> QED
    BY <1>0, <2>1, <2>3, GrowingIsKept
<1>3. CASE WriteLineEnd /\ ~Fail
  <2>1. writing = "line_end" /\ file' = Append(file, LineEnd) /\ writing' = "sync"
        /\ UNCHANGED <<synced, state, chain, entry, acknowledged>>
    BY <1>3 DEF WriteLineEnd
  <2>2. Len(file) > synced /\ file[Len(file)] = entry
    BY <2>1 DEF KeptInv, Halfway
  <2>3. Len(file') = Len(file) + 1 /\ \A i \in 1..Len(file) : file'[i] = file[i]
    BY <1>0, <2>1, AppendIs
  <2>4. Halfway'
    BY <1>0, <2>1, <2>2, <2>3 DEF Halfway
  <2> QED
    BY <1>0, <2>1, <2>4, GrowingIsKept
<1> QED
  BY <1>1, <1>2, <1>3

(* A part of the file that holds what was synced.                          *)
LEMMA DownIsKept ==
    ASSUME KeptInv, Down, IsSeq(file'), synced' \in 0..Len(file'), synced <= synced',
           \A i \in 1..synced : file'[i] = file[i]
    PROVE  KeptInv'
<1>1. state' = "down" /\ writing' = "idle" /\ signing' = Nothing /\ acknowledged' = acknowledged
  BY DEF Down
<1>2. synced \in Int /\ synced' \in Int
  BY SeqFacts DEF KeptInv, Filed
<1>3. Embeds(acknowledged', file', synced')
  <2>1. Embeds(acknowledged, file, synced)
    BY DEF KeptInv, Acked
  <2> QED
    BY <1>1, <1>2, <2>1, EmbedsFurther
<1> QED
  BY <1>1, <1>3 DEF KeptInv, Filed, Halfway, Acked

(* What a stop leaves of the file.                                         *)
LEMMA StopLeaves ==
    ASSUME IsSeq(file), synced \in 0..Len(file), Stop \/ PowerLoss
    PROVE  \E n \in synced..Len(file) :
              /\ \/ file' = SubSeq(file, 1, n)
                 \/ file' = Append(SubSeq(file, 1, n), Torn)
              /\ \/ synced' = synced
                 \/ synced' = Len(file')
<1>1. Len(file) \in Nat
  BY SeqFacts
<1>2. CASE PowerLoss
  BY <1>2 DEF PowerLoss
<1>3. CASE Stop
  <2>1. SubSeq(file, 1, Len(file)) = file
    <3>1. Len(file) \in 0..Len(file)
      BY <1>1
    <3> QED
      BY <3>1, PrefixIs, SameSeq
  <2>2. Len(file) \in synced..Len(file)
    BY <1>1
  <2> QED
    BY <1>3, <2>1, <2>2 DEF Stop
<1> QED
  BY <1>2, <1>3

LEMMA StopKeepsSynced ==
    ASSUME IsSeq(file), synced \in 0..Len(file), Stop \/ PowerLoss
    PROVE  /\ IsSeq(file') /\ synced' \in 0..Len(file') /\ synced <= synced'
           /\ \A i \in 1..synced : file'[i] = file[i]
<1>1. PICK n \in synced..Len(file) :
              /\ \/ file' = SubSeq(file, 1, n)
                 \/ file' = Append(SubSeq(file, 1, n), Torn)
              /\ \/ synced' = synced
                 \/ synced' = Len(file')
  BY StopLeaves
<1> DEFINE g == SubSeq(file, 1, n)
<1>2. Len(file) \in Nat /\ n \in Nat /\ synced \in Nat /\ n \in 0..Len(file) /\ synced <= n
  BY SeqFacts
<1>3. IsSeq(g) /\ Len(g) = n /\ \A i \in 1..n : g[i] = file[i]
  BY <1>2, PrefixIs
<1> HIDE DEF g
<1>4. IsSeq(file') /\ Len(file') \in {n, n + 1} /\ \A i \in 1..n : file'[i] = file[i]
  <2>1. CASE file' = g
    BY <1>3, <2>1
  <2>2. CASE file' = Append(g, Torn)
    <3>1. IsSeq(Append(g, Torn)) /\ Len(Append(g, Torn)) = n + 1
          /\ \A i \in 1..n : Append(g, Torn)[i] = g[i]
      BY <1>3, AppendIs
    <3> QED
      BY <1>3, <2>2, <3>1
  <2> QED
    BY <1>1, <2>1, <2>2 DEF g
<1> QED
  BY <1>1, <1>2, <1>4

LEMMA StartIsKept ==
    ASSUME KeptInv, Start
    PROVE  KeptInv'
<1>0. IsSeq(file) /\ synced \in 0..Len(file) /\ writing = "idle" /\ signing = Nothing
      /\ UNCHANGED <<file, synced, writing, entry, signing, acknowledged>>
  BY DEF KeptInv, Filed, Start
<1>1. Halfway'
  BY <1>0 DEF Halfway
<1>2. CASE readable(file)
  <2>1. state' = "up" /\ chain'.entries = Recorded(file)
    BY <1>0, <1>2, ReadableRecords DEF Start, resumed
  <2>2. IsSeq(Recorded(file))
    BY <1>0, RecordedIs
  <2>3. Embeds(acknowledged, Recorded(file), Len(Recorded(file)))
    BY <1>0, EmbedsInRecords DEF KeptInv, Acked
  <2> QED
    BY <1>0, <1>1, <2>1, <2>2, <2>3 DEF KeptInv, Filed, Acked
<1>3. CASE ~readable(file)
  BY <1>0, <1>1, <1>3 DEF Start, KeptInv, Filed, Acked
<1> QED
  BY <1>2, <1>3

LEMMA KeptKept ==
    ASSUME KeptInv, [AuditStep]_auditVars
    PROVE  KeptInv'
<1>1. CASE \E e \in Events : Begin(e)
  <2>1. PICK e \in Events : Begin(e)
    BY <1>1
  <2>2. IsRecord(entry') /\ writing' = "record" /\ state = "up"
        /\ UNCHANGED <<file, synced, state, chain, acknowledged>>
    BY <2>1, EntriesAreRecords DEF Begin
  <2>3. Halfway'
    BY <2>2 DEF Halfway
  <2> QED
    BY <2>2, <2>3, QuietIsKept
<1>2. CASE WriteRecord \/ WriteLineEnd
  BY <1>2, WriteIsKept
<1>3. CASE Sync
  BY <1>3, SyncIsKept
<1>4. CASE SignCheckpoint \/ WriteCheckpoint
  <2>1. state = "up" /\ UNCHANGED <<file, synced, state, chain, acknowledged, writing, entry>>
    BY <1>4 DEF SignCheckpoint, WriteCheckpoint
  <2>2. Halfway' /\ writing' \in {"idle", "record", "line_end", "sync"}
    BY <2>1 DEF KeptInv, Halfway, Filed
  <2> QED
    BY <2>1, <2>2, QuietIsKept
<1>5. CASE Stop \/ PowerLoss
  <2>1. Down
    BY <1>5 DEF Stop, PowerLoss
  <2> QED
    BY <1>5, <2>1, StopKeepsSynced, DownIsKept DEF KeptInv, Filed
<1>6. CASE Start
  BY <1>6, StartIsKept
<1>7. CASE UNCHANGED auditVars
  BY <1>7 DEF auditVars, KeptInv, Filed, Halfway, Acked
<1> QED
  BY <1>1, <1>2, <1>3, <1>4, <1>5, <1>6, <1>7 DEF AuditStep

(* The inductive invariant of the audit file: where the append under the   *)
(* lock has got to, and that what was acknowledged is in the synced part   *)
(* of the file and, while Core runs, in memory, in its order.              *)
THEOREM KeptInvariant == AuditSpec => []KeptInv
  BY KeptInit, KeptKept, PTL DEF AuditSpec

(* An audit log that loads holds every record whose append returned        *)
(* success, in order, however appends fail and processes and machines stop *)
(* (sink.rs append_line, read_lines).                                      *)
THEOREM AcknowledgedIsKept == AuditSpec => []NothingSilentlyLost
<1>1. KeptInv => NothingSilentlyLost
  <2>1. SUFFICES ASSUME KeptInv, state = "up"
                 PROVE  \E where \in [DOMAIN acknowledged -> DOMAIN chain.entries] :
                           /\ \A i \in DOMAIN acknowledged : chain.entries[where[i]] = acknowledged[i]
                           /\ \A i, j \in DOMAIN acknowledged : i < j => where[i] < where[j]
    BY DEF NothingSilentlyLost
  <2>2. DOMAIN acknowledged = 1..Len(acknowledged) /\ DOMAIN chain.entries = 1..Len(chain.entries)
    BY <2>1, SeqFacts DEF KeptInv, Filed
  <2>3. Embeds(acknowledged, chain.entries, Len(chain.entries))
    BY <2>1 DEF KeptInv, Acked
  <2> QED
    BY <2>2, <2>3 DEF Embeds
<1> QED
  BY <1>1, KeptInvariant, PTL

-----------------------------------------------------------------------------
(* Records that follow one another from the first.                         *)
Before(es, i) == IF i = 1 THEN Genesis ELSE es[i - 1].chain_hash

Proper(es) == \A i \in 1..Len(es) : es[i] = Entry(i - 1, es[i].event, Before(es, i))

(* While no append has failed, the file holds the chain, and the entry     *)
(* being written behind it.                                                *)
Chained ==
    ~erred =>
        /\ Proper(Recorded(file))
        /\ state = "up" =>
              /\ chain.next = Len(chain.entries)
              /\ chain.head = Before(chain.entries, Len(chain.entries) + 1)
              /\ writing \in {"idle", "record"} => Recorded(file) = chain.entries
              /\ writing \in {"line_end", "sync"} => Recorded(file) = Append(chain.entries, entry)
              /\ writing # "idle" => entry = Entry(chain.next, entry.event, chain.head)

(* A checkpoint names a record that is on the disk.                        *)
Names(c, f, n) ==
    /\ c.sequence \in Nat /\ c.sequence < rank(written(f), n)
    /\ Recorded(f)[c.sequence + 1].chain_hash = c.chain_hash

Checkpointed ==
    /\ IsSeq(cpfile) /\ IsSeq(held)
    /\ \A i \in 1..Len(held) : \E j \in 1..Len(cpfile) : held[i] = cpfile[j]
    /\ ~erred /\ ~hasty =>
          /\ \A i \in 1..Len(cpfile) : Names(cpfile[i], file, synced)
          /\ signing # Nothing => Names(signing, file, synced)

CleanInv == Chained /\ Checkpointed

LEMMA ProperPrefix ==
    ASSUME NEW es, NEW fs, Proper(es), Len(es) \in Nat, Len(fs) \in Nat, Len(fs) <= Len(es),
           \A i \in 1..Len(fs) : fs[i] = es[i]
    PROVE  Proper(fs)
<1> SUFFICES ASSUME NEW i \in 1..Len(fs) PROVE fs[i] = Entry(i - 1, fs[i].event, Before(fs, i))
  BY DEF Proper
<1>1. i \in 1..Len(es) /\ fs[i] = es[i]
  OBVIOUS
<1>2. Before(fs, i) = Before(es, i)
  <2>1. i # 1 => i - 1 \in 1..Len(fs)
    OBVIOUS
  <2> QED
    BY <2>1 DEF Before
<1> QED
  BY <1>1, <1>2 DEF Proper

LEMMA ProperAppend ==
    ASSUME NEW es, IsSeq(es), Proper(es), NEW e,
           e = Entry(Len(es), e.event, Before(es, Len(es) + 1))
    PROVE  Proper(Append(es, e))
<1> DEFINE fs == Append(es, e)
           n == Len(es)
<1>1. n \in Nat /\ Len(fs) = n + 1 /\ (\A i \in 1..n : fs[i] = es[i]) /\ fs[n + 1] = e
  BY AppendIs, SeqFacts
<1> HIDE DEF fs, n
<1>2. \A i \in 1..(n + 1) : Before(fs, i) = Before(es, i)
  <2> SUFFICES ASSUME NEW i \in 1..(n + 1) PROVE Before(fs, i) = Before(es, i)
    OBVIOUS
  <2>1. i # 1 => i - 1 \in 1..n
    BY <1>1
  <2> QED
    BY <1>1, <2>1 DEF Before
<1>3. ASSUME NEW i \in 1..(n + 1) PROVE fs[i] = Entry(i - 1, fs[i].event, Before(fs, i))
  <2>1. CASE i = n + 1
    <3>1. fs[i] = e /\ i - 1 = n /\ Before(fs, i) = Before(es, n + 1)
      BY <1>1, <1>2, <2>1
    <3> QED
      BY <3>1 DEF n
  <2>2. CASE i \in 1..n
    <3>1. fs[i] = es[i] /\ Before(fs, i) = Before(es, i)
      BY <1>1, <1>2, <2>2
    <3> QED
      BY <2>2, <3>1 DEF Proper, n
  <2> QED
    BY <1>1, <2>1, <2>2
<1>4. Proper(fs)
  BY <1>1, <1>3 DEF Proper
<1> QED
  BY <1>4 DEF fs

LEMMA ProperFacts ==
    ASSUME NEW es, Proper(es), NEW i \in 1..Len(es)
    PROVE  /\ es[i].sequence = i - 1
           /\ es[i].chain_hash = link_hash(i - 1, es[i].event, Before(es, i))
<1>1. es[i] = Entry(i - 1, es[i].event, Before(es, i))
  BY DEF Proper
<1> QED
  BY <1>1, EntriesAreRecords

(* A file that has the synced part of another has its records there.       *)
LEMMA SyncedStays ==
    ASSUME NEW f, NEW g, IsSeq(f), IsSeq(g), NEW n \in Nat, NEW m \in Nat,
           n <= m, n <= Len(f), m <= Len(g), \A i \in 1..n : g[i] = f[i],
           NEW c, Names(c, f, n)
    PROVE  Names(c, g, m)
<1>0. Len(f) \in Nat /\ Len(g) \in Nat
  BY SeqFacts
<1>1. n \in 0..Len(f) /\ n \in 0..Len(g) /\ m \in 0..Len(g)
  BY <1>0
<1> DEFINE h == SubSeq(f, 1, n)
           r == rank(written(f), n)
           q == rank(written(g), n)
<1>2. SubSeq(g, 1, n) = h
  <2>1. /\ IsSeq(h) /\ Len(h) = n /\ \A i \in 1..n : h[i] = f[i]
    BY <1>1, PrefixIs
  <2>2. IsSeq(SubSeq(g, 1, n)) /\ Len(SubSeq(g, 1, n)) = n /\ \A i \in 1..n : SubSeq(g, 1, n)[i] = g[i]
    BY <1>1, PrefixIs
  <2> HIDE DEF h
  <2>3. \A i \in 1..n : SubSeq(g, 1, n)[i] = h[i]
    BY <2>1, <2>2
  <2> QED
    BY <2>1, <2>2, <2>3, SameSeq
<1>3. /\ Len(Recorded(h)) = r /\ r \in 0..Len(Recorded(f))
      /\ \A k \in 1..r : Recorded(h)[k] = Recorded(f)[k]
  BY <1>1, PrefixRecords
<1>4. /\ Len(Recorded(h)) = q /\ q \in 0..Len(Recorded(g))
      /\ \A k \in 1..q : Recorded(h)[k] = Recorded(g)[k]
  BY <1>1, <1>2, PrefixRecords
<1>5. Len(Recorded(f)) \in Nat /\ Len(Recorded(g)) \in Nat
  BY RecordedIs, SeqFacts
<1> HIDE DEF h, r, q
<1>6. q = r /\ r \in Nat
  BY <1>3, <1>4, <1>5
<1>7. q <= rank(written(g), m) /\ rank(written(g), m) \in Nat
  <2>1. Places(written(g), Len(g))
    BY WrittenPlaces
  <2>2. rank(written(g), m) \in Nat /\ IsFiniteSet({j \in written(g) : j <= m})
    <3>1. Places({j \in written(g) : j <= m}, Len(g))
      BY <2>1, FewerPlaces
    <3> QED
      BY <3>1, PlacesAreFinite DEF rank
  <2>3. {j \in written(g) : j <= n} \subseteq {j \in written(g) : j <= m}
    BY <2>1 DEF Places
  <2> QED
    BY <2>2, <2>3, FS_Subset DEF rank, q
<1>8. c.sequence \in Nat /\ c.sequence < r /\ Recorded(f)[c.sequence + 1].chain_hash = c.chain_hash
  BY DEF Names, r
<1>9. c.sequence + 1 \in 1..r
  BY <1>6, <1>8
<1>10. Recorded(g)[c.sequence + 1] = Recorded(f)[c.sequence + 1]
  BY <1>3, <1>4, <1>6, <1>9
<1> QED
  BY <1>6, <1>7, <1>8, <1>10 DEF Names

LEMMA NothingIsRecorded == Recorded(<<>>) = <<>>
<1>1. written(<<>>) = {}
  BY EmptySequence, SeqFacts DEF written
<1>2. Cardinality({}) = 0
  BY FS_EmptySet
<1>3. IsSeq(Recorded(<<>>)) /\ Len(Recorded(<<>>)) = 0
  BY <1>1, <1>2, EmptySequence, RecordedIs
<1> QED
  BY <1>3, EmptySequence, SameSeq

LEMMA CleanInit == AuditInit => CleanInv
<1> SUFFICES ASSUME AuditInit PROVE CleanInv
  OBVIOUS
<1>1. chain.entries = <<>> /\ chain.next = 0 /\ chain.head = Genesis
  BY DEF AuditInit, resumed
<1>2. Chained
  BY <1>1, NothingIsRecorded, EmptySequence DEF AuditInit, Chained, Proper, Before
<1>3. Checkpointed
  BY EmptySequence DEF AuditInit, Checkpointed
<1> QED
  BY <1>2, <1>3 DEF CleanInv

(* No step takes away what was synced.                                     *)
LEMMA StepKeepsSynced ==
    ASSUME KeptInv, [AuditStep]_auditVars
    PROVE  /\ IsSeq(file) /\ IsSeq(file') /\ synced \in Nat /\ synced' \in Nat /\ synced <= synced'
           /\ synced <= Len(file) /\ synced' <= Len(file')
           /\ \A i \in 1..synced : file'[i] = file[i]
<1>0. KeptInv'
  BY KeptKept
<1>1. /\ IsSeq(file) /\ IsSeq(file') /\ synced \in 0..Len(file) /\ synced' \in 0..Len(file')
      /\ Len(file) \in Nat /\ Len(file') \in Nat
  BY <1>0, SeqFacts DEF KeptInv, Filed
<1>2. CASE synced' = synced /\ \E e : file' = Append(file, e)
  <2>1. \A i \in 1..Len(file) : file'[i] = file[i]
    BY <1>1, <1>2, AppendIs
  <2> QED
    BY <1>1, <1>2, <2>1
<1>3. CASE file' = file /\ synced' \in {synced, Len(file)}
  BY <1>1, <1>3
<1>4. CASE Stop \/ PowerLoss
  BY <1>1, <1>4, StopKeepsSynced
<1>5. CASE \/ \E e \in Events : Begin(e)
           \/ WriteRecord \/ WriteLineEnd \/ Sync \/ SignCheckpoint \/ WriteCheckpoint \/ Start
           \/ UNCHANGED auditVars
  <2>1. \/ synced' = synced /\ \E e : file' = Append(file, e)
        \/ file' = file /\ synced' \in {synced, Len(file)}
    BY <1>5 DEF Begin, WriteRecord, WriteLineEnd, Sync, SignCheckpoint, WriteCheckpoint, Start, Fail,
                auditVars
  <2> QED
    BY <1>2, <1>3, <2>1
<1> QED
  BY <1>4, <1>5 DEF AuditStep

LEMMA NamesStay ==
    ASSUME KeptInv, [AuditStep]_auditVars, NEW c, Names(c, file, synced)
    PROVE  Names(c, file', synced')
  BY StepKeepsSynced, SyncedStays

(* A head that is signed while all records are synced is on the disk.      *)
LEMMA HeadIsNamed ==
    ASSUME KeptInv, CleanInv, SignCheckpoint, ~erred, ~hasty'
    PROVE  Names(signing', file, synced)
<1>1. /\ state = "up" /\ writing = "idle" /\ chain.head # Genesis
      /\ signing' = [piece |-> "checkpoint", sequence |-> chain.next - 1, chain_hash |-> chain.head]
      /\ \A i \in written(file) : ~(i > synced)
  BY DEF SignCheckpoint
<1>2. /\ chain.next = Len(chain.entries) /\ Recorded(file) = chain.entries
      /\ chain.head = Before(chain.entries, Len(chain.entries) + 1)
  BY <1>1 DEF CleanInv, Chained
<1>3. IsSeq(file) /\ synced \in 0..Len(file) /\ Len(file) \in Nat /\ Len(chain.entries) \in Nat
  BY <1>1, SeqFacts DEF KeptInv, Filed
<1>4. Len(chain.entries) > 0 /\ chain.head = chain.entries[Len(chain.entries)].chain_hash
  <2>1. Len(chain.entries) # 0
    <3>1. SUFFICES ASSUME Len(chain.entries) = 0 PROVE FALSE
      OBVIOUS
    <3>2. Before(chain.entries, 0 + 1) = Genesis
      BY DEF Before
    <3> QED
      BY <1>1, <1>2, <3>1, <3>2
  <2>2. Len(chain.entries) + 1 # 1 /\ (Len(chain.entries) + 1) - 1 = Len(chain.entries)
    BY <1>3, <2>1
  <2> QED
    BY <1>2, <1>3, <2>1, <2>2 DEF Before
<1>5. rank(written(file), synced) = Len(chain.entries)
  <2>1. {i \in written(file) : i <= synced} = written(file)
    <3>1. Places(written(file), Len(file))
      BY <1>3, WrittenPlaces
    <3> QED
      BY <1>1, <1>3, <3>1 DEF Places
  <2> QED
    BY <1>2, <1>3, <2>1, RecordedIs DEF rank
<1>6. signing'.sequence = Len(chain.entries) - 1 /\ signing'.chain_hash = chain.head
  BY <1>1, <1>2
<1>7. (Len(chain.entries) - 1) + 1 = Len(chain.entries) /\ Len(chain.entries) - 1 \in Nat
      /\ Len(chain.entries) - 1 < Len(chain.entries)
  BY <1>3, <1>4
<1> QED
  BY <1>2, <1>4, <1>5, <1>6, <1>7 DEF Names

LEMMA CheckpointedKept ==
    ASSUME KeptInv, CleanInv, [AuditStep]_auditVars
    PROVE  Checkpointed'
<1>1. ~erred' => ~erred
  BY DEF AuditStep, Begin, WriteRecord, WriteLineEnd, Sync, SignCheckpoint, WriteCheckpoint, Start,
         Fail, Stop, PowerLoss, Down, auditVars
<1>2. ~hasty' => ~hasty
  BY DEF AuditStep, Begin, WriteRecord, WriteLineEnd, Sync, SignCheckpoint, WriteCheckpoint, Start,
         Fail, Stop, PowerLoss, Down, auditVars
<1>3. IsSeq(cpfile) /\ IsSeq(held) /\ Len(cpfile) \in Nat /\ Len(held) \in Nat
  BY SeqFacts DEF CleanInv, Checkpointed
<1>4. CASE UNCHANGED <<cpfile, held>> /\ signing' \in {signing, Nothing}
  BY <1>1, <1>2, <1>4, NamesStay DEF CleanInv, Checkpointed
<1>5. CASE WriteCheckpoint
  <2>1. signing # Nothing /\ signing' = Nothing /\ UNCHANGED <<file, synced, erred, hasty>>
    BY <1>5 DEF WriteCheckpoint
  <2>2. CASE cpfile' = Append(cpfile, signing) /\ held' = Append(held, signing)
    <3>1. /\ IsSeq(cpfile') /\ Len(cpfile') = Len(cpfile) + 1
          /\ \A i \in 1..Len(cpfile) : cpfile'[i] = cpfile[i]
          /\ cpfile'[Len(cpfile) + 1] = signing
      BY <1>3, <2>2, AppendIs
    <3>2. /\ IsSeq(held') /\ Len(held') = Len(held) + 1
          /\ \A i \in 1..Len(held) : held'[i] = held[i]
          /\ held'[Len(held) + 1] = signing
      BY <1>3, <2>2, AppendIs
    <3>3. \A i \in 1..Len(held') : \E j \in 1..Len(cpfile') : held'[i] = cpfile'[j]
      <4> SUFFICES ASSUME NEW i \in 1..Len(held')
                   PROVE  \E j \in 1..Len(cpfile') : held'[i] = cpfile'[j]
        OBVIOUS
      <4>1. CASE i = Len(held) + 1
        <5>1. Len(cpfile) + 1 \in 1..Len(cpfile')
          BY <1>3, <3>1
        <5> QED
          BY <3>1, <3>2, <4>1, <5>1
      <4>2. CASE i \in 1..Len(held)
        <5>1. PICK j \in 1..Len(cpfile) : held[i] = cpfile[j]
          BY <4>2 DEF CleanInv, Checkpointed
        <5>2. j \in 1..Len(cpfile')
          BY <1>3, <3>1
        <5> QED
          BY <3>1, <3>2, <4>2, <5>1, <5>2
      <4> QED
        BY <1>3, <3>2, <4>1, <4>2
    <3>4. ASSUME ~erred', ~hasty', NEW i \in 1..Len(cpfile')
          PROVE  Names(cpfile'[i], file', synced')
      <4>1. ~erred /\ ~hasty /\ file' = file /\ synced' = synced
        BY <2>1, <3>4
      <4>2. CASE i = Len(cpfile) + 1
        BY <2>1, <3>1, <4>1, <4>2 DEF CleanInv, Checkpointed
      <4>3. CASE i \in 1..Len(cpfile)
        BY <3>1, <4>1, <4>3 DEF CleanInv, Checkpointed
      <4> QED
        BY <1>3, <3>1, <4>2, <4>3
    <3> QED
      BY <2>1, <3>1, <3>2, <3>3, <3>4 DEF Checkpointed
  <2>3. CASE UNCHANGED <<cpfile, held>>
    BY <1>4, <2>1, <2>3
  <2> QED
    BY <1>5, <2>2, <2>3 DEF WriteCheckpoint
<1>6. CASE SignCheckpoint
  <2>1. UNCHANGED <<cpfile, held, file, synced, erred>>
    BY <1>6 DEF SignCheckpoint
  <2>2. ~erred' /\ ~hasty' => Names(signing', file', synced')
    BY <1>6, <2>1, HeadIsNamed
  <2> QED
    BY <1>1, <1>2, <2>1, <2>2 DEF CleanInv, Checkpointed
<1>7. CASE Stop \/ PowerLoss
  <2>1. cpfile' = cpfile /\ held' = <<>> /\ signing' = Nothing
    BY <1>7 DEF Stop, PowerLoss, Down
  <2> QED
    BY <1>1, <1>2, <2>1, NamesStay, EmptySequence DEF CleanInv, Checkpointed
<1>8. CASE Start
  <2>1. cpfile' = cpfile /\ held' \in {held, cpfile} /\ signing' = signing
    BY <1>8 DEF Start
  <2> QED
    BY <1>1, <1>2, <2>1, NamesStay DEF CleanInv, Checkpointed
<1>9. CASE \/ \E e \in Events : Begin(e)
           \/ WriteRecord \/ WriteLineEnd \/ Sync \/ UNCHANGED auditVars
  <2>1. UNCHANGED <<cpfile, held>> /\ signing' = signing
    BY <1>9 DEF Begin, WriteRecord, WriteLineEnd, Sync, Fail, auditVars
  <2> QED
    BY <1>4, <2>1
<1> QED
  BY <1>5, <1>6, <1>7, <1>8, <1>9 DEF AuditStep

LEMMA ChainedKept ==
    ASSUME KeptInv, CleanInv, [AuditStep]_auditVars
    PROVE  Chained'
<1>0. IsSeq(file) /\ (state = "up" => IsSeq(chain.entries))
  BY DEF KeptInv, Filed
<1>1. CASE erred'
  BY <1>1 DEF Chained
<1>2. CASE \E e \in Events : Begin(e)
  <2>1. PICK e \in Events : Begin(e)
    BY <1>2
  <2>2. /\ state = "up" /\ writing = "idle" /\ writing' = "record"
        /\ entry' = Entry(chain.next, e, chain.head)
        /\ UNCHANGED <<file, state, chain, erred>>
    BY <2>1 DEF Begin
  <2>3. entry'.event = e
    BY <2>2, EntriesAreRecords
  <2> QED
    BY <2>2, <2>3 DEF CleanInv, Chained
<1>3. CASE WriteRecord /\ ~erred'
  <2>1. writing = "record" /\ file' = Append(file, entry) /\ writing' = "line_end"
        /\ UNCHANGED <<state, chain, entry, erred>>
    BY <1>3 DEF WriteRecord, Fail
  <2>2. state = "up" /\ IsRecord(entry)
    BY <2>1, UpWhileWriting DEF KeptInv, Halfway
  <2>3. /\ Recorded(file) = chain.entries /\ Proper(chain.entries)
        /\ chain.next = Len(chain.entries)
        /\ chain.head = Before(chain.entries, Len(chain.entries) + 1)
        /\ entry = Entry(chain.next, entry.event, chain.head)
    BY <1>3, <2>1, <2>2 DEF CleanInv, Chained
  <2>4. Recorded(file') = Append(chain.entries, entry)
    BY <1>0, <2>1, <2>2, <2>3, RecordAdds
  <2>5. Proper(Append(chain.entries, entry))
    BY <1>0, <2>2, <2>3, ProperAppend
  <2> QED
    BY <2>1, <2>2, <2>3, <2>4, <2>5 DEF Chained
<1>4. CASE WriteLineEnd /\ ~erred'
  <2>1. writing = "line_end" /\ file' = Append(file, LineEnd) /\ writing' = "sync"
        /\ UNCHANGED <<state, chain, entry, erred>>
    BY <1>4 DEF WriteLineEnd, Fail
  <2>2. Recorded(file') = Recorded(file)
    BY <1>0, <2>1, OtherAdds
  <2> QED
    BY <1>4, <2>1, <2>2 DEF CleanInv, Chained
<1>5. CASE Sync /\ ~erred'
  <2>1. /\ writing = "sync" /\ writing' = "idle" /\ UNCHANGED <<file, state, erred>>
        /\ chain' = [entries |-> Append(chain.entries, entry), next |-> chain.next + 1,
                     head |-> entry.chain_hash]
    BY <1>5 DEF Sync, Fail
  <2>2. state = "up"
    BY <2>1, UpWhileWriting
  <2>3. chain'.entries = Append(chain.entries, entry) /\ chain'.next = chain.next + 1
        /\ chain'.head = entry.chain_hash
    BY <2>1
  <2>4. Recorded(file) = Append(chain.entries, entry) /\ chain.next = Len(chain.entries)
        /\ Proper(Recorded(file))
    BY <1>5, <2>1, <2>2 DEF CleanInv, Chained
  <2> DEFINE n == Len(chain.entries)
  <2>5. n \in Nat /\ Len(chain'.entries) = n + 1 /\ chain'.entries[n + 1] = entry
    BY <1>0, <2>2, <2>3, AppendIs, SeqFacts
  <2>6. Before(chain'.entries, (n + 1) + 1) = entry.chain_hash
    <3>1. (n + 1) + 1 # 1 /\ ((n + 1) + 1) - 1 = n + 1
      BY <2>5
    <3> QED
      BY <2>5, <3>1 DEF Before
  <2> QED
    BY <2>1, <2>3, <2>4, <2>5, <2>6 DEF Chained
<1>6. CASE SignCheckpoint \/ WriteCheckpoint \/ UNCHANGED auditVars
  <2>1. UNCHANGED <<file, state, chain, writing, entry, erred>>
    BY <1>6 DEF SignCheckpoint, WriteCheckpoint, auditVars
  <2> QED
    BY <2>1 DEF CleanInv, Chained
<1>7. CASE (Stop \/ PowerLoss) /\ ~erred'
  <2>1. state' = "down" /\ erred' = erred
    BY <1>7 DEF Stop, PowerLoss, Down
  <2>2. synced \in 0..Len(file) /\ Len(file) \in Nat
    BY SeqFacts DEF KeptInv, Filed
  <2>3. PICK n \in synced..Len(file) : \/ file' = SubSeq(file, 1, n)
                                       \/ file' = Append(SubSeq(file, 1, n), Torn)
    BY <1>0, <1>7, <2>2, StopLeaves
  <2> DEFINE g == SubSeq(file, 1, n)
  <2>4. n \in 0..Len(file)
    BY <2>2
  <2>5. IsSeq(g)
    BY <1>0, <2>4, PrefixIs
  <2>6. Recorded(file') = Recorded(g)
    BY <2>3, <2>5, OtherAdds
  <2>7. Proper(Recorded(g))
    <3>1. Len(Recorded(g)) \in 0..Len(Recorded(file))
          /\ \A k \in 1..Len(Recorded(g)) : Recorded(g)[k] = Recorded(file)[k]
      BY <1>0, <2>4, PrefixRecords
    <3>2. Len(Recorded(file)) \in Nat /\ Len(Recorded(g)) \in Nat
      BY <1>0, <2>5, RecordedIs, SeqFacts
    <3>3. Proper(Recorded(file))
      BY <1>7, <2>1 DEF CleanInv, Chained
    <3> HIDE DEF g
    <3>4. Len(Recorded(g)) <= Len(Recorded(file))
      BY <3>1, <3>2
    <3> QED
      BY <3>1, <3>2, <3>3, <3>4, ProperPrefix
  <2> QED
    BY <2>1, <2>6, <2>7 DEF Chained
<1>8. CASE Start /\ ~erred'
  <2>0. ~erred /\ UNCHANGED <<file, writing, entry>> /\ writing = "idle" /\ Proper(Recorded(file))
    BY <1>8 DEF Start, CleanInv, Chained, KeptInv, Filed
  <2>1. CASE ~readable(file)
    BY <1>8, <2>0, <2>1 DEF Start, Chained
  <2>2. CASE readable(file)
    <3> DEFINE es == Recorded(file)
    <3>1. state' = "up" /\ chain' = resumed(es)
      BY <1>0, <1>8, <2>2, ReadableRecords DEF Start
    <3>2. IsSeq(es) /\ Len(es) \in Nat
      BY <1>0, RecordedIs, SeqFacts
    <3>3. chain'.entries = es
          /\ chain'.next = (IF es = <<>> THEN 0 ELSE es[Len(es)].sequence + 1)
          /\ chain'.head = (IF es = <<>> THEN Genesis ELSE es[Len(es)].chain_hash)
      BY <3>1 DEF resumed, Last
    <3> HIDE DEF es
    <3>4. chain'.next = Len(es) /\ chain'.head = Before(es, Len(es) + 1)
      <4>1. CASE es = <<>>
        BY <3>3, <4>1, EmptySequence DEF Before
      <4>2. CASE es # <<>>
        <5>1. Len(es) # 0
          BY <3>2, <4>2, EmptySequence, SameSeq
        <5>2. es[Len(es)].sequence = Len(es) - 1
          BY <2>0, <3>2, <5>1, ProperFacts DEF es
        <5>3. Before(es, Len(es) + 1) = es[Len(es)].chain_hash
          <6>1. Len(es) + 1 # 1 /\ (Len(es) + 1) - 1 = Len(es)
            BY <3>2, <5>1
          <6> QED
            BY <6>1 DEF Before
        <5> QED
          BY <3>2, <3>3, <4>2, <5>2, <5>3
      <4> QED
        BY <4>1, <4>2
    <3> QED
      BY <2>0, <3>1, <3>3, <3>4 DEF Chained, es
  <2> QED
    BY <2>1, <2>2
<1> QED
  BY <1>1, <1>2, <1>3, <1>4, <1>5, <1>6, <1>7, <1>8 DEF AuditStep

(* The inductive invariant of an undisturbed log: its records follow one   *)
(* another from the first, memory agrees with the file, and checkpoints    *)
(* name records that are on the disk.                                      *)
THEOREM CleanInvariant == AuditSpec => []CleanInv
<1>1. KeptInv /\ CleanInv /\ [AuditStep]_auditVars => CleanInv'
  BY ChainedKept, CheckpointedKept DEF CleanInv
<1> QED
  BY <1>1, CleanInit, KeptInvariant, PTL DEF AuditSpec

(* What verify_bundle asks of a chain and its checkpoints.                 *)
LEMMA ProperVerifies ==
    ASSUME NEW es, IsSeq(es), Proper(es), NEW cps, IsSeq(cps),
           \A i \in 1..Len(cps) :
              /\ cps[i].sequence \in Nat /\ cps[i].sequence < Len(es)
              /\ es[cps[i].sequence + 1].chain_hash = cps[i].chain_hash
    PROVE  verify_bundle(es, cps) = {}
<1>0. Len(es) \in Nat /\ DOMAIN es = 1..Len(es) /\ DOMAIN cps = 1..Len(cps)
  BY SeqFacts
<1>1. \A i \in 1..Len(es) : es[i].sequence = i - 1
  BY ProperFacts
<1>2. \A i \in 1..Len(es) : es[i].chain_hash = link_hash(es[i].sequence, es[i].event, Before(es, i))
  BY <1>1, ProperFacts
<1>3. ASSUME NEW c \in Range(cps)
      PROVE  /\ c.sequence + 1 \in DOMAIN es /\ c.sequence \in Nat
             /\ es[c.sequence + 1].sequence = c.sequence
             /\ es[c.sequence + 1].chain_hash = c.chain_hash
  <2>1. PICK i \in 1..Len(cps) : c = cps[i]
    BY <1>0 DEF Range
  <2>2. /\ c.sequence \in Nat /\ c.sequence < Len(es)
        /\ es[c.sequence + 1].chain_hash = c.chain_hash
    BY <2>1
  <2>3. c.sequence + 1 \in 1..Len(es) /\ (c.sequence + 1) - 1 = c.sequence
    BY <1>0, <2>2
  <2> QED
    BY <1>0, <1>1, <2>2, <2>3
<1> DEFINE expected(i) == IF i = 1 THEN 0 ELSE es[i - 1].sequence + 1
           previous(i) == IF i = 1 THEN Genesis ELSE es[i - 1].chain_hash
           final(s)    == {es[i].chain_hash : i \in {j \in DOMAIN es : es[j].sequence = s /\
                              \A k \in DOMAIN es : es[k].sequence = s => k <= j}}
<1>4. {j \in DOMAIN es : \E k \in 1..(j - 1) : es[k].sequence = es[j].sequence} = {}
  <2> SUFFICES ASSUME NEW j \in DOMAIN es, NEW k \in 1..(j - 1), es[k].sequence = es[j].sequence
               PROVE  FALSE
    OBVIOUS
  <2>1. j \in 1..Len(es) /\ k \in 1..Len(es) /\ k < j
    BY <1>0
  <2> QED
    BY <1>0, <1>1, <2>1
<1>5. {j \in DOMAIN es : es[j].sequence # expected(j)} = {}
  <2> SUFFICES ASSUME NEW j \in DOMAIN es PROVE es[j].sequence = expected(j)
    OBVIOUS
  <2>1. j \in 1..Len(es)
    BY <1>0
  <2>2. j # 1 => j - 1 \in 1..Len(es)
    BY <1>0, <2>1
  <2> QED
    BY <1>0, <1>1, <2>1, <2>2
<1>6. {j \in DOMAIN es :
         es[j].chain_hash # link_hash(es[j].sequence, es[j].event, previous(j))} = {}
  <2> SUFFICES ASSUME NEW j \in DOMAIN es
               PROVE  es[j].chain_hash = link_hash(es[j].sequence, es[j].event, previous(j))
    OBVIOUS
  <2>1. previous(j) = Before(es, j)
    BY DEF Before
  <2> QED
    BY <1>0, <1>2, <2>1
<1>7. {x \in Range(cps) : hash_at(es, x.sequence) = {}} = {}
  <2> SUFFICES ASSUME NEW x \in Range(cps) PROVE hash_at(es, x.sequence) # {}
    OBVIOUS
  <2>1. es[x.sequence + 1].chain_hash \in hash_at(es, x.sequence)
    BY <1>3 DEF hash_at
  <2> QED
    BY <2>1
<1>8. {x \in Range(cps) : hash_at(es, x.sequence) # {} /\ x.chain_hash \notin final(x.sequence)} = {}
  <2> SUFFICES ASSUME NEW x \in Range(cps) PROVE x.chain_hash \in final(x.sequence)
    OBVIOUS
  <2> DEFINE j == x.sequence + 1
  <2>1. j \in DOMAIN es /\ es[j].sequence = x.sequence /\ es[j].chain_hash = x.chain_hash
        /\ x.sequence \in Nat
    BY <1>3
  <2>2. \A k \in DOMAIN es : es[k].sequence = x.sequence => k <= j
    <3> SUFFICES ASSUME NEW k \in DOMAIN es, es[k].sequence = x.sequence PROVE k <= j
      OBVIOUS
    <3>1. k \in Int /\ k - 1 = x.sequence
      BY <1>0, <1>1
    <3> QED
      BY <2>1, <3>1
  <2> HIDE DEF j
  <2> QED
    BY <2>1, <2>2
<1> HIDE DEF expected, previous, final
<1>9. verify_bundle(es, cps) =
        {"DuplicateSequence" : i \in {j \in DOMAIN es : \E k \in 1..(j - 1) :
                                          es[k].sequence = es[j].sequence}}
        \cup {"SequenceGap" : i \in {j \in DOMAIN es : es[j].sequence # expected(j)}}
        \cup {"ChainBroken" : i \in {j \in DOMAIN es :
                 es[j].chain_hash # link_hash(es[j].sequence, es[j].event, previous(j))}}
        \cup {"TruncatedBelowCheckpoint" : c \in {x \in Range(cps) : hash_at(es, x.sequence) = {}}}
        \cup {"CheckpointMismatch" : c \in {x \in Range(cps) :
                 hash_at(es, x.sequence) # {} /\ x.chain_hash \notin final(x.sequence)}}
  BY Zenon DEF verify_bundle, expected, previous, final
<1> QED
  BY <1>4, <1>5, <1>6, <1>7, <1>8, <1>9

(* The records on the disk are in memory, an entry being written is not on *)
(* it yet.                                                                 *)
LEMMA SyncedIsHeld ==
    ASSUME KeptInv, CleanInv, state = "up", ~erred
    PROVE  /\ Proper(chain.entries)
           /\ \A k \in 1..rank(written(file), synced) :
                 k \in 1..Len(chain.entries) /\ chain.entries[k] = Recorded(file)[k]
<1> DEFINE W == written(file)
           n == Len(chain.entries)
<1>0. /\ IsSeq(file) /\ synced \in 0..Len(file) /\ Len(file) \in Nat /\ IsSeq(chain.entries)
      /\ n \in Nat /\ Places(W, Len(file)) /\ DOMAIN file = 1..Len(file) /\ synced \in Int
  BY SeqFacts, WrittenPlaces DEF KeptInv, Filed
<1>1. rank(W, synced) \in 0..Cardinality(W) /\ Cardinality(W) \in Nat
      /\ Len(Recorded(file)) = Cardinality(W)
  BY <1>0, RankType, RecordedIs
<1>2. Proper(Recorded(file)) /\ writing \in {"idle", "record", "line_end", "sync"}
  BY DEF CleanInv, Chained, KeptInv, Filed
<1>3. CASE writing \in {"idle", "record"}
  <2>1. Recorded(file) = chain.entries
    BY <1>3 DEF CleanInv, Chained
  <2> QED
    BY <1>1, <1>2, <2>1
<1>4. CASE writing \in {"line_end", "sync"}
  <2>1. Recorded(file) = Append(chain.entries, entry)
    BY <1>4 DEF CleanInv, Chained
  <2>2. Cardinality(W) = n + 1 /\ \A k \in 1..n : Recorded(file)[k] = chain.entries[k]
    BY <1>0, <1>1, <2>1, AppendIs
  <2>3. PICK p \in 1..Len(file) : p > synced /\ file[p] = entry /\ IsRecord(entry)
    BY <1>0, <1>4 DEF KeptInv, Halfway
  <2>4. p \in W
    BY <1>0, <2>3 DEF written, IsRecord
  <2>5. rank(W, synced) < rank(W, p) /\ rank(W, p) \in 1..Cardinality(W)
    BY <1>0, <2>3, <2>4, RankGrows, InOrderIs
  <2> HIDE DEF n, W
  <2>6. rank(W, synced) <= n
    BY <1>0, <1>1, <2>2, <2>5
  <2>7. Proper(chain.entries)
    <3>1. n <= Len(Recorded(file)) /\ Len(Recorded(file)) \in Nat
      BY <1>0, <1>1, <2>2
    <3>2. \A k \in 1..n : chain.entries[k] = Recorded(file)[k]
      BY <2>2
    <3> QED
      BY <1>0, <1>2, <3>1, <3>2, ProperPrefix DEF n
  <2> QED
    BY <1>0, <1>1, <2>2, <2>6, <2>7 DEF n, W
<1> QED
  BY <1>2, <1>3, <1>4

(* A log nobody tampered with, on a disk that returned no error, verifies, *)
(* with its checkpoints unless one was signed over records nobody had      *)
(* synced, across any number of stops and power losses (lib.rs with_sink,  *)
(* checkpoint, verify).                                                    *)
THEOREM CleanLogsVerify == AuditSpec => []CleanLogVerifies
<1>1. ASSUME KeptInv, CleanInv, state = "up", ~erred
      PROVE  verify_bundle(chain.entries, IF hasty THEN <<>> ELSE held) = {}
  <2>0. IsSeq(chain.entries) /\ IsSeq(held)
    BY <1>1 DEF KeptInv, Filed, CleanInv, Checkpointed
  <2>1. Proper(chain.entries)
    BY <1>1, SyncedIsHeld
  <2>2. CASE hasty
    <3>1. \A i \in 1..Len(<<>>) :
              /\ <<>>[i].sequence \in Nat /\ <<>>[i].sequence < Len(chain.entries)
              /\ chain.entries[<<>>[i].sequence + 1].chain_hash = <<>>[i].chain_hash
      BY EmptySequence
    <3>2. verify_bundle(chain.entries, <<>>) = {}
      BY <2>0, <2>1, <3>1, EmptySequence, ProperVerifies
    <3> QED
      BY <2>2, <3>2
  <2>3. CASE ~hasty
    <3>1. ASSUME NEW i \in 1..Len(held)
          PROVE  /\ held[i].sequence \in Nat /\ held[i].sequence < Len(chain.entries)
                 /\ chain.entries[held[i].sequence + 1].chain_hash = held[i].chain_hash
      <4>1. Names(held[i], file, synced)
        BY <1>1, <2>3 DEF CleanInv, Checkpointed
      <4>2. /\ held[i].sequence \in Nat /\ held[i].sequence < rank(written(file), synced)
            /\ Recorded(file)[held[i].sequence + 1].chain_hash = held[i].chain_hash
        BY <4>1 DEF Names
      <4>3. rank(written(file), synced) \in Nat /\ Len(chain.entries) \in Nat
        <5>1. IsSeq(file) /\ synced \in 0..Len(file) /\ Len(file) \in Nat
          BY <1>1, SeqFacts DEF KeptInv, Filed
        <5>2. Places(written(file), Len(file)) /\ synced \in Int
          BY <5>1, WrittenPlaces
        <5>3. rank(written(file), synced) \in 0..Cardinality(written(file))
              /\ Cardinality(written(file)) \in Nat
          BY <5>2, RankType
        <5> QED
          BY <2>0, <5>3, SeqFacts
      <4>4. held[i].sequence + 1 \in 1..rank(written(file), synced)
        BY <4>2, <4>3
      <4>5. /\ held[i].sequence + 1 \in 1..Len(chain.entries)
            /\ chain.entries[held[i].sequence + 1] = Recorded(file)[held[i].sequence + 1]
        BY <1>1, <4>4, SyncedIsHeld
      <4> QED
        BY <4>2, <4>3, <4>5
    <3>2. verify_bundle(chain.entries, held) = {}
      BY <2>0, <2>1, <3>1, ProperVerifies
    <3> QED
      BY <2>3, <3>2
  <2> QED
    BY <2>2, <2>3
<1>2. KeptInv /\ CleanInv => CleanLogVerifies
  BY <1>1 DEF CleanLogVerifies
<1> QED
  BY <1>2, KeptInvariant, CleanInvariant, PTL

-----------------------------------------------------------------------------
(***************************************************************************)
(* The network filter: what is enforced was committed, readiness is        *)
(* recent, and the two implementations of the flow contract agree.         *)
(*                                                                         *)
(* Publication writes the envelope before the record, and a reload reads   *)
(* the record, the envelope and the record again.  So what a reload admits *)
(* is what the record names now, and the record's generation only grows:   *)
(* Committing says so, together with what a publisher between its two      *)
(* writes holds.  Evidence says how old a health file can be.              *)
(***************************************************************************)

IsEnvelope(e) == e.generation \in Nat /\ e.sessions \subseteq Sessions

(* A committed generation is behind every record that follows it.          *)
Committing ==
    /\ IsEnvelope(recordFile) /\ IsEnvelope(task.envelope) /\ IsEnvelope(publishing.envelope)
    /\ recordFile = NoEnvelope \/ recordFile \in committed
    /\ publishing.owner # "none" => publishing.envelope.generation > recordFile.generation
    /\ task = [kind |-> task.kind, step |-> task.step, envelope |-> task.envelope, at |-> task.at]

(* The snapshot in force, and how far enforcement has got.                 *)
Enforcing ==
    /\ enforced \in Nat /\ enforced <= recordFile.generation
    /\ IsEnvelope(active) /\ active.generation <= enforced
    /\ active.generation = 0 => active.attributed = {}
    /\ \A p \in active.attributed : Owner[p] \in active.sessions

Evidences(h) ==
    h = NoHealth \/ /\ h.observed \in Nat /\ <<h.epoch, h.observed>> \in ran
                    /\ h.generation \in Nat /\ h.generation <= enforced

(* What the provider signs bears a reading of the clock at which it ran.   *)
Evidence ==
    /\ now \in Nat
    /\ provider = "running" => <<setBacks, now>> \in ran
    /\ Evidences(healthFile) /\ Evidences(evidence)

NetInv == Committing /\ Enforcing /\ Evidence

-----------------------------------------------------------------------------
(* Steps, by the group of variables they touch.                            *)

LEMMA InitNetInv == NetworkInit => NetInv
  BY DEF NetworkInit, NetInv, Committing, Enforcing, Evidence, Evidences, IsEnvelope, NoEnvelope, NoTask,
     NoPublication

LEMMA FilesKept ==
    ASSUME NetInv, UNCHANGED <<recordFile, publishing, committed, task>>
    PROVE  Committing'
  BY DEF NetInv, Committing, IsEnvelope

LEMMA FilterKept ==
    ASSUME NetInv, UNCHANGED <<enforced, active>>, recordFile'.generation \in Nat,
           recordFile.generation <= recordFile'.generation
    PROVE  Enforcing'
  BY DEF NetInv, Committing, Enforcing, IsEnvelope

LEMMA EvidenceKept ==
    ASSUME NetInv, UNCHANGED <<provider, now, setBacks, ran, healthFile, evidence, enforced>>
    PROVE  Evidence'
  BY DEF NetInv, Evidence, Evidences

LEMMA NoPublicationShape == NoPublication.owner = "none" /\ IsEnvelope(NoPublication.envelope)
  BY DEF NoPublication, NoEnvelope, IsEnvelope

(* A task that moves on keeps its shape.                                   *)
TaskFollows ==
    \/ task' = task \/ task' = NoTask
    \/ \E kind, step, e, at :
          IsEnvelope(e) /\ task' = [kind |-> kind, step |-> step, envelope |-> e, at |-> at]

LEMMA NoTaskShape ==
    /\ IsEnvelope(NoTask.envelope) /\ NoTask.kind = "none"
    /\ NoTask = [kind |-> NoTask.kind, step |-> NoTask.step, envelope |-> NoTask.envelope,
                 at |-> NoTask.at]
  BY DEF NoTask, NoEnvelope, IsEnvelope

LEMMA TaskKept ==
    ASSUME NetInv, TaskFollows
    PROVE  /\ IsEnvelope(task'.envelope)
           /\ task' = [kind |-> task'.kind, step |-> task'.step, envelope |-> task'.envelope, at |-> task'.at]
<1>1. CASE task' = task
  BY <1>1 DEF NetInv, Committing
<1>2. CASE task' = NoTask
  BY <1>2, NoTaskShape
<1>3. ASSUME NEW kind, NEW step, NEW e, NEW at, IsEnvelope(e),
             task' = [kind |-> kind, step |-> step, envelope |-> e, at |-> at]
      PROVE  /\ IsEnvelope(task'.envelope)
             /\ task' = [kind |-> task'.kind, step |-> task'.step, envelope |-> task'.envelope, at |-> task'.at]
  BY <1>3
<1> QED
  BY <1>1, <1>2, <1>3 DEF TaskFollows

(* A step that writes no policy file and installs nothing.                 *)
LEMMA QuietKeeps ==
    ASSUME NetInv, TaskFollows,
           UNCHANGED <<recordFile, publishing, committed, enforced, active, now, setBacks, ran, healthFile>>,
           provider' = provider \/ provider' # "running",
           evidence' \in {evidence, healthFile, NoHealth}
    PROVE  NetInv'
<1>1. Committing'
  BY TaskKept DEF NetInv, Committing, IsEnvelope
<1>2. Enforcing'
  BY DEF NetInv, Enforcing, IsEnvelope
<1>3. Evidence'
  BY DEF NetInv, Evidence, Evidences
<1> QED
  BY <1>1, <1>2, <1>3 DEF NetInv

LEMMA QuietProviderSteps ==
    ASSUME NetInv,
           \/ \E f \in Flows, clock \in {now, -1} : HandleFlow(f, clock)
           \/ StartFilter \/ BeginReload \/ ReadEnvelope \/ NewProviderKey
    PROVE  NetInv'
<1>1. UNCHANGED <<recordFile, publishing, committed, enforced, active, now, setBacks, ran, healthFile,
                  evidence, task>>
  BY DEF HandleFlow, StartFilter, BeginReload, ReadEnvelope, NewProviderKey, files, filter, health, host,
     prefs, env, time
<1>2. provider' = provider \/ provider' # "running"
  BY DEF HandleFlow, StartFilter, BeginReload, ReadEnvelope, NewProviderKey, filter
<1> QED
  BY <1>1, <1>2, QuietKeeps DEF TaskFollows

LEMMA QuietHostSteps ==
    ASSUME NetInv,
           \/ \E operation \in {"activate", "deactivate", "inspect"} : submit(operation)
           \/ NeedsApproval \/ Answered \/ RefreshEnrollment
           \/ RefreshPreferences \/ Loaded \/ Saved \/ OverdueSave \/ UserChangesPreferences
           \/ \E timedOut \in BOOLEAN : OperationFails(timedOut)
           \/ ConfigureFilter \/ MaintainPolicy \/ Prepare \/ EnablePreferences
    PROVE  NetInv'
<1>0. task = [kind |-> task.kind, step |-> task.step, envelope |-> task.envelope, at |-> task.at] /\ IsEnvelope(task.envelope)
  BY DEF NetInv, Committing
<1>1. ASSUME UNCHANGED <<files, filter, health, now, setBacks, ran>>, TaskFollows,
             evidence' \in {evidence, healthFile, NoHealth}
      PROVE  NetInv'
  BY <1>1, QuietKeeps DEF files, filter, health
<1>2. ASSUME \/ \E operation \in {"activate", "deactivate", "inspect"} : submit(operation)
             \/ NeedsApproval \/ Answered \/ Saved \/ OverdueSave \/ UserChangesPreferences
             \/ RefreshEnrollment
      PROVE  NetInv'
  BY <1>1, <1>2 DEF submit, NeedsApproval, Answered, Saved, OverdueSave, UserChangesPreferences,
     RefreshEnrollment, host, prefs, env, time, TaskFollows
<1>3. ASSUME \/ RefreshPreferences \/ EnablePreferences
             \/ \E timedOut \in BOOLEAN : OperationFails(timedOut)
      PROVE  NetInv'
  BY <1>1, <1>3 DEF RefreshPreferences, EnablePreferences, OperationFails, BeginOperation, host, env, time,
     TaskFollows
<1>4. ASSUME ConfigureFilter \/ MaintainPolicy PROVE NetInv'
  <2>1. task' = task \/ \E kind, step, at : task' = [kind |-> kind, step |-> step, envelope |-> NoEnvelope, at |-> at]
    BY <1>4 DEF ConfigureFilter, MaintainPolicy, NoTask
  <2>2. TaskFollows
    BY <2>1, NoTaskShape DEF TaskFollows, NoTask
  <2> QED
    BY <1>1, <1>4, <2>2 DEF ConfigureFilter, MaintainPolicy, host, env, time
<1>5. ASSUME Loaded PROVE NetInv'
  <2>1. task' = task \/ task' = NoTask \/ task' = [task EXCEPT !.step = "prepare"]
    BY <1>5 DEF Loaded, Done
  <2>2. [task EXCEPT !.step = "prepare"] = [kind |-> task.kind, step |-> "prepare", envelope |-> task.envelope, at |-> task.at]
    BY <1>0
  <2>3. TaskFollows
    BY <1>0, <2>1, <2>2 DEF TaskFollows
  <2> QED
    BY <1>1, <1>5, <2>3 DEF Loaded, host, env, time
<1>6. ASSUME Prepare PROVE NetInv'
  <2>1. IsEnvelope(prepared(task.at))
    BY DEF prepared, NetInv, Committing, IsEnvelope
  <2>2. \/ task' = [task EXCEPT !.step = "preferences"] \/ task' = NoTask
        \/ task' = [kind |-> task.kind, step |-> "publish", envelope |-> prepared(task.at), at |-> task.at]
    BY <1>6 DEF Prepare, Done
  <2>3. [task EXCEPT !.step = "preferences"] =
           [kind |-> task.kind, step |-> "preferences", envelope |-> task.envelope, at |-> task.at]
    BY <1>0
  <2>4. TaskFollows
    BY <1>0, <2>1, <2>2, <2>3 DEF TaskFollows
  <2> QED
    BY <1>1, <1>6, <2>4 DEF Prepare, host, env, time
<1> QED
  BY <1>2, <1>3, <1>4, <1>5, <1>6

-----------------------------------------------------------------------------
(* Publication and its two writes.                                         *)

(* A publisher writes the envelope: nothing is committed yet.              *)
LEMMA PublishKeeps ==
    ASSUME NetInv, NEW owner, owner # "none", NEW e, IsEnvelope(e), NEW clock, Publish(owner, e, clock), TaskFollows,
           UNCHANGED <<enforced, active, provider, now, setBacks, ran, healthFile, evidence>>
    PROVE  NetInv'
<1>1. UNCHANGED <<recordFile, committed>>
  BY DEF Publish
<1>2. \/ publishing' = publishing
      \/ /\ publishing' = [owner |-> owner, envelope |-> e]
         /\ e.generation > recordFile.generation
  BY DEF Publish
<1>3. /\ IsEnvelope(publishing'.envelope)
      /\ publishing'.owner # "none" => publishing'.envelope.generation > recordFile.generation
  BY <1>2 DEF NetInv, Committing
<1>4. Committing'
  BY <1>1, <1>3, TaskKept DEF NetInv, Committing, IsEnvelope
<1>5. Enforcing' /\ Evidence'
  BY <1>1 DEF NetInv, Enforcing, Evidence, Evidences, IsEnvelope
<1> QED
  BY <1>4, <1>5 DEF NetInv

(* The record moves to a higher generation.                                *)
LEMMA CommitKeeps ==
    ASSUME NetInv, NEW owner, owner # "none", CommitRecord(owner), TaskFollows,
           UNCHANGED <<enforced, active, provider, now, setBacks, ran, healthFile, evidence>>
    PROVE  NetInv'
<1>1. /\ recordFile' = publishing.envelope /\ IsEnvelope(recordFile')
      /\ recordFile'.generation > recordFile.generation
      /\ recordFile' \in committed' /\ publishing' = NoPublication
  BY DEF CommitRecord, NetInv, Committing, IsEnvelope
<1>2. Committing'
  BY <1>1, NoPublicationShape, TaskKept DEF NetInv, Committing, IsEnvelope
<1>3. recordFile.generation \in Nat /\ recordFile'.generation \in Nat
  BY <1>1 DEF NetInv, Committing, IsEnvelope
<1>4. enforced <= recordFile'.generation
  BY <1>1, <1>3 DEF NetInv, Enforcing
<1>5. Enforcing' /\ Evidence'
  BY <1>4 DEF NetInv, Enforcing, Evidence, Evidences, IsEnvelope
<1> QED
  BY <1>2, <1>5 DEF NetInv

(* A publisher lets go of the lock between its writes.                     *)
LEMMA AbandonKeeps ==
    ASSUME NetInv, TaskFollows, publishing' = publishing \/ publishing' = NoPublication,
           UNCHANGED <<recordFile, committed, enforced, active, provider, now, setBacks, ran, healthFile>>,
           evidence' \in {evidence, NoHealth}
    PROVE  NetInv'
<1>1. Committing'
  BY NoPublicationShape, TaskKept DEF NetInv, Committing, IsEnvelope
<1>2. Enforcing' /\ Evidence'
  BY DEF NetInv, Enforcing, Evidence, Evidences, IsEnvelope
<1> QED
  BY <1>1, <1>2 DEF NetInv

LEMMA PublisherSteps ==
    ASSUME NetInv, \/ PublishSessions \/ CommitSessions \/ AbandonPublication
                   \/ HostPublish \/ HostCommit \/ HostRestart
    PROVE  NetInv'
<1>0. task = [kind |-> task.kind, step |-> task.step, envelope |-> task.envelope, at |-> task.at] /\ IsEnvelope(task.envelope)
  BY DEF NetInv, Committing
<1>1. CASE PublishSessions
  <2>1. PICK e \in SessionEnvelopes : Publish("daemon", e, now)
    BY <1>1 DEF PublishSessions
  <2>2. IsEnvelope(e) /\ "daemon" # "none"
    BY NetworkAssumption DEF IsEnvelope
  <2> QED
    BY <1>1, <2>1, <2>2, PublishKeeps DEF PublishSessions, TaskFollows, filter, health, host, prefs, env, time
<1>2. CASE CommitSessions
  <2>1. "daemon" # "none"
    OBVIOUS
  <2> QED
    BY <1>2, <2>1, CommitKeeps DEF CommitSessions, TaskFollows, filter, health, host, prefs, env, time
<1>3. CASE AbandonPublication
  BY <1>3, AbandonKeeps DEF AbandonPublication, TaskFollows, filter, health, host, prefs, time
<1>4. CASE HostPublish
  <2>1. CASE Publish("host", task.envelope, task.at) /\ task' = [task EXCEPT !.step = "commit"]
    <3>1. [task EXCEPT !.step = "commit"] =
             [kind |-> task.kind, step |-> "commit", envelope |-> task.envelope, at |-> task.at] /\ "host" # "none"
      BY <1>0
    <3>2. TaskFollows
      BY <1>0, <2>1, <3>1 DEF TaskFollows
    <3> QED
      BY <1>0, <1>4, <2>1, <3>1, <3>2, PublishKeeps DEF HostPublish, filter, health, host, env, time
  <2>2. CASE Done("refused") /\ UNCHANGED files
    BY <1>4, <2>2, QuietKeeps DEF HostPublish, Done, TaskFollows, files, filter, health, host, env, time
  <2> QED
    BY <1>4, <2>1, <2>2 DEF HostPublish
<1>5. CASE HostCommit
  <2>1. task' = NoTask \/ task' = [task EXCEPT !.step = "preferences"]
    BY <1>5 DEF HostCommit, Done
  <2>2. [task EXCEPT !.step = "preferences"] =
           [kind |-> task.kind, step |-> "preferences", envelope |-> task.envelope, at |-> task.at] /\ "host" # "none"
    BY <1>0
  <2>3. TaskFollows
    BY <1>0, <2>1, <2>2 DEF TaskFollows
  <2> QED
    BY <1>5, <2>2, <2>3, CommitKeeps DEF HostCommit, filter, health, host, env, time
<1>6. CASE HostRestart
  BY <1>6, AbandonKeeps DEF HostRestart, TaskFollows, filter, health, time
<1> QED
  BY <1>1, <1>2, <1>3, <1>4, <1>5, <1>6

-----------------------------------------------------------------------------
(* The provider: installing, stopping, signing; and time.                  *)

(* What a reload admits is what the record names.                          *)
LEMMA AdmittedIsCommitted ==
    ASSUME NetInv, NEW before, NEW e, NEW clock, admits(before, e, recordFile, clock)
    PROVE  /\ e = recordFile /\ e \in committed /\ e.generation > 0
           /\ \A p \in e.attributed : Owner[p] \in e.sessions
  BY DEF admits, verify, NetInv, Committing

LEMMA FinishReloadKeeps ==
    ASSUME NetInv, FinishReload
    PROVE  NetInv'
<1>1. UNCHANGED <<recordFile, publishing, committed, task, healthFile, evidence, now, setBacks>>
  BY DEF FinishReload, files, host, prefs
<1>2. Committing'
  BY <1>1, FilesKept
<1>3. \/ UNCHANGED <<active, enforced>>
      \/ /\ admits(reading.before, reading.envelope, recordFile, reading.at)
         /\ install(reading.envelope)
  BY DEF FinishReload
<1>4. /\ Enforcing' /\ enforced <= enforced' /\ enforced' \in Nat /\ enforced \in Nat
  <2>1. CASE UNCHANGED <<active, enforced>>
    BY <1>1, <2>1 DEF NetInv, Enforcing, IsEnvelope
  <2>2. CASE admits(reading.before, reading.envelope, recordFile, reading.at) /\ install(reading.envelope)
    <3>1. /\ active' = recordFile /\ recordFile.generation \in Nat /\ recordFile.generation > 0
          /\ \A q \in recordFile.attributed : Owner[q] \in recordFile.sessions
      BY <2>2, AdmittedIsCommitted DEF install, NetInv, Committing, IsEnvelope
    <3>2. enforced' = recordFile.generation
      BY <2>2, <3>1, AdmittedIsCommitted DEF install, NetInv, Enforcing
    <3> QED
      BY <1>1, <3>1, <3>2 DEF NetInv, Committing, Enforcing, IsEnvelope
  <2> QED
    BY <1>3, <2>1, <2>2
<1>5. /\ ran \subseteq ran'
      /\ provider' = "running" => <<setBacks, now>> \in ran'
  BY DEF FinishReload
<1>6. Evidence'
  <2>1. ASSUME NEW h, Evidences(h) PROVE
          h = NoHealth \/ /\ h.observed \in Nat /\ <<h.epoch, h.observed>> \in ran'
                          /\ h.generation \in Nat /\ h.generation <= enforced'
    BY <1>4, <1>5, <2>1 DEF Evidences
  <2> QED
    BY <1>1, <1>5, <2>1 DEF NetInv, Evidence, Evidences
<1> QED
  BY <1>2, <1>4, <1>6 DEF NetInv

LEMMA ProviderRest ==
    ASSUME NetInv, StopFilter \/ ProviderExit \/ PublishHealth \/ Tick
    PROVE  NetInv'
<1>1. UNCHANGED <<recordFile, publishing, committed, task, enforced, evidence>>
  BY DEF StopFilter, ProviderExit, PublishHealth, Tick, files, filter, host, prefs
<1>2. Committing'
  BY <1>1, FilesKept
<1>3. active' = NoEnvelope \/ active' = active
  BY DEF StopFilter, ProviderExit, PublishHealth, Tick, filter
<1>4. Enforcing'
  BY <1>1, <1>3 DEF NetInv, Committing, Enforcing, IsEnvelope, NoEnvelope
<1>5. CASE StopFilter \/ ProviderExit
  <2>1. UNCHANGED <<now, setBacks, ran, healthFile>> /\ provider' # "running"
    BY <1>5 DEF StopFilter, ProviderExit, health, time
  <2> QED
    BY <1>1, <1>2, <1>4, <2>1 DEF NetInv, Evidence, Evidences
<1>6. CASE PublishHealth
  <2>1. /\ UNCHANGED <<now, setBacks, ran, provider>> /\ provider = "running"
        /\ healthFile'.observed = now /\ healthFile'.generation = active.generation
        /\ healthFile'.epoch = setBacks
    BY <1>6 DEF PublishHealth, env, time, filter
  <2> QED
    BY <1>1, <1>2, <1>4, <2>1 DEF NetInv, Evidence, Evidences, Enforcing, IsEnvelope
<1>7. CASE Tick
  <2>1. /\ now' \in Nat /\ UNCHANGED <<provider, healthFile>>
        /\ ran \subseteq ran'
        /\ provider' = "running" => <<setBacks', now'>> \in ran'
    BY <1>7, NetworkAssumption DEF Tick, filter, health
  <2>2. ASSUME NEW h, Evidences(h) PROVE
          h = NoHealth \/ /\ h.observed \in Nat /\ <<h.epoch, h.observed>> \in ran'
                          /\ h.generation \in Nat /\ h.generation <= enforced'
    BY <1>1, <2>1, <2>2 DEF Evidences
  <2>3. Evidence'
    BY <1>1, <2>1, <2>2 DEF NetInv, Evidence, Evidences
  <2> QED
    BY <1>2, <1>4, <2>3 DEF NetInv
<1> QED
  BY <1>5, <1>6, <1>7

LEMMA NextNetInv == NetInv /\ [NetworkStep]_networkVars => NetInv'
<1> SUFFICES ASSUME NetInv, [NetworkStep]_networkVars PROVE NetInv'
  OBVIOUS
<1>1. CASE UNCHANGED networkVars
  BY <1>1, QuietKeeps DEF networkVars, files, filter, health, host, prefs, env, time, TaskFollows
<1>2. CASE NetworkStep
  BY <1>2, QuietProviderSteps, QuietHostSteps, PublisherSteps, FinishReloadKeeps, ProviderRest
     DEF NetworkStep, ProviderStep, HostStep, Reload
<1> QED
  BY <1>1, <1>2

(* In every reachable state files, enforcement and evidence stand to one   *)
(* another as NetInv says.                                                 *)
THEOREM NetworkInvariant == NetworkSpec => []NetInv
  BY InitNetInv, NextNetInv, PTL DEF NetworkSpec

(* The provider only ever installs a policy whose record was committed,    *)
(* and none older than it enforced before, whenever it or a publisher      *)
(* stops (NativeNetworkPolicyCoordinator, NativeNetworkPolicyPublisher).   *)
THEOREM CommittedIsEnforced == NetworkSpec => EnforcedWasCommitted
<1>1. NetInv /\ [NetworkStep]_networkVars =>
        [active' # active /\ active' # NoEnvelope =>
            active' \in committed /\ active'.generation >= enforced]_networkVars
  <2> SUFFICES ASSUME NetInv, [NetworkStep]_networkVars, active' # active, active' # NoEnvelope
               PROVE  active' \in committed /\ active'.generation >= enforced
    OBVIOUS
  <2>1. FinishReload
    BY DEF NetworkStep, ProviderStep, HostStep, Reload, HandleFlow, StartFilter, BeginReload, ReadEnvelope,
       StopFilter, ProviderExit, PublishHealth, NewProviderKey, submit, NeedsApproval, Answered, RefreshEnrollment,
       RefreshPreferences, Loaded, Saved, OverdueSave, UserChangesPreferences, OperationFails,
       ConfigureFilter, MaintainPolicy, Prepare, HostPublish, HostCommit, EnablePreferences, HostRestart,
       PublishSessions, CommitSessions, AbandonPublication, Tick, networkVars, filter
  <2>2. admits(reading.before, reading.envelope, recordFile, reading.at) /\ active' = reading.envelope
    BY <2>1 DEF FinishReload, install
  <2>3. active' = recordFile /\ active' \in committed
    BY <2>2, AdmittedIsCommitted
  <2> QED
    BY <2>3 DEF NetInv, Enforcing, Committing, IsEnvelope
<1> QED
  BY <1>1, NetworkInvariant, PTL DEF NetworkSpec, EnforcedWasCommitted

(* What the host presents as ready ran at a reading of the clock that is   *)
(* not ahead of now nor older than the evidence age, and its evidence      *)
(* speaks of a generation that was enforced (NetworkEnforcementHealth      *)
(* evaluate). The reading is one of the stretch between two settings back  *)
(* of the clock in which the evidence was signed: when the clock has been  *)
(* set back since, it lies further in the past than it looks.              *)
THEOREM ReadyProvidersRanRecently == NetworkSpec => []ReadyMeansRecentlyRunning
<1>1. NetInv => ReadyMeansRecentlyRunning
  <2> SUFFICES ASSUME NetInv, posture = "flow_evidence_unavailable"
               PROVE  /\ \E u \in 0..now : <<evidence.epoch, u>> \in ran /\ now - u <= MaxEvidenceAge
                      /\ evidence.generation <= enforced
    BY DEF ReadyMeansRecentlyRunning
  <2>1. /\ evidence # NoHealth /\ ~(evidence.observed > now)
        /\ ~(now - evidence.observed > MaxEvidenceAge)
    BY DEF posture
  <2>2. /\ evidence.observed \in Nat /\ now \in Nat /\ <<evidence.epoch, evidence.observed>> \in ran
        /\ evidence.generation <= enforced
    BY <2>1 DEF NetInv, Evidence, Evidences
  <2>3. evidence.observed \in 0..now /\ now - evidence.observed <= MaxEvidenceAge
    BY <2>1, <2>2, NetworkAssumption
  <2> QED
    BY <2>2, <2>3
<1> QED
  BY <1>1, NetworkInvariant, PTL
-----------------------------------------------------------------------------
(* The two implementations of the flow contract.                           *)

LEMMA LeastPlace ==
    ASSUME NEW T, T \subseteq Nat, T # {}
    PROVE  \E x \in T : \A y \in T : x <= y
<1> DEFINE R == OpToRel(<, Nat)
<1>1. IsWellFoundedOn(R, Nat)
  BY NatLessThanWellFounded
<1>2. \A x, y \in Nat : y < x => <<y, x>> \in R
  BY DEF OpToRel
<1> HIDE DEF R
<1>3. PICK x \in T : \A y \in T : ~ (<<y, x>> \in R)
  BY <1>1, WFMin
<1>4. ASSUME NEW y \in T PROVE x <= y
  <2>1. x \in Nat /\ y \in Nat /\ ~(y < x)
    BY <1>2, <1>3
  <2> QED
    BY <2>1
<1> QED
  BY <1>4

(* The contract takes the first rule of the name if its protocol is the    *)
(* flow's, the extension the first rule of both: the same one.             *)
LEMMA FirstIsFirst ==
    ASSUME NEW rules, DOMAIN rules \subseteq Nat, NEW f, Named(rules, f) # {},
           First(rules, Named(rules, f)).protocol = f.protocol
    PROVE  First(rules, Matching(rules, f)) = First(rules, Named(rules, f))
<1> DEFINE least(S) == CHOOSE i \in S : \A j \in S : i <= j
           N == Named(rules, f)
           M == Matching(rules, f)
<1>1. N \subseteq Nat /\ M \subseteq N /\ \A i \in N : rules[i].protocol = f.protocol => i \in M
  BY DEF Named, Matching
<1>2. First(rules, N) = rules[least(N)] /\ First(rules, M) = rules[least(M)]
  BY DEF First
<1> HIDE DEF N, M
<1>3. least(N) \in N /\ \A j \in N : least(N) <= j
  <2>1. \E i \in N : \A j \in N : i <= j
    BY <1>1, LeastPlace DEF N
  <2> QED
    BY <2>1
<1>4. least(N) \in M
  BY <1>1, <1>2, <1>3 DEF N
<1>5. least(M) \in M /\ \A j \in M : least(M) <= j
  <2>1. \E i \in M : \A j \in M : i <= j
    BY <1>1, <1>4, LeastPlace
  <2> QED
    BY <2>1
<1>6. least(M) \in Nat /\ least(N) \in Nat /\ least(M) <= least(N) /\ least(N) <= least(M)
  BY <1>1, <1>3, <1>4, <1>5
<1>7. least(M) = least(N)
  <2>1. PICK m, n : m = least(M) /\ n = least(N)
    OBVIOUS
  <2>2. m \in Nat /\ n \in Nat /\ m <= n /\ n <= m
    BY <1>6, <2>1
  <2>3. m = n
    BY <2>2
  <2> QED
    BY <2>1, <2>3
<1> QED
  BY <1>2, <1>7 DEF N, M

(* No rule of a policy writes the flow's address in another text.          *)
Unaliased(policy, f) ==
    \A i \in DOMAIN policy.rules : \A a \in policy.rules[i].addresses :
        AddressOf[a] = AddressOf[f.address] => a = f.address

(* Which evaluations are the same and which permission the contract does   *)
(* not share.                                                              *)
LEMMA DestinationsAgree ==
    ASSUME NEW policy, DOMAIN policy.rules \subseteq Nat, NEW f, f.spelling # "folding",
           f.spelling \in {"plain", "folding", "malformed"}, NEW clock
    PROVE  /\ f.dots <= 1 /\ Unaliased(policy, f) =>
                 evaluate(policy, f, clock) = evaluate_destination(policy, f, clock)
           /\ evaluate(policy, f, clock) = "permit_pinned_destination" =>
                 evaluate_destination(policy, f, clock) = "permit_pinned_destination"
<1>0. normalizes(f) <=> f.dots <= 1 /\ normalize_hostname_ok(f)
  BY DEF normalizes, normalize_hostname_ok
<1>1. CASE Named(policy.rules, f) = {}
  BY <1>0, <1>1 DEF evaluate, evaluate_destination
<1>2. CASE Named(policy.rules, f) # {}
  <2> DEFINE first == First(policy.rules, Named(policy.rules, f))
             rule  == First(policy.rules, Matching(policy.rules, f))
             taken == IF first.protocol = f.protocol THEN first ELSE rule
             pinned(r) == AddressOf[f.address] \in {AddressOf[a] : a \in r.addresses}
  <2>1. taken = rule
    BY <1>2, FirstIsFirst
  <2>2. evaluate_destination(policy, f, clock) =
          IF ~f.outbound THEN "deny_inbound_flow"
          ELSE IF ~f.public THEN "deny_private_or_local_address"
          ELSE IF f.name = "none" THEN "deny_missing_hostname"
          ELSE IF f.name = "address" THEN "deny_direct_ip"
          ELSE IF ~normalize_hostname_ok(f) THEN "deny_malformed_hostname"
          ELSE IF Named(policy.rules, f) = {} THEN "deny_unknown_destination"
          ELSE IF Matching(policy.rules, f) = {} THEN "deny_protocol"
          ELSE IF f.port \notin taken.ports THEN "deny_port"
          ELSE IF clock < 0 THEN "deny_clock_unavailable"
          ELSE IF clock >= taken.until THEN "deny_resolution_expired"
          ELSE IF ~pinned(taken) THEN "deny_resolution_mismatch"
          ELSE "permit_pinned_destination"
    BY DEF evaluate_destination
  <2>3. f.address \in rule.addresses => pinned(rule)
    OBVIOUS
  <2>4. Matching(policy.rules, f) # {} /\ Unaliased(policy, f) /\ pinned(rule) =>
           f.address \in rule.addresses
    <3> DEFINE M == Matching(policy.rules, f)
               least == CHOOSE i \in M : \A j \in M : i <= j
    <3>1. M \subseteq DOMAIN policy.rules /\ M \subseteq Nat
      BY DEF Matching, Named
    <3>2. M # {} => least \in M
      <4> HIDE DEF M
      <4>1. M # {} => \E i \in M : \A j \in M : i <= j
        BY <3>1, LeastPlace
      <4> QED
        BY <4>1
    <3>3. rule = policy.rules[least]
      BY DEF First
    <3> HIDE DEF least, M, rule
    <3> QED
      BY <3>1, <3>2, <3>3 DEF Unaliased, M
  <2>5. evaluate(policy, f, clock) =
          IF ~f.outbound THEN "deny_inbound_flow"
          ELSE IF ~f.public THEN "deny_private_or_local_address"
          ELSE IF f.name = "none" THEN "deny_missing_hostname"
          ELSE IF f.name = "address" THEN "deny_direct_ip"
          ELSE IF ~normalizes(f) THEN "deny_malformed_hostname"
          ELSE IF Named(policy.rules, f) = {} THEN "deny_unknown_destination"
          ELSE IF Matching(policy.rules, f) = {} THEN "deny_protocol"
          ELSE IF f.port \notin rule.ports THEN "deny_port"
          ELSE IF clock < 0 THEN "deny_clock_unavailable"
          ELSE IF clock >= rule.until THEN "deny_resolution_expired"
          ELSE IF f.address \notin rule.addresses THEN "deny_resolution_mismatch"
          ELSE "permit_pinned_destination"
    BY DEF evaluate
  <2> HIDE DEF first, taken, rule, pinned
  <2> QED
    BY <1>0, <2>1, <2>2, <2>3, <2>4, <2>5
<1> QED
  BY <1>1, <1>2

(* What the evaluation of a destination and of a budget can say.           *)
LEMMA Reasons ==
    ASSUME NEW policy, NEW f, NEW clock \in Int, clock >= 0, NEW budget
    PROVE  /\ evaluate(policy, f, clock) \notin InvalidLease
           /\ budgetReason(policy, budget, f) \notin InvalidLease
  BY DEF evaluate, budgetReason, InvalidLease

LEMMA ModesAgree ==
    ASSUME NEW mode \in {"off", "observe", "prompt", "enforce"}, NEW reason
    PROVE  managedDecision(mode, reason) = managed_decision(mode, reason)
  BY DEF managedDecision, managed_decision, Verdict

LEMMA FlowsAgree ==
    ASSUME NetInv, NEW f \in Flows, f.spelling # "folding", NEW clock \in Int
    PROVE  /\ SameSpelling(f) => decideLocked(f, clock) = decide(f, clock)
           /\ decideLocked(f, clock) = Pinned => decide(f, clock) = Pinned
<1> DEFINE s == SessionOf(f)
<1>0. /\ f.spelling \in {"plain", "folding", "malformed"} /\ "none" \notin Sessions
      /\ SameSpelling(f) => f.dots <= 1
  BY NetworkAssumption DEF SameSpelling
<1>1. CASE s = "none"
  <2>1. f.process \notin active.attributed
    BY <1>0, <1>1 DEF SessionOf, NetInv, Enforcing, IsEnvelope
  <2> QED
    BY <1>1, <2>1 DEF decideLocked, decide, Unmanaged, Pinned
<1>2. CASE s # "none"
  <2>1. /\ s \in active.sessions /\ s \in Sessions /\ active.generation # 0
        /\ s = Owner[f.process] /\ f.process \in active.attributed
    BY <1>2 DEF SessionOf, NetInv, Enforcing, IsEnvelope
  <2> DEFINE policy == Policies[s]
             reason == evaluate(policy, f, clock)
             candidate == evaluate_destination(policy, f, clock)
             budget == budgetReason(policy, budgets[s], f)
  <2>2. policy.mode \in {"off", "observe", "prompt", "enforce"} /\ DOMAIN policy.rules \subseteq Nat
    BY <2>1, NetworkAssumption
  <2>3. /\ SameSpelling(f) => candidate = reason
        /\ reason = "permit_pinned_destination" => candidate = "permit_pinned_destination"
    <3>1. SameSpelling(f) => Unaliased(policy, f)
      BY <2>1 DEF SameSpelling, Unaliased
    <3> HIDE DEF policy
    <3> QED
      BY <1>0, <2>2, <3>1, DestinationsAgree
  <2>4. /\ decideReason(f, clock) =
             IF clock < 0 THEN "deny_clock_unavailable"
             ELSE IF clock >= active.expires THEN "deny_policy_expired"
             ELSE IF policy.mode = "off" THEN "mode_off"
             ELSE IF reason # "permit_pinned_destination" THEN reason
             ELSE budget
        /\ decideLocked(f, clock) =
             managedDecision(IF decideReason(f, clock) \in InvalidLease THEN "enforce" ELSE policy.mode,
                             decideReason(f, clock))
    BY <1>2 DEF decideReason, decideLocked
  <2>5. decide(f, clock) =
          IF clock < 0 THEN managed_decision("enforce", "deny_clock_unavailable")
          ELSE IF clock >= active.expires THEN managed_decision("enforce", "deny_policy_expired")
          ELSE IF policy.mode = "off" THEN Verdict(TRUE, "mode_off")
          ELSE IF candidate = "permit_pinned_destination" THEN managed_decision(policy.mode, budget)
          ELSE managed_decision(policy.mode, candidate)
    BY <2>1 DEF decide
  <2>6. clock >= 0 => reason \notin InvalidLease /\ budget \notin InvalidLease
    BY Reasons
  <2>7. \A r : \A m \in {"off", "observe", "prompt", "enforce"} : managedDecision(m, r) = managed_decision(m, r)
    BY ModesAgree
  <2>8. managedDecision("off", "mode_off") = Verdict(TRUE, "mode_off")
    BY DEF managedDecision, Verdict
  <2>9. \A r, m : managedDecision(m, r) = Pinned => r = "permit_pinned_destination"
    BY DEF managedDecision, Verdict, Pinned
  <2> HIDE DEF s, policy, reason, candidate, budget
  <2>10. CASE clock < 0
    BY <2>4, <2>5, <2>7, <2>10 DEF InvalidLease
  <2>11. CASE ~(clock < 0) /\ clock >= active.expires
    BY <2>4, <2>5, <2>7, <2>11 DEF InvalidLease
  <2>12. CASE ~(clock < 0) /\ ~(clock >= active.expires) /\ policy.mode = "off"
    BY <2>4, <2>5, <2>8, <2>12 DEF InvalidLease
  <2>13. CASE ~(clock < 0) /\ ~(clock >= active.expires) /\ policy.mode # "off"
    <3>1. reason \notin InvalidLease /\ budget \notin InvalidLease
      BY <2>6, <2>13
    <3>2. decideLocked(f, clock) =
             managedDecision(policy.mode, IF reason # "permit_pinned_destination" THEN reason ELSE budget)
      BY <2>4, <2>13, <3>1
    <3>3. decide(f, clock) =
             managedDecision(policy.mode, IF candidate # "permit_pinned_destination" THEN candidate ELSE budget)
      BY <2>2, <2>5, <2>7, <2>13
    <3>4. SameSpelling(f) => decideLocked(f, clock) = decide(f, clock)
      BY <2>3, <3>2, <3>3
    <3>5. decideLocked(f, clock) = Pinned => decide(f, clock) = Pinned
      BY <2>3, <2>9, <3>2, <3>3
    <3> QED
      BY <3>4, <3>5
  <2> QED
    BY <2>10, <2>11, <2>12, <2>13
<1> QED
  BY <1>1, <1>2

-----------------------------------------------------------------------------
(* The two verifiers of a signed snapshot.                                 *)

(* A list names as many things as it is long just when it repeats none.    *)
LEMMA DistinctCount ==
    ASSUME NEW n \in Nat, NEW f
    PROVE  Cardinality({f[i] : i \in 1..n}) = n <=> \A i \in 1..n : \A j \in 1..(i - 1) : f[j] # f[i]
<1> DEFINE T == {f[i] : i \in 1..n}
           g == [i \in 1..n |-> f[i]]
<1>1. /\ g \in Surjection(1..n, T)
      /\ g \in Injection(1..n, T) <=> \A i, j \in 1..n : f[i] = f[j] => i = j
  <2>1. \A i \in 1..n : g[i] = f[i]
    OBVIOUS
  <2>2. g \in [1..n -> T]
    OBVIOUS
  <2>3. \A t \in T : \E i \in 1..n : g[i] = t
    BY <2>1
  <2> HIDE DEF g, T
  <2> QED
    BY <2>1, <2>2, <2>3 DEF Surjection, Injection, IsInjective
<1>2. IsFiniteSet(1..n) /\ Cardinality(1..n) = n
  BY FS_Interval
<1> HIDE DEF T, g
<1>3. Cardinality(T) = n <=> \A i, j \in 1..n : f[i] = f[j] => i = j
  BY <1>1, <1>2, FS_Surjection
<1>4. (\A i, j \in 1..n : f[i] = f[j] => i = j) <=> \A i \in 1..n : \A j \in 1..(i - 1) : f[j] # f[i]
  <2>1. ASSUME \A i \in 1..n : \A j \in 1..(i - 1) : f[j] # f[i],
               NEW i \in 1..n, NEW j \in 1..n, f[i] = f[j]
        PROVE  i = j
    <3>1. i \in 1..(j - 1) \/ j \in 1..(i - 1) \/ i = j
      OBVIOUS
    <3> QED
      BY <2>1, <3>1
  <2>2. ASSUME \A i, j \in 1..n : f[i] = f[j] => i = j, NEW i \in 1..n, NEW j \in 1..(i - 1)
        PROVE  f[j] # f[i]
    <3>1. j \in 1..n /\ j # i
      OBVIOUS
    <3> QED
      BY <2>2, <3>1
  <2> QED
    BY <2>1, <2>2
<1> QED
  BY <1>3, <1>4 DEF T

(* A session as the extension and as the contract look at it.              *)
ExtensionSession(p, expires) ==
    /\ p.named = "plain"
    /\ Len(p.rules) <= Limits.rules
    /\ p.flows \in 1..Limits.flows /\ p.destinations \in 1..Limits.destinations
    /\ \A i \in DOMAIN p.rules :
          /\ validRule(p.rules[i], expires)
          /\ \A j \in 1..(i - 1) : RuleKey(p.rules[j]) # RuleKey(p.rules[i])

ContractSession(p, expires) ==
    valid_session(p) /\ \A i \in DOMAIN p.rules : p.rules[i].until <= expires

IsRule(r) == r.until \in Nat /\ IsFiniteSet(r.addresses.members)

IsSession(p) ==
    /\ p.flows \in Nat /\ p.destinations \in Nat
    /\ Len(p.rules) \in Nat /\ DOMAIN p.rules = 1..Len(p.rules)
    /\ p.named \in {"plain", "odd", "unusable"}
    /\ \A i \in DOMAIN p.rules : IsRule(p.rules[i])

(* Reading the addresses of a rule leaves no more of them, and as many as  *)
(* were written when no two denote the same one.                           *)
LEMMA AddressesRead ==
    ASSUME NEW r, IsRule(r)
    PROVE  /\ bounded(r.addresses.members, Limits.addresses) => bounded(addressesOf(r), Limits.addresses)
           /\ ~Repeats(r) /\ bounded(addressesOf(r), Limits.addresses) =>
                 bounded(r.addresses.members, Limits.addresses)
<1> DEFINE S == r.addresses.members
           T == addressesOf(r)
           g == [a \in S |-> AddressOf[a]]
<1>1. IsFiniteSet(S)
  BY DEF IsRule
<1>2. \A a \in S : g[a] = AddressOf[a]
  OBVIOUS
<1>3. T = {AddressOf[a] : a \in S}
  BY DEF addressesOf
<1>4. g \in [S -> T]
  BY <1>3
<1>5. ~Repeats(r) => \A a, b \in S : AddressOf[a] = AddressOf[b] => a = b
  BY DEF Repeats
<1> HIDE DEF S, T, g
<1>6. g \in Surjection(S, T)
  BY <1>2, <1>3, <1>4 DEF Surjection
<1>7. ~Repeats(r) => g \in Injection(S, T)
  BY <1>2, <1>4, <1>5 DEF Injection, IsInjective
<1>8. IsFiniteSet(T) /\ Cardinality(T) <= Cardinality(S) /\ (Cardinality(T) = Cardinality(S) <=> g \in Injection(S, T))
  BY <1>1, <1>6, FS_Surjection
<1>9. Cardinality(S) \in Nat /\ Cardinality(T) \in Nat /\ Limits.addresses \in Nat
  BY <1>1, <1>8, FS_CardinalityType, NetworkAssumption
<1>10. S = {} <=> T = {}
  BY <1>3
<1>11. bounded(S, Limits.addresses) => bounded(T, Limits.addresses)
  BY <1>8, <1>9, <1>10 DEF bounded
<1>12. ~Repeats(r) /\ bounded(T, Limits.addresses) => bounded(S, Limits.addresses)
  BY <1>7, <1>8, <1>9, <1>10 DEF bounded
<1> QED
  BY <1>11, <1>12 DEF S, T

LEMMA RulesAgree ==
    ASSUME NEW r, IsRule(r), NEW expires
    PROVE  /\ validRule(r, expires) => valid_rule(r) /\ r.until <= expires
           /\ ~Repeats(r) /\ valid_rule(r) /\ r.until <= expires => validRule(r, expires)
<1>1. ~Repeats(r) => ~r.ports.repeated /\ ~r.addresses.repeated
  BY DEF Repeats
<1>2. r.until \in Nat
  BY DEF IsRule
<1> HIDE DEF Repeats
<1> QED
  BY <1>1, <1>2, AddressesRead DEF validRule, valid_rule

LEMMA SessionsAgree ==
    ASSUME NEW p, IsSession(p), NEW expires
    PROVE  /\ ExtensionSession(p, expires) => ContractSession(p, expires)
           /\ ~Loose(p) /\ ContractSession(p, expires) => ExtensionSession(p, expires)
<1> DEFINE n == Len(p.rules)
           keys == [i \in 1..n |-> RuleKey(p.rules[i])]
           Apart == \A i \in DOMAIN p.rules : \A j \in 1..(i - 1) : RuleKey(p.rules[j]) # RuleKey(p.rules[i])
           Counted == Cardinality({RuleKey(p.rules[i]) : i \in DOMAIN p.rules}) = n
           Swift == \A i \in DOMAIN p.rules : validRule(p.rules[i], expires)
           Rust == \A i \in DOMAIN p.rules : valid_rule(p.rules[i]) /\ p.rules[i].until <= expires
           Charges == /\ n <= Limits.rules
                      /\ p.flows # 0 /\ p.flows <= Limits.flows
                      /\ p.destinations # 0 /\ p.destinations <= Limits.destinations
<1>0. n \in Nat /\ DOMAIN p.rules = 1..n /\ p.flows \in Nat /\ p.destinations \in Nat
  BY DEF IsSession
<1>1. Counted <=> Apart
  <2>1. {keys[i] : i \in 1..n} = {RuleKey(p.rules[i]) : i \in DOMAIN p.rules}
    BY <1>0
  <2>2. \A i \in 1..n : keys[i] = RuleKey(p.rules[i])
    OBVIOUS
  <2>3. \A i \in 1..n : \A j \in 1..(i - 1) : j \in 1..n
    BY <1>0
  <2> HIDE DEF keys
  <2>4. Cardinality({keys[i] : i \in 1..n}) = n <=> \A i \in 1..n : \A j \in 1..(i - 1) : keys[j] # keys[i]
    BY <1>0, DistinctCount
  <2> QED
    BY <1>0, <2>1, <2>2, <2>3, <2>4
<1>2. Swift => Rust
  BY RulesAgree DEF IsSession
<1>3. ~Loose(p) /\ Rust => Swift
  <2> SUFFICES ASSUME ~Loose(p), Rust, NEW i \in DOMAIN p.rules PROVE validRule(p.rules[i], expires)
    OBVIOUS
  <2>1. ~Repeats(p.rules[i]) /\ IsRule(p.rules[i])
    BY DEF Loose, IsSession
  <2> QED
    BY <2>1, RulesAgree
<1>4. ExtensionSession(p, expires) <=> p.named = "plain" /\ Charges /\ Swift /\ Apart
  BY <1>0, NetworkAssumption DEF ExtensionSession
<1>5. ContractSession(p, expires) <=> p.named # "unusable" /\ Charges /\ Rust /\ Counted
  BY DEF ContractSession, valid_session
<1>6. /\ p.named = "plain" => p.named # "unusable"
      /\ ~Loose(p) /\ p.named # "unusable" => p.named = "plain"
  BY DEF Loose, IsSession
<1> HIDE DEF Charges, Swift, Rust, Apart, Counted
<1> QED
  BY <1>1, <1>2, <1>3, <1>4, <1>5, <1>6

(* The attributions of a snapshot.                                         *)
LEMMA AttributionsAgree ==
    ASSUME NEW list, Len(list) \in Nat, DOMAIN list = 1..Len(list), NEW known
    PROVE  (\A i \in DOMAIN list :
               /\ list[i].process # "zero" /\ list[i].session \in known
               /\ \A j \in 1..(i - 1) : list[j].process # list[i].process)
           <=> LET bindings == {list[i] : i \in DOMAIN list} IN
               /\ \A b \in bindings : b.process # "zero" /\ b.session \in known
               /\ Cardinality({b.process : b \in bindings}) = Len(list)
<1> DEFINE n == Len(list)
           procs == [i \in 1..n |-> list[i].process]
           bindings == {list[i] : i \in DOMAIN list}
<1>1. {b.process : b \in bindings} = {procs[i] : i \in 1..n}
  OBVIOUS
<1>2. \A i \in 1..n : procs[i] = list[i].process
  OBVIOUS
<1>3. \A i \in 1..n : \A j \in 1..(i - 1) : j \in 1..n
  OBVIOUS
<1> HIDE DEF procs
<1>4. Cardinality({procs[i] : i \in 1..n}) = n <=> \A i \in 1..n : \A j \in 1..(i - 1) : procs[j] # procs[i]
  BY DistinctCount
<1>5. Cardinality({b.process : b \in bindings}) = n <=>
         \A i \in 1..n : \A j \in 1..(i - 1) : list[j].process # list[i].process
  BY <1>1, <1>2, <1>3, <1>4
<1>6. (\A b \in bindings : b.process # "zero" /\ b.session \in known) <=>
         \A i \in DOMAIN list : list[i].process # "zero" /\ list[i].session \in known
  OBVIOUS
<1> QED
  BY <1>5, <1>6

LEMMA VerifiersAgree == AcceptanceParity
<1> SUFFICES ASSUME NEW s \in Snapshots, NEW clock \in -1..MaxTime
             PROVE  /\ accepts(s, clock) => verify_contract(s, clock)
                    /\ (\A key \in DOMAIN s.sessions : ~Loose(s.sessions[key])) =>
                          accepts(s, clock) = verify_contract(s, clock)
  BY DEF AcceptanceParity
<1> DEFINE Swift == \A key \in DOMAIN s.sessions :
                       key = s.sessions[key].id /\ ExtensionSession(s.sessions[key], s.expires)
           Rust == \A key \in DOMAIN s.sessions :
                       key = s.sessions[key].id /\ ContractSession(s.sessions[key], s.expires)
           Bound == \A i \in DOMAIN s.attributions :
                      /\ s.attributions[i].process # "zero"
                      /\ s.attributions[i].session \in DOMAIN s.sessions
                      /\ \A j \in 1..(i - 1) : s.attributions[j].process # s.attributions[i].process
           Sizes == /\ Cardinality(DOMAIN s.sessions) <= Limits.sessions
                    /\ Len(s.attributions) <= Limits.attributions
           Heading == s.schema /\ s.generation # 0 /\ validWindow(s) /\ Sizes
           Window == /\ s.signed /\ s.instance
                     /\ clock >= 0 /\ s.issued <= clock + Limits.skew /\ s.expires > clock
<1>0. /\ s.generation \in Nat
      /\ Len(s.attributions) \in Nat /\ DOMAIN s.attributions = 1..Len(s.attributions)
      /\ \A key \in DOMAIN s.sessions : IsSession(s.sessions[key])
  BY NetworkAssumption DEF IsSession, IsRule
<1>1. Swift => Rust
  BY <1>0, SessionsAgree
<1>2. (\A key \in DOMAIN s.sessions : ~Loose(s.sessions[key])) /\ Rust => Swift
  BY <1>0, SessionsAgree
<1>3. accepts(s, clock) <=> Window /\ Heading /\ Swift /\ Bound
  BY <1>0 DEF accepts, validate, ExtensionSession
<1>4. Bound <=> LET bindings == {s.attributions[i] : i \in DOMAIN s.attributions} IN
                /\ \A b \in bindings : b.process # "zero" /\ b.session \in DOMAIN s.sessions
                /\ Cardinality({b.process : b \in bindings}) = Len(s.attributions)
  BY <1>0, AttributionsAgree
<1>5. verify_contract(s, clock) <=> Window /\ Heading /\ Rust /\ Bound
  BY <1>4 DEF verify_contract, valid_snapshot, ContractSession
<1>6. accepts(s, clock) \in BOOLEAN /\ verify_contract(s, clock) \in BOOLEAN
  BY DEF accepts, verify_contract
<1> HIDE DEF Swift, Rust, Bound, Sizes, Heading, Window
<1> QED
  BY <1>1, <1>2, <1>3, <1>5, <1>6

(* In every reachable state the extension and the portable contract decide *)
(* a flow alike, to the reason, unless its hostname has a second trailing  *)
(* dot or a character that only the extension folds to ASCII, or a rule    *)
(* writes its address in another text; the folded name alone can make the  *)
(* extension permit as pinned what the contract does not. The extension    *)
(* accepts no signed snapshot that the contract refuses, and the same ones *)
(* where no rule repeats a port or an address and every session name is of *)
(* the identifier alphabet (NativeNetworkPolicy.swift, vigil-network       *)
(* lib.rs and signed.rs).                                                  *)
THEOREM ContractsAgree == NetworkSpec => []FlowParity
<1>1. NetInv => FlowParity
  <2> SUFFICES ASSUME NetInv, NEW f \in Flows, NEW clock \in {now, -1}, f.projected
               PROVE  /\ SameSpelling(f) => decideLocked(f, clock) = decide(f, clock)
                      /\ f.spelling # "folding" /\ decideLocked(f, clock) = Pinned =>
                            decide(f, clock) = Pinned
    BY VerifiersAgree DEF FlowParity
  <2>1. clock \in Int
    BY DEF NetInv, Evidence
  <2>2. SameSpelling(f) => f.spelling # "folding"
    BY DEF SameSpelling
  <2> QED
    BY <2>1, <2>2, FlowsAgree
<1> QED
  BY <1>1, NetworkInvariant, PTL
=============================================================================
