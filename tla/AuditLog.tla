------------------------------- MODULE AuditLog -------------------------------
(***************************************************************************)
(* The server's evidence log (crates/vigil-audit): a hash chain in memory, *)
(* written line by line to an append-only file, and signed checkpoints in  *)
(* a file of their own.                                                    *)
(*                                                                         *)
(* A file is the sequence of pieces written to it: records, pieces of      *)
(* records, and line ends.  A line is written in three calls (the record,  *)
(* its line end, fsync); any of them can fail, and the process or the      *)
(* machine can stop between any two.  A process that stops leaves what it  *)
(* wrote; a machine that stops keeps what was synced and some prefix of    *)
(* the rest, perhaps with a piece of the record after it.                  *)
(*                                                                         *)
(* A hash is the tuple of what it commits to: equal only when those are.   *)
(* An event's integrity envelope repeats the entry's fields and is left    *)
(* out; signatures are those of the one trusted key.                       *)
(***************************************************************************)
EXTENDS Integers, Sequences, FiniteSets, SequencesExt

CONSTANTS
    Events,         \* what gets recorded
    MaxRecords,     \* bound: records started
    MaxCheckpoints, \* bound: checkpoints started
    MaxStops        \* bound: times the process or the machine stops

ASSUME AuditAssumption ==
    MaxRecords \in Nat /\ MaxCheckpoints \in Nat /\ MaxStops \in Nat

VARIABLES
    file, synced,       \* entries.jsonl, and how much of it is on the disk
    cpfile,             \* checkpoints.jsonl; its writes are not torn here
    state,              \* "up", "down", or "refused": the log would not load
    chain,              \* AuditChain in memory: entries, next_sequence, head
    held,               \* the checkpoints the chain holds
    writing, entry,     \* the append under the chain's lock
    signing,            \* a checkpoint signed and not yet written
    acknowledged,       \* entries whose append returned success, in order
    erred,              \* some append has returned an error (history)
    hasty,              \* a checkpoint was signed over a record not on the disk (history)
    started, stops

auditVars == <<file, synced, cpfile, state, chain, held, writing, entry, signing, acknowledged,
               erred, hasty, started, stops>>

LineEnd == [piece |-> "line_end"]
Torn    == [piece |-> "torn"]
Nothing == [piece |-> "nothing"]
Genesis == <<>>

link_hash(sequence, event, previous) == <<sequence, event, previous>>

Entry(sequence, event, previous) ==
    [piece |-> "record", sequence |-> sequence, event |-> event, previous_hash |-> previous,
     chain_hash |-> link_hash(sequence, event, previous)]

(* Mutant: lines that do not parse are skipped.                            *)
ReadableLoosely(f) == TRUE

(* read_lines: a line is one whole record, or empty.  Anything else, two   *)
(* records run together included, fails the load.                          *)
readable(f) ==
    \A i \in DOMAIN f :
        /\ f[i] # Torn
        /\ f[i] # LineEnd /\ i > 1 => f[i - 1] = LineEnd

(* The pieces at some places of a file, in their order.                    *)
rank(places, i) == Cardinality({j \in places : j <= i})
inOrder(f, places) ==
    [k \in 1..Cardinality(places) |-> f[CHOOSE i \in places : rank(places, i) = k]]

written(f) == {i \in DOMAIN f : f[i] \notin {LineEnd, Torn}}

(* The records of the lines that parse.                                    *)
records(f) ==
    inOrder(f, {i \in written(f) : /\ i > 1 => f[i - 1] = LineEnd
                                   /\ i < Len(f) => f[i + 1] = LineEnd})

(* Mutant: every process starts a chain of its own.                        *)
ResumedFromZero(es) == [entries |-> es, next |-> 0, head |-> Genesis]

(* with_sink, recover: the chain goes on from the last record.             *)
resumed(es) ==
    [entries |-> es,
     next |-> IF es = <<>> THEN 0 ELSE Last(es).sequence + 1,
     head |-> IF es = <<>> THEN Genesis ELSE Last(es).chain_hash]

-----------------------------------------------------------------------------
(* AuditBundle::verify.                                                    *)

hash_at(es, s) == {es[i].chain_hash : i \in {j \in DOMAIN es : es[j].sequence = s}}

verify_bundle(es, cps) ==
    LET expected(i) == IF i = 1 THEN 0 ELSE es[i - 1].sequence + 1
        previous(i) == IF i = 1 THEN Genesis ELSE es[i - 1].chain_hash
        \* a later entry with the same sequence replaces an earlier one
        final(s)    == {es[i].chain_hash : i \in {j \in DOMAIN es : es[j].sequence = s /\
                            \A k \in DOMAIN es : es[k].sequence = s => k <= j}}
    IN  {"DuplicateSequence" : i \in {j \in DOMAIN es : \E k \in 1..(j - 1) :
                                          es[k].sequence = es[j].sequence}}
        \cup {"SequenceGap" : i \in {j \in DOMAIN es : es[j].sequence # expected(j)}}
        \cup {"ChainBroken" : i \in {j \in DOMAIN es :
                 es[j].chain_hash # link_hash(es[j].sequence, es[j].event, previous(j))}}
        \cup {"TruncatedBelowCheckpoint" : c \in {x \in Range(cps) : hash_at(es, x.sequence) = {}}}
        \cup {"CheckpointMismatch" : c \in {x \in Range(cps) :
                 hash_at(es, x.sequence) # {} /\ x.chain_hash \notin final(x.sequence)}}

-----------------------------------------------------------------------------
AuditInit ==
    /\ file = <<>> /\ synced = 0 /\ cpfile = <<>>
    /\ state = "up" /\ chain = resumed(<<>>) /\ held = <<>>
    /\ writing = "idle" /\ entry = Nothing /\ signing = Nothing
    /\ acknowledged = <<>> /\ erred = FALSE /\ hasty = FALSE
    /\ started = 0 /\ stops = 0

(* append: the lock is held until the sink has answered.                   *)
Begin(e) ==
    /\ state = "up" /\ writing = "idle" /\ started < MaxRecords
    /\ started' = started + 1
    /\ entry' = Entry(chain.next, e, chain.head)
    /\ writing' = "record"
    /\ UNCHANGED <<file, synced, cpfile, state, chain, held, signing, acknowledged, erred, hasty,
                   stops>>

Fail == /\ writing' = "idle" /\ entry' = Nothing /\ erred' = TRUE
        /\ UNCHANGED <<synced, cpfile, state, chain, held, signing, acknowledged, hasty, started,
                       stops>>

(* append_line's first write: all of the record, or some of it.            *)
WriteRecord ==
    /\ writing = "record"
    /\ \/ /\ file' = Append(file, entry) /\ writing' = "line_end"
          /\ UNCHANGED <<synced, cpfile, state, chain, held, entry, signing, acknowledged, erred,
                         hasty, started, stops>>
       \/ file' \in {file, Append(file, Torn)} /\ Fail

WriteLineEnd ==
    /\ writing = "line_end"
    /\ \/ /\ file' = Append(file, LineEnd) /\ writing' = "sync"
          /\ UNCHANGED <<synced, cpfile, state, chain, held, entry, signing, acknowledged, erred,
                         hasty, started, stops>>
       \/ file' = file /\ Fail

(* sync_all, and then the chain advances and the caller is told.           *)
Sync ==
    /\ writing = "sync"
    /\ \/ /\ synced' = Len(file)
          /\ chain' = [entries |-> Append(chain.entries, entry), next |-> chain.next + 1,
                       head |-> entry.chain_hash]
          /\ acknowledged' = Append(acknowledged, entry)
          /\ writing' = "idle" /\ entry' = Nothing
          /\ UNCHANGED <<file, cpfile, state, held, signing, erred, hasty, started, stops>>
       \/ file' = file /\ Fail

(* checkpoint: the head is signed under the lock, which is then released;  *)
(* appends go on while the checkpoint is written.                          *)
SignCheckpoint ==
    /\ state = "up" /\ writing = "idle" /\ signing = Nothing /\ chain.head # Genesis
    /\ Len(cpfile) < MaxCheckpoints
    /\ signing' = [piece |-> "checkpoint", sequence |-> chain.next - 1, chain_hash |-> chain.head]
    /\ hasty' = (hasty \/ \E i \in written(file) : i > synced)
    /\ UNCHANGED <<file, synced, cpfile, state, chain, held, writing, entry, acknowledged, erred,
                   started, stops>>

(* The sink's writer lock keeps it from an append's write.                 *)
WriteCheckpoint ==
    /\ state = "up" /\ signing # Nothing /\ writing \in {"idle", "record"}
    /\ \/ cpfile' = Append(cpfile, signing) /\ held' = Append(held, signing)
       \/ UNCHANGED <<cpfile, held>>
    /\ signing' = Nothing
    /\ UNCHANGED <<file, synced, state, chain, writing, entry, acknowledged, erred, hasty, started,
                   stops>>

Down ==
    /\ stops < MaxStops /\ stops' = stops + 1
    /\ state' = "down" /\ chain' = resumed(<<>>) /\ held' = <<>>
    /\ writing' = "idle" /\ entry' = Nothing /\ signing' = Nothing
    /\ UNCHANGED <<cpfile, acknowledged, erred, hasty, started>>

(* The process stops, perhaps in the middle of the write it was making.    *)
(* What it has written stays, on the disk or on its way there.             *)
Stop ==
    /\ state = "up" /\ Down
    /\ \/ file' = file
       \/ writing = "record" /\ file' = Append(file, Torn)
    /\ UNCHANGED synced

(* The machine stops: what was synced is left, and a part of the rest.     *)
PowerLoss ==
    /\ Down
    /\ \E n \in synced..Len(file) :
         \/ file' = SubSeq(file, 1, n)
         \/ /\ IF n < Len(file) THEN file[n + 1] # LineEnd ELSE writing = "record"
            /\ file' = Append(SubSeq(file, 1, n), Torn)
    /\ synced' = Len(file')

(* load and with_sink: a log that does not read is refused, and so Core    *)
(* does not start.                                                         *)
Start ==
    /\ state = "down"
    /\ IF readable(file)
       THEN state' = "up" /\ chain' = resumed(records(file)) /\ held' = cpfile
       ELSE state' = "refused" /\ UNCHANGED <<chain, held>>
    /\ UNCHANGED <<file, synced, cpfile, writing, entry, signing, acknowledged, erred, hasty,
                   started, stops>>

AuditStep ==
    \/ \E e \in Events : Begin(e)
    \/ WriteRecord \/ WriteLineEnd \/ Sync
    \/ SignCheckpoint \/ WriteCheckpoint
    \/ Stop \/ PowerLoss \/ Start

AuditSpec == AuditInit /\ [][AuditStep]_auditVars

-----------------------------------------------------------------------------
(* Whatever was written, torn, half written or lost before a restart, a    *)
(* log that loads still holds every record the caller was told about, in   *)
(* order; otherwise the load is refused and Core stays down.               *)
NothingSilentlyLost ==
    state = "up" =>
        \E where \in [DOMAIN acknowledged -> DOMAIN chain.entries] :
            /\ \A i \in DOMAIN acknowledged : chain.entries[where[i]] = acknowledged[i]
            /\ \A i, j \in DOMAIN acknowledged : i < j => where[i] < where[j]

(* A log nobody touched, on a disk that returned no error, verifies: stops *)
(* and power losses in the middle of a record do not fork the chain, and   *)
(* do not orphan a checkpoint either unless one was signed over a record   *)
(* that a stopped process had written and nobody had synced.  So what      *)
(* verify reports is tampering.                                            *)
CleanLogVerifies ==
    state = "up" /\ ~erred => verify_bundle(chain.entries, IF hasty THEN <<>> ELSE held) = {}
=============================================================================
