------------------------------ MODULE EventStore ------------------------------
(***************************************************************************)
(* The database every VIGIL process opens (store.rs): the schema migration *)
(* each open runs, the hash-chained event log, and the signed checkpoints  *)
(* that pin its head (checkpoint.rs).                                      *)
(*                                                                         *)
(* A process opens the store, migrates it step by step, and then appends,  *)
(* checkpoints or verifies.  A step here is one statement or transaction.  *)
(*                                                                         *)
(* Abstractions.  A link hash stands for exactly what it commits to, the   *)
(* sequence numbers of the events it covers: hashes do not collide, and no *)
(* two events are equal.  Nothing tampers with the log here, so every      *)
(* alarm is a false one.  Nothing deletes events, so the AUTOINCREMENT     *)
(* mark of sqlite_sequence is their number.  Signatures are genuine.       *)
(***************************************************************************)
EXTENDS Integers, Sequences, FiniteSets

CONSTANTS
    Processes,      \* processes that open the store
    OldVersions,    \* schema versions the store may be found at
    MaxEvents       \* bound on the length of the log

SchemaVersion == 13

ASSUME StoreAssumption ==
    /\ OldVersions \subseteq 0..SchemaVersion /\ OldVersions # {}
    /\ MaxEvents \in Nat \ {0}

VARIABLES
    version,        \* PRAGMA user_version
    objects,        \* batch steps whose tables or columns exist
    columns,        \* the two chain columns of events
    events,         \* the log: previous_hash and chain_hash of each event
    checkpoints,    \* chain_checkpoints: the signed head, by sequence
    proc,           \* each process: where it stands and what it has read
    contended       \* whether two opens ever overlapped (history)

schema    == <<version, objects, columns>>
storeVars == <<version, objects, columns, events, checkpoints, proc, contended>>

ChainColumns == {"previous_hash", "chain_hash"}
None         == <<>>      \* NULL: no hash
Positions    == 1..MaxEvents

-----------------------------------------------------------------------------
(* The kinds of migration step.  Most are one transaction that creates its *)
(* tables if they do not exist and sets the version; later ones create or  *)
(* alter unconditionally; two run their work first and set the version in  *)
(* a statement of its own.                                                 *)
ChainStep    == 8
FillStep     == 11
CreatingSteps == {9, 10, 12, 13}
EnsuringSteps == 1..7

(* link_hash: the predecessor's link and this event.                       *)
LinkHash(previous, n) == Append(previous, n)

LastLink == IF events = <<>> THEN None ELSE events[Len(events)].link

(* What a correctly linked log of n events looks like at position i.       *)
History(i) == [j \in 1..i |-> j]

Fresh == [pc |-> "closed", step |-> 1, seen |-> {}, rows |-> 0, head |-> None,
          sequence |-> 0, listed |-> {}, result |-> "none"]

StoreInit ==
    /\ version \in OldVersions
    /\ objects = 1..version \ {ChainStep, FillStep}
    /\ columns = IF version >= ChainStep THEN ChainColumns ELSE {}
    /\ \E n \in 0..(MaxEvents - 1) :
          /\ version = 0 => n = 0
          /\ events = [i \in 1..n |-> IF version >= ChainStep
                                      THEN [previous |-> History(i - 1), link |-> History(i)]
                                      ELSE [previous |-> None, link |-> None]]
    /\ checkpoints = [s \in Positions |-> None]
    /\ proc = [p \in Processes |-> Fresh]
    /\ contended = FALSE

At(p, pc)   == proc[p].pc = pc
Goto(p, pc) == proc' = [proc EXCEPT ![p].pc = pc]
Opening(p)  == proc[p].pc \in {"check", "apply", "alter", "backfill", "stamp"}

(* An open that fails drops the handle it was opening; a process whose     *)
(* store is open keeps only the answer it gave last.                       *)
Refused(p)         == proc' = [proc EXCEPT ![p] = [Fresh EXCEPT !.result = "refused"]]
Return(p, result)  == proc' = [proc EXCEPT ![p] = [Fresh EXCEPT !.pc = "ready", !.result = result]]

-----------------------------------------------------------------------------
(* LocalStore::open.                                                       *)
Open(p) ==
    /\ At(p, "closed")
    /\ proc' = [proc EXCEPT ![p] = [Fresh EXCEPT !.pc = "check"]]
    /\ contended' = (contended \/ \E q \in Processes \ {p} : Opening(q))
    /\ UNCHANGED <<schema, events, checkpoints>>

(* migrate reads the version before each step, outside of the step's own   *)
(* transaction, and once more at the end.                                  *)
CheckVersion(p) ==
    LET k == proc[p].step
    IN  /\ At(p, "check")
        /\ \/ k > SchemaVersion /\ version = SchemaVersion /\ Return(p, "none")
           \/ k > SchemaVersion /\ version # SchemaVersion /\ Refused(p)
           \/ k <= SchemaVersion /\ version < k  /\ Goto(p, "apply")
           \/ k <= SchemaVersion /\ version >= k /\ proc' = [proc EXCEPT ![p].step = k + 1]
        /\ UNCHANGED <<schema, events, checkpoints, contended>>

NextStep(p) == proc' = [proc EXCEPT ![p].pc = "check", ![p].step = @ + 1]

(* Mutant: the version is set in a statement of its own.                   *)
RunBatchUnstamped(p, k) ==
    /\ objects' = objects \cup {k}
    /\ Goto(p, "stamp")
    /\ UNCHANGED version

(* The batch of a step: its tables and its version in one transaction.     *)
RunBatch(p, k) ==
    /\ objects' = objects \cup {k}
    /\ version' = k
    /\ NextStep(p)

ApplyEnsuring(p) ==
    /\ At(p, "apply") /\ proc[p].step \in EnsuringSteps
    /\ RunBatch(p, proc[p].step)
    /\ UNCHANGED <<columns, events, checkpoints, contended>>

(* An unconditional CREATE or ALTER fails when its object exists: the      *)
(* transaction rolls back and the open is refused.                         *)
ApplyCreating(p) ==
    /\ At(p, "apply") /\ proc[p].step \in CreatingSteps
    /\ IF proc[p].step \in objects THEN Refused(p) /\ UNCHANGED <<objects, version>>
                                   ELSE RunBatch(p, proc[p].step)
    /\ UNCHANGED <<columns, events, checkpoints, contended>>

(* backfill_budget_dimensions inserts what is missing (INSERT OR IGNORE).  *)
ApplyFill(p) ==
    /\ At(p, "apply") /\ proc[p].step = FillStep
    /\ Goto(p, "stamp")
    /\ UNCHANGED <<schema, events, checkpoints, contended>>

(* Mutant: columns that are there already are taken to be filled.          *)
ListColumnsTrusting(p) ==
    /\ At(p, "apply") /\ proc[p].step = ChainStep
    /\ proc' = [proc EXCEPT ![p].pc = IF columns = ChainColumns THEN "stamp" ELSE "alter",
                            ![p].seen = columns]
    /\ UNCHANGED <<schema, events, checkpoints, contended>>

(* add_event_chain_columns lists the columns, then adds each missing one   *)
(* in a statement of its own; one added meanwhile is an error.             *)
ListColumns(p) ==
    /\ At(p, "apply") /\ proc[p].step = ChainStep
    /\ proc' = [proc EXCEPT ![p].pc = "alter", ![p].seen = columns]
    /\ UNCHANGED <<schema, events, checkpoints, contended>>

AddColumn(p) ==
    LET Add(c) == IF c \in columns THEN Refused(p) /\ UNCHANGED columns
                  ELSE /\ columns' = columns \cup {c}
                       /\ proc' = [proc EXCEPT ![p].seen = @ \cup {c}]
    IN  /\ At(p, "alter")
        /\ CASE "previous_hash" \notin proc[p].seen -> Add("previous_hash")
             [] /\ "previous_hash" \in proc[p].seen
                /\ "chain_hash" \notin proc[p].seen -> Add("chain_hash")
             [] OTHER -> Goto(p, "backfill") /\ UNCHANGED columns
        /\ UNCHANGED <<version, objects, events, checkpoints, contended>>

(* Mutant: each event's link is computed without its predecessor's.        *)
BackfilledApart(log) ==
    [i \in DOMAIN log |-> [previous |-> None, link |-> LinkHash(None, i)]]

(* backfill_event_chain: every event is linked again from the first on.    *)
Backfilled(log) ==
    LET linked[i \in 0..Len(log)] == IF i = 0 THEN None ELSE LinkHash(linked[i - 1], i)
    IN  [i \in DOMAIN log |-> [previous |-> linked[i - 1], link |-> linked[i]]]

Backfill(p) ==
    /\ At(p, "backfill")
    /\ events' = Backfilled(events)
    /\ Goto(p, "stamp")
    /\ UNCHANGED <<schema, checkpoints, contended>>

(* PRAGMA user_version after the work of the step, unconditionally.        *)
Stamp(p) ==
    /\ At(p, "stamp")
    /\ version' = proc[p].step
    /\ NextStep(p)
    /\ UNCHANGED <<objects, columns, events, checkpoints, contended>>

-----------------------------------------------------------------------------
(* append_event: the last link is read and the new event stored in one     *)
(* immediate transaction.                                                  *)
AppendEvent(p) ==
    /\ At(p, "ready") /\ Len(events) < MaxEvents
    /\ events' = Append(events, [previous |-> LastLink,
                                 link |-> LinkHash(LastLink, Len(events) + 1)])
    /\ UNCHANGED <<schema, checkpoints, proc, contended>>

(* walk_event_chain over the rows of one SELECT.                           *)
WalkVerifies ==
    \A i \in DOMAIN events :
        /\ events[i].previous = IF i = 1 THEN None ELSE events[i - 1].link
        /\ events[i].link = LinkHash(events[i].previous, i)

(* The rows are read and walked; a disagreement is reported at once.       *)
Walk(p, next) ==
    IF WalkVerifies
    THEN proc' = [proc EXCEPT ![p].pc = next, ![p].rows = Len(events), ![p].head = LastLink]
    ELSE Return(p, "broken")

(* sqlite_sequence is read after the rows: more events issued than walked  *)
(* is reported as records removed from the end.                            *)
IssuedMore(p) == Len(events) > proc[p].rows

(* write_checkpoint: verify the chain, refuse an empty log, read the last  *)
(* sequence, and record head and sequence under the signature.             *)
CheckpointWalks(p) ==
    /\ At(p, "ready") /\ events # <<>>
    /\ Walk(p, "issued")
    /\ UNCHANGED <<schema, events, checkpoints, contended>>

CheckpointCompares(p) ==
    /\ At(p, "issued")
    /\ IF IssuedMore(p) THEN Return(p, "removed") ELSE Goto(p, "sequence")
    /\ UNCHANGED <<schema, events, checkpoints, contended>>

CheckpointNumbers(p) ==
    /\ At(p, "sequence")
    /\ proc' = [proc EXCEPT ![p].pc = "sign", ![p].sequence = Len(events)]
    /\ UNCHANGED <<schema, events, checkpoints, contended>>

CheckpointSigns(p) ==
    /\ At(p, "sign")
    /\ checkpoints' = [checkpoints EXCEPT ![proc[p].sequence] = proc[p].head]
    /\ Return(p, "signed")
    /\ UNCHANGED <<schema, events, contended>>

(* verify_event_chain_with_checkpoints: list the checkpoints, walk, then   *)
(* hold each against the link recomputed at its sequence.                  *)
VerifierLists(p) ==
    /\ At(p, "ready")
    /\ proc' = [proc EXCEPT ![p].pc = "walk",
                            ![p].listed = {<<s, checkpoints[s]>> :
                                             s \in {t \in Positions : checkpoints[t] # None}}]
    /\ UNCHANGED <<schema, events, checkpoints, contended>>

VerifierWalks(p) ==
    /\ At(p, "walk")
    /\ Walk(p, "verdict")
    /\ UNCHANGED <<schema, events, checkpoints, contended>>

VerifierConcludes(p) ==
    LET holds == \A c \in proc[p].listed : c[1] <= proc[p].rows /\ events[c[1]].link = c[2]
    IN  /\ At(p, "verdict")
        /\ \/ IssuedMore(p)            /\ Return(p, "removed")
           \/ ~IssuedMore(p) /\ holds  /\ Return(p, "verified")
           \/ ~IssuedMore(p) /\ ~holds /\ Return(p, "mismatch")
        /\ UNCHANGED <<schema, events, checkpoints, contended>>

(* The process exits or dies, wherever it stands; an open transaction      *)
(* rolls back.                                                             *)
Dies(p) ==
    /\ ~At(p, "closed")
    /\ proc' = [proc EXCEPT ![p] = Fresh]
    /\ UNCHANGED <<schema, events, checkpoints, contended>>

StoreStep == \E p \in Processes :
    \/ Open(p) \/ CheckVersion(p) \/ ApplyEnsuring(p) \/ ApplyCreating(p) \/ ApplyFill(p)
    \/ ListColumns(p) \/ AddColumn(p) \/ Backfill(p) \/ Stamp(p)
    \/ AppendEvent(p)
    \/ CheckpointWalks(p) \/ CheckpointCompares(p) \/ CheckpointNumbers(p) \/ CheckpointSigns(p)
    \/ VerifierLists(p) \/ VerifierWalks(p) \/ VerifierConcludes(p)
    \/ Dies(p)

StoreSpec == StoreInit /\ [][StoreStep]_storeVars

-----------------------------------------------------------------------------
(* Whatever two opens and their crashes interleave to, a process whose     *)
(* store is open finds every event, the ones that predate the chain        *)
(* included, linked to the whole history before it: the version that lets  *)
(* an open through step 8 is stamped only after backfill_event_chain, and  *)
(* append_event reads and links in one transaction, so the chain has no    *)
(* gap and does not fork.                                                  *)
LinksCoverHistory ==
    (\E p \in Processes : ~At(p, "closed") /\ ~Opening(p)) =>
        \A i \in DOMAIN events :
            events[i] = [previous |-> History(i - 1), link |-> History(i)]

(* verify_event_chain reports no broken link in a log nobody altered,      *)
(* whichever opens, backfills and appends run beside the walk.             *)
NoFalseBreak == \A p \in Processes : proc[p].result # "broken"

(* A checkpoint commits to the head at its sequence (checkpoint.rs:44      *)
(* "A signed commitment to the chain head at one sequence", :49 "The       *)
(* recomputed chain head at that sequence").  The code does not keep this: *)
(* write_checkpoint reads the head and then, in a statement of its own,    *)
(* the last sequence, and an event may be appended between the two         *)
(* (store.rs:793).                                                         *)
CheckpointIsTheHead ==
    \A s \in Positions : checkpoints[s] # None => checkpoints[s] = History(s)

(* What it does keep: the head filed under a sequence is one the log had   *)
(* at that sequence or before, never one it had not yet reached.           *)
CheckpointNamesAHead ==
    \A s \in Positions : checkpoints[s] # None =>
        s <= Len(events) /\ \E k \in 1..s : checkpoints[s] = History(k)

(* As long as no two opens overlap, an open is never refused: a migration  *)
(* killed after any of its statements leaves a store that the next open    *)
(* completes ("an interrupted upgrade leaves the database at a version     *)
(* that is still coherent", migrate).                                      *)
LoneOpenSucceeds == ~contended => \A p \in Processes : proc[p].result # "refused"
=============================================================================
