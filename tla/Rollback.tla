------------------------------- MODULE Rollback -------------------------------
(***************************************************************************)
(* Brokered changes to files and their rollback (broker.rs, rollback.rs),  *)
(* over the life of the session.  A broker records what a file held and    *)
(* what it is about to leave in it before it changes it; `vigil rollback`  *)
(* walks those records newest first, once the session is not running, and  *)
(* reports COMPLETE when it refused none of them.                          *)
(*                                                                         *)
(* Writers are invocations of the filesystem broker.  The record, the      *)
(* change, and in a rollback the check, the restoration and its mark are   *)
(* steps of their own: other writers, other programs and crashes come in   *)
(* between.  Records are ordered by the system clock as read before the    *)
(* file was, so by overlap or by setting the clock their order may be any. *)
(***************************************************************************)
EXTENDS SessionLifecycle

CONSTANTS
    Files,
    Contents,    \* what other programs may write
    Large,       \* contents above MAX_PRESERVED_BYTES
    Ops,         \* brokered operations: the files they change and what they leave
    Starts,      \* bound: what the files hold before the session
    Selections,  \* what a rollback may be asked for: all files, or one
    Writers,     \* invocations of the filesystem broker, one operation each
    MaxForeign   \* bound: changes by other programs

ASSUME RollbackAssumption ==
    /\ MaxForeign \in Nat /\ Selections \subseteq {Files} \cup {{f} : f \in Files}
    /\ \A op \in Ops : /\ op.kind \in {"write", "delete", "rename"}
                       /\ op.file \in Files /\ op.to \in Files
    /\ \A s \in Starts : s = [f \in Files |-> s[f]]

VARIABLES
    files,      \* what each file holds, or Absent
    preimages,  \* write_preimages, in the order they were inserted
    writer,     \* per writer: where it is and its operation
    rb,         \* the rollback
    foreign,    \* changes by other programs so far
    disturbed   \* files somebody else changed since the rollback began (history)

fileVars == <<files, preimages, writer, rb, foreign, disturbed>>
vars     == <<lifeVars, fileVars>>

Absent == "absent"
Ready  == [pc |-> "ready"]
Done   == [pc |-> "done"]
NoRun  == [pc |-> "idle", id |-> 0, todo |-> {}, refused |-> FALSE, considered |-> {}, marked |-> {}]

Init ==
    /\ InitLife
    /\ files \in IF workload = "files" THEN Starts ELSE {[f \in Files |-> Absent]}
    /\ preimages = <<>> /\ writer = [w \in Writers |-> Ready] /\ rb = NoRun
    /\ foreign = 0 /\ disturbed = {}

-----------------------------------------------------------------------------
(* Brokered changes.                                                       *)

(* What an operation leaves: a write its content, a delete nothing, and a  *)
(* rename the source's content in the destination and nothing in the       *)
(* source.  In the order the preimages are captured.                       *)
effects(op) ==
    CASE op.kind = "write"  -> <<[file |-> op.file, post |-> op.content]>>
      [] op.kind = "delete" -> <<[file |-> op.file, post |-> Absent]>>
      [] op.kind = "rename" -> <<[file |-> op.to, post |-> files[op.file]],
                                 [file |-> op.file, post |-> Absent]>>

(* capture_preimage: what the file holds, kept in the blob store unless it *)
(* is large.                                                               *)
captured(e, at) ==
    [file |-> e.file, prior |-> files[e.file], preserved |-> files[e.file] \notin Large,
     post |-> e.post, at |-> at, restored |-> FALSE]

(* A row for the effect e, whose timestamp may come before that of any     *)
(* other row of its file; rows of other files are restored independently.  *)
(* at is the rank of the timestamp.                                        *)
ranks(f) == {Len(preimages) + 1}
              \cup {preimages[i].at : i \in {j \in DOMAIN preimages : preimages[j].file = f}}

inserted(rows, e, at) ==
    Append([i \in DOMAIN rows |-> IF rows[i].at < at THEN rows[i] ELSE [rows[i] EXCEPT !.at = @ + 1]],
           captured(e, at))

(* The last time a call asks whether the session runs before it records:   *)
(* reserve_budget, or session_context for a delete.  A delete and a rename *)
(* need their source, and a rename reads it.                               *)
Admit(w, op) ==
    /\ workload = "files" /\ status = "running" /\ writer[w] = Ready
    /\ op.kind # "write" => files[op.file] # Absent
    /\ writer' = [writer EXCEPT ![w] = [pc |-> "capture", op |-> op, effects |-> effects(op)]]
    /\ UNCHANGED <<lifeVars, files, preimages, rb, foreign, disturbed>>

(* The next preimage is recorded, or the call fails.                       *)
Capture(w) ==
    /\ writer[w].pc = "capture"
    /\ \/ /\ \E at \in ranks(Head(writer[w].effects).file) :
               preimages' = inserted(preimages, Head(writer[w].effects), at)
          /\ writer' = [writer EXCEPT ![w] =
                [pc |-> IF Len(@.effects) = 1 THEN "perform" ELSE "capture", op |-> @.op,
                 effects |-> Tail(@.effects)]]
       \/ writer' = [writer EXCEPT ![w] = Done] /\ UNCHANGED preimages
    /\ UNCHANGED <<lifeVars, files, rb, foreign, disturbed>>

touched(op) == IF op.kind = "rename" THEN {op.file, op.to} ELSE {op.file}

disturbing(fs) == disturbed' = IF rb.pc = "idle" THEN {} ELSE disturbed \cup fs

(* The change itself, later, whatever became of the session meanwhile: it  *)
(* happens, or fails and leaves its preimages behind.  A delete reserves   *)
(* its budget only here.                                                   *)
Perform(w) ==
    /\ writer[w].pc = "perform" /\ writer' = [writer EXCEPT ![w] = Done]
    /\ \/ /\ writer[w].op.kind # "write" => files[writer[w].op.file] # Absent
          /\ LET es == effects(writer[w].op)
             IN  files' = [f \in Files |->
                             IF \E i \in DOMAIN es : es[i].file = f
                             THEN es[CHOOSE i \in DOMAIN es : es[i].file = f].post
                             ELSE files[f]]
          /\ disturbing(touched(writer[w].op))
       \/ UNCHANGED <<files, disturbed>>
    /\ UNCHANGED <<lifeVars, preimages, rb, foreign>>

(* Another program changes a file.                                         *)
Foreign(f) ==
    /\ workload = "files" /\ foreign < MaxForeign /\ foreign' = foreign + 1
    /\ \E c \in (Contents \cup {Absent}) \ {files[f]} : files' = [files EXCEPT ![f] = c]
    /\ disturbing({f})
    /\ UNCHANGED <<lifeVars, preimages, writer, rb>>

-----------------------------------------------------------------------------
(* `vigil rollback`.                                                       *)

(* Mutant: the oldest record comes first.                                  *)
OldestFirst(ids) == CHOOSE i \in ids : \A j \in ids : preimages[i].at <= preimages[j].at

(* preimages_for_session returns the rows newest first, by their           *)
(* timestamps, and they are taken in that order.  Rows recorded after they *)
(* were read do not change the order of those that were.                   *)
newest_first(ids) == CHOOSE i \in ids : \A j \in ids : preimages[j].at <= preimages[i].at

(* rollback_session begins, for every file or for one: refused only while  *)
(* the session is running.                                                 *)
Begin ==
    /\ workload = "files" /\ rb.pc \in {"idle", "done"} /\ status # "running"
    /\ \E fs \in Selections :
         LET ids == {i \in DOMAIN preimages : preimages[i].file \in fs}
         IN  rb' = [pc |-> "check", id |-> 0, todo |-> ids, refused |-> FALSE, considered |-> ids,
                    marked |-> {i \in ids : preimages[i].restored}]
    /\ disturbed' = {}
    /\ UNCHANGED <<lifeVars, files, preimages, writer, foreign>>

(* The rollback turns to pc, with row id in hand and todo left.            *)
turned(pc, id, todo, refused) ==
    [pc |-> pc, id |-> id, todo |-> todo, refused |-> refused,
     considered |-> rb.considered, marked |-> rb.marked]

(* One record: already restored when the rows were read, not preserved, or *)
(* the file is not what the broker left (verify_current_matches_postimage).*)
restorable(i) ==
    /\ i \notin rb.marked /\ preimages[i].preserved
    /\ files[preimages[i].file] = preimages[i].post

Check ==
    /\ rb.pc = "check" /\ rb.todo # {}
    /\ LET i == newest_first(rb.todo)
       IN  rb' = IF restorable(i) THEN turned("restore", i, rb.todo \ {i}, rb.refused)
                 ELSE turned("check", 0, rb.todo \ {i}, TRUE)
    /\ UNCHANGED <<lifeVars, files, preimages, writer, foreign, disturbed>>

(* The prior content is put back, or the file removed again.  A damaged    *)
(* blob is refused.                                                        *)
Restore ==
    /\ rb.pc = "restore"
    /\ LET row == preimages[rb.id]
       IN  \/ /\ row.prior = Absent => files[row.file] # Absent
              /\ files' = [files EXCEPT ![row.file] = row.prior]
              /\ rb' = turned("mark", rb.id, rb.todo, rb.refused)
           \/ /\ row.prior # Absent
              /\ rb' = turned("check", 0, rb.todo, TRUE)
              /\ UNCHANGED files
    /\ UNCHANGED <<lifeVars, preimages, writer, foreign, disturbed>>

(* mark_restored, after the file.                                          *)
Mark ==
    /\ rb.pc = "mark"
    /\ preimages' = [preimages EXCEPT ![rb.id].restored = TRUE]
    /\ rb' = turned("check", 0, rb.todo, rb.refused)
    /\ UNCHANGED <<lifeVars, files, writer, foreign, disturbed>>

(* The event that says COMPLETE or PARTIAL.                                *)
Report ==
    /\ rb.pc = "check" /\ rb.todo = {}
    /\ rb' = turned("done", 0, {}, rb.refused)
    /\ UNCHANGED <<lifeVars, files, preimages, writer, foreign, disturbed>>

(* A file, a blob or the store cannot be read or written, a file to remove *)
(* is gone, or the command is killed: the rollback ends where it is.       *)
Abort ==
    /\ rb.pc \in {"check", "restore", "mark"} /\ rb' = NoRun /\ disturbed' = {}
    /\ UNCHANGED <<lifeVars, files, preimages, writer, foreign>>

Next ==
    \/ NextLife /\ UNCHANGED fileVars
    \/ \E w \in Writers : (\E op \in Ops : Admit(w, op)) \/ Capture(w) \/ Perform(w)
    \/ \E f \in Files : Foreign(f)
    \/ Begin \/ Check \/ Restore \/ Mark \/ Report \/ Abort

Spec == Init /\ [][Next]_vars

-----------------------------------------------------------------------------
(* Properties.                                                             *)

(* The records of one file carry timestamps in the order they were made.   *)
inOrder(f) ==
    \A i, j \in DOMAIN preimages :
        i < j /\ preimages[i].file = f /\ preimages[j].file = f => preimages[i].at < preimages[j].at

first(f) == CHOOSE i \in DOMAIN preimages :
                preimages[i].file = f /\ \A j \in 1..(i - 1) : preimages[j].file # f

(* A rollback that reports COMPLETE has put every file it considered back  *)
(* to what it held before the session's first brokered change, after any   *)
(* number of failed changes, interrupted rollbacks and changes by others   *)
(* before it began; files changed by others since are excepted, and files  *)
(* whose records' timestamps are out of order.                             *)
CompleteMeansOriginal ==
    rb.pc = "done" /\ ~rb.refused =>
        \A f \in {preimages[i].file : i \in rb.considered} \ disturbed :
            inOrder(f) => files[f] = preimages[first(f)].prior
=============================================================================
