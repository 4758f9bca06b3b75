----------------------------- MODULE MCLifecycle -----------------------------
(***************************************************************************)
(* A session of the local daemon and its event log for TLC.  In the        *)
(* session two launches contend with strangers for one PID, and two        *)
(* writers change two files, one of which is too large to preserve.  The   *)
(* log has two processes that open, append to, checkpoint and verify it.   *)
(* The two share no state here, so a behaviour is of one part or of the    *)
(* other.                                                                  *)
(***************************************************************************)
EXTENDS Rollback, EventStore, TLC

CONSTANTS p1, p2, Parts

VARIABLE part

localVars == <<part, vars, storeVars>>

Write(f, c) == [kind |-> "write", file |-> f, content |-> c, to |-> f]
MCOps == {Write("f", "b"),
          [kind |-> "delete", file |-> "f", content |-> Absent, to |-> "f"],
          [kind |-> "rename", file |-> "f", content |-> Absent, to |-> "g"]}
MCStarts == {[f |-> "a", g |-> "big"]}

MCProcesses == {p1, p2}

(* A fresh store, one that predates the chain and an up-to-date one.       *)
MCOldVersions == {0, 7, 13}

(* The writers run the same program.                                       *)
Interchangeable == Permutations(Writers)

LocalInit ==
    /\ part \in Parts /\ Init /\ StoreInit
    /\ part = "session" => version = 0
    /\ part = "log"     => workload = "run"

LocalNext ==
    /\ \/ part = "session" /\ Next /\ UNCHANGED storeVars
       \/ part = "log" /\ StoreStep /\ UNCHANGED vars
    /\ UNCHANGED part

LocalSpec == LocalInit /\ [][LocalNext]_localVars
=============================================================================
