------------------------------ MODULE MCBrokers ------------------------------
(* One session whose limits are one to three units, so that two calls of a *)
(* kind contend for the last unit, or for the last bytes.                  *)
EXTENDS Brokers, TLC

CONSTANTS d1, d2

Op(kind, size, dest) == [kind |-> kind, size |-> size, dest |-> dest]

Reach == {Op("connect", 0, d1), Op("connect", 0, d2)}
Write == {Op("write", 0, d1), Op("write", 2, d1), Op("write", 3, d1)}
Plain == {Op(kind, 0, d1) : kind \in {"read", "delete", "rename", "exec"}}

AllOperations == Reach \cup Write \cup Plain
                      \cup {Op("create", 1, d1), Op("secret", 0, d1),
                            Op("stage", 0, d1), Op("commit", 0, d1), Op("push", 0, d1)}

(* Two units where two operations or amounts share a dimension.            *)
TightLimit == [d \in Dimensions |->
                 IF d = "total_write_bytes" THEN 3
                 ELSE IF d \in {"file_reads", "network_connections", "file_writes"} THEN 2 ELSE 1]

Symmetric == Permutations(Calls)
=============================================================================
