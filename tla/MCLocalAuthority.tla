--------------------------- MODULE MCLocalAuthority ---------------------------
(* One session with a request the ladder sends to a human, and a canary     *)
(* read that loads 60 points at once; two processes ask, one operator       *)
(* answers and one contains.                                                *)
EXTENDS LocalAuthority, TLC

CONSTANTS s1

Ask(action, resource, base, label, canary) ==
    [session |-> s1, action |-> action, resource |-> resource, base |-> base,
     label |-> label, resolved |-> TRUE, canary |-> canary]

Connect == Ask("network.connect", "host:443", "require_approval", NoLabel, FALSE)
Bait    == Ask("fs.read", "bait", "allow", NoLabel, TRUE)
Persist == Ask("fs.write", "launch-agent", "deny", "persistence_attempt", FALSE)

ConnectOnly == {Connect}
LoadedAsks  == {Connect, Bait, Persist}

Symmetric == Permutations(ApprovalIds) \cup Permutations(Callers)
=============================================================================
