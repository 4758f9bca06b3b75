---------------------------- MODULE MCPolicyLadder ----------------------------
(* Two ways to look at the ladder.  Asked widely: every profile, every      *)
(* action, all resolvable and unresolvable path shapes with one category of *)
(* each label and one executable of each class, while signals, escalations  *)
(* and leases come.  Asked one thing: a deletion by an untrusted agent,     *)
(* while the session acts and is analysed and reconciled: three events,     *)
(* the clock moving either way around the first and after the last, one     *)
(* operation past the brokers, one refusal in another session.              *)
EXTENDS Retrospection, TLC

CONSTANTS MCDimensions

MCPaths == [named: {"none", "persistence"}, resolves: {"inside", "outside", "fails"},
            target: {"none", "vigil_integrity"}]
MCExes == {e \in [resolves: BOOLEAN, workspace: BOOLEAN,
                  class: {"data", "shell", "unknown", "privilege"}, nul: BOOLEAN] :
             (~e.resolves => ~e.workspace) /\ (e.nul => e.class = "data")}

Event(category, action, outcome, label, resource) ==
    [category |-> category, action |-> action, decision |-> outcome, label |-> label,
     resource |-> resource, at |-> 0]
MCDoings == {Event("policy", "fs.read", "DENY", "credential_access", "key"),
             Event("network", "network.connect", "EXECUTED", NoLabel, "host"),
             Event("process", "process.exec", "EXECUTED", NoLabel, "tar"),
             Event("policy", "process.exec", "REQUIRE_APPROVAL", NoLabel, "tar")}
MCBypasses == {[kind |-> "read", resource |-> "key", allowed |-> FALSE],
               [kind |-> "write", resource |-> "file", allowed |-> TRUE]}
MCRefusals == {[resource |-> "key", session |-> "other", at |-> 0]}
MCSymmetry == Permutations(Workers)

TheQuestion == [kind |-> "path", profile |-> "untrusted-agent", action |-> "fs.delete",
                path |-> [named |-> "none", resolves |-> "inside", target |-> "none"]]

MCNext ==
    \/ /\ question # TheQuestion
       /\ \/ \E d \in MCDimensions, w \in Weights : RecordRiskSignal(d, w)
          \/ \E target \in RiskStates : EscalateRiskTo(target)
          \/ LeaseChanges
       /\ UNCHANGED retroVars
    \/ /\ question = TheQuestion
       /\ \/ \E e \in Doings : Act(e)
          \/ bypassed = {} /\ \E op \in Bypasses : Bypass(op)
          \/ others = {} /\ \E r \in Refusals : OtherRefused(r)
          \/ Len(log) # 2 /\ ClockMoves
          \/ \E w \in Workers : Command(w)

MCSpec == RetroInit /\ [][MCNext]_retrospective
=============================================================================
