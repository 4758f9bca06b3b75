---------------------------- MODULE ServerProofs ----------------------------
(***************************************************************************)
(* Proofs about Core and the gateway, for any requests, policies, remits,  *)
(* detectors and faults, any number of tasks and redemptions in flight and *)
(* any bounds.                                                             *)
(*                                                                         *)
(* The argument.  What a decision computes matters only to the budget; the *)
(* rest needs what it may hand on: the approval a task has spent, the      *)
(* token it was issued and the record that must precede its release.       *)
(* Grants, records, released tokens and signed tokens only grow, and an    *)
(* approval that was spent or forgotten stays so, which is why what one    *)
(* task or redemption holds is not disturbed by the steps of the others.   *)
(***************************************************************************)
EXTENDS Gateway, FiniteSetTheorems, SequenceTheorems, TLAPS

IsSeq(s) == \E S : s \in Seq(S)

principal_of(hash) == hash[5]

(* A task holds what its place says.  Before the decision it carries an    *)
(* approval token somebody was given, or none; a token it was issued is    *)
(* one Core signed for its request, under a decision that permits it.      *)
TaskHolds(k, given, signed) ==
    /\ k.pc \in {"analyze", "budget", "evaluate"} =>
          {"pc", "req", "grant"} \subseteq DOMAIN k /\ k.grant \in given \cup {NoGrant}
    /\ k.pc \in {"issue", "raise", "record"} =>
          {"pc", "req", "token", "decision", "approval"} \subseteq DOMAIN k
    /\ k.pc \in {"issue", "raise"} => k.token = 0
    /\ k.pc = "issue" => permits_execution(k.decision)
    /\ k.pc \in {"record", "audit"} /\ k.token # 0 =>
          /\ k.token \in DOMAIN signed
          /\ signed[k.token].action_hash = action_hash(k.req)
          /\ permits_execution(k.decision)

Tasking ==
    /\ tasks = [t \in Tasks |-> tasks[t]]
    /\ \A t \in Tasks : TaskHolds(tasks[t], grants, tokens)

(* The approval queue keeps who asked and for what, and a signed approval  *)
(* repeats it with another person as its approver.                         *)
Approving ==
    /\ \A i \in DOMAIN approvals :
          /\ "state" \in DOMAIN approvals[i]
          /\ approvals[i].requesting_principal = principal_of(approvals[i].hash)
    /\ \A g \in grants : /\ g.id \in DOMAIN approvals /\ g.hash = approvals[g.id].hash
                         /\ g.approver # approvals[g.id].requesting_principal

(* An approval a decision rests on: granted by somebody else for exactly   *)
(* that request, and spent.                                                *)
RestsOn(id, hash, queue, given) ==
    /\ id \in DOMAIN queue /\ queue[id].state \in {"Consumed", "Forgotten"}
    /\ \E g \in given : g.id = id /\ g.hash = hash /\ g.approver # principal_of(hash)

Spends(k) == k.pc = "issue" /\ k.approval # 0

Spending ==
    /\ \A t \in Tasks : Spends(tasks[t]) =>
          /\ RestsOn(tasks[t].approval, action_hash(tasks[t].req), approvals, grants)
          /\ \A u \in Tasks : Spends(tasks[u]) /\ tasks[u].approval = tasks[t].approval => u = t
          /\ \A i \in DOMAIN tokens : tokens[i].approval_id # tasks[t].approval
    /\ \A i \in DOMAIN tokens : tokens[i].approval_id # 0 =>
          /\ RestsOn(tokens[i].approval_id, tokens[i].action_hash, approvals, grants)
          /\ tokens[i].principal = principal_of(tokens[i].action_hash)
          /\ \A j \in DOMAIN tokens : tokens[j].approval_id = tokens[i].approval_id => i = j

(* What has left Core was recorded first.                                  *)
Decided(n, hash, records) ==
    \E d \in records : d.token = n /\ d.hash = hash /\ permits_execution(d.decision)

Deciding ==
    \A n \in released : n \in DOMAIN tokens /\ Decided(n, tokens[n].action_hash, audit)

(* A redemption in flight is of a released token and of its very request.  *)
RedeemerHolds(k, out, signed) ==
    k.pc # "idle" => k.token \in out /\ signed[k.token].action_hash = action_hash(k.req)

Redeeming ==
    /\ redeemers = [g \in Redeemers |-> redeemers[g]]
    /\ \A g \in Redeemers : RedeemerHolds(redeemers[g], released, tokens)
    /\ \A i \in DOMAIN executions :
          Decided(executions[i].token, action_hash(executions[i].req), audit)

(* The three logs are sequences.                                           *)
Logs == IsSeq(approvals) /\ IsSeq(tokens) /\ IsSeq(executions)

CoreInv == Logs /\ Tasking /\ Approving /\ Spending /\ Deciding /\ Redeeming

-----------------------------------------------------------------------------
(* What an append does to a sequence.                                      *)
Extends(s, longer) == DOMAIN s \subseteq DOMAIN longer /\ \A i \in DOMAIN s : longer[i] = s[i]

LEMMA AppendFacts ==
    ASSUME NEW s, IsSeq(s), NEW e
    PROVE  /\ IsSeq(Append(s, e)) /\ Extends(s, Append(s, e))
           /\ Len(s) \in Nat /\ DOMAIN s = 1..Len(s)
           /\ DOMAIN Append(s, e) = DOMAIN s \cup {Len(s) + 1}
           /\ Append(s, e)[Len(s) + 1] = e
           /\ Len(s) + 1 \notin DOMAIN s /\ Len(s) + 1 # 0
<1>1. PICK S : s \in Seq(S)
  BY DEF IsSeq
<1> DEFINE T == S \cup {e}
<1>2. s \in Seq(T) /\ e \in T
  BY <1>1
<1> HIDE DEF T
<1>3. /\ Append(s, e) \in Seq(T) /\ Len(Append(s, e)) = Len(s) + 1
      /\ \A i \in 1..Len(s) : Append(s, e)[i] = s[i]
      /\ Append(s, e)[Len(s) + 1] = e
  BY <1>2
<1>4. Len(s) \in Nat /\ DOMAIN s = 1..Len(s) /\ DOMAIN Append(s, e) = 1..(Len(s) + 1)
  BY <1>2, <1>3
<1>5. 1..(Len(s) + 1) = 1..Len(s) \cup {Len(s) + 1} /\ Len(s) + 1 \notin 1..Len(s) /\ Len(s) + 1 # 0
  BY <1>4
<1>6. IsSeq(Append(s, e))
  BY <1>3 DEF IsSeq
<1> QED
  BY <1>3, <1>4, <1>5, <1>6 DEF Extends

(* A function on the indices of a sequence is a sequence.                  *)
LEMMA MappedSeq ==
    ASSUME NEW s, IsSeq(s), NEW f, f = [i \in DOMAIN s |-> f[i]]
    PROVE  IsSeq(f)
<1>1. PICK n \in Nat : DOMAIN s = 1..n
  BY DEF IsSeq
<1> DEFINE S == {f[i] : i \in 1..n}
<1>2. f \in [1..n -> S]
  BY <1>1
<1>3. f \in Seq(S)
  BY <1>2
<1> QED
  BY <1>3 DEF IsSeq

(* A task that did not move still holds what its place says.               *)
LEMMA TaskKeeps ==
    ASSUME NEW k, NEW given, NEW signed, TaskHolds(k, given, signed),
           NEW given2, given \subseteq given2, NEW signed2, Extends(signed, signed2)
    PROVE  TaskHolds(k, given2, signed2)
  BY DEF TaskHolds, Extends

(* Approvals are appended to, and a spent or forgotten one stays so.       *)
Advances(queue, later) ==
    \A i \in DOMAIN queue :
        /\ i \in DOMAIN later /\ later[i].hash = queue[i].hash
        /\ later[i].requesting_principal = queue[i].requesting_principal
        /\ queue[i].state \in {"Consumed", "Forgotten"} => later[i].state \in {"Consumed", "Forgotten"}

LEMMA RestKeeps ==
    ASSUME NEW id, NEW hash, NEW queue, NEW given, RestsOn(id, hash, queue, given),
           NEW later, Advances(queue, later), NEW given2, given \subseteq given2
    PROVE  RestsOn(id, hash, later, given2)
  BY DEF RestsOn, Advances

LEMMA DecidedKeeps ==
    ASSUME NEW n, NEW hash, NEW records, Decided(n, hash, records), NEW more, records \subseteq more
    PROVE  Decided(n, hash, more)
  BY DEF Decided

(* A step of one task keeps what the others hold.                          *)
LEMMA OneTaskMoves ==
    ASSUME Tasking, NEW t \in Tasks, NEW k, tasks' = [tasks EXCEPT ![t] = k],
           grants \subseteq grants', Extends(tokens, tokens'), TaskHolds(k, grants', tokens')
    PROVE  /\ Tasking'
           /\ tasks'[t] = k /\ \A u \in Tasks \ {t} : tasks'[u] = tasks[u]
<1>1. /\ tasks' = [u \in Tasks |-> IF u = t THEN k ELSE tasks[u]]
      /\ \A u \in Tasks : TaskHolds(tasks[u], grants, tokens)
  BY DEF Tasking
<1>2. tasks'[t] = k /\ \A u \in Tasks \ {t} : tasks'[u] = tasks[u]
  BY <1>1
<1>3. ASSUME NEW u \in Tasks PROVE TaskHolds(tasks'[u], grants', tokens')
  BY <1>1, <1>2, TaskKeeps
<1>4. tasks' = [u \in Tasks |-> tasks'[u]]
  BY <1>1
<1> QED
  BY <1>2, <1>3, <1>4 DEF Tasking

(* Steps that sign nothing and bring no task to the issuer.                *)
LEMMA NothingIssued ==
    ASSUME Spending, tokens' = tokens, grants \subseteq grants', Advances(approvals, approvals'),
           \A t \in Tasks : tasks'[t] = tasks[t] \/ tasks'[t].pc # "issue"
    PROVE  Spending'
<1>1. ASSUME NEW t \in Tasks, Spends(tasks'[t]) PROVE tasks'[t] = tasks[t]
  BY <1>1 DEF Spends
<1>2. ASSUME NEW t \in Tasks, Spends(tasks'[t])
      PROVE  /\ RestsOn(tasks'[t].approval, action_hash(tasks'[t].req), approvals', grants')
             /\ \A u \in Tasks : Spends(tasks'[u]) /\ tasks'[u].approval = tasks'[t].approval => u = t
             /\ \A i \in DOMAIN tokens' : tokens'[i].approval_id # tasks'[t].approval
  <2>1. tasks'[t] = tasks[t] /\ Spends(tasks[t])
    BY <1>1, <1>2
  <2>2. RestsOn(tasks[t].approval, action_hash(tasks[t].req), approvals, grants)
    BY <2>1 DEF Spending
  <2>3. RestsOn(tasks[t].approval, action_hash(tasks[t].req), approvals', grants')
    BY <2>2, RestKeeps
  <2> QED
    BY <1>1, <2>1, <2>3 DEF Spending
<1>3. ASSUME NEW i \in DOMAIN tokens, tokens[i].approval_id # 0
      PROVE  RestsOn(tokens[i].approval_id, tokens[i].action_hash, approvals', grants')
  <2>1. RestsOn(tokens[i].approval_id, tokens[i].action_hash, approvals, grants)
    BY <1>3 DEF Spending
  <2> QED
    BY <2>1, RestKeeps
<1> QED
  BY <1>2, <1>3 DEF Spending

LEMMA ReleasedKeeps ==
    ASSUME Deciding, released' = released, Extends(tokens, tokens'), audit \subseteq audit'
    PROVE  Deciding'
<1>1. ASSUME NEW n \in released
      PROVE  n \in DOMAIN tokens' /\ Decided(n, tokens'[n].action_hash, audit')
  <2>1. n \in DOMAIN tokens /\ Decided(n, tokens[n].action_hash, audit)
    BY DEF Deciding
  <2>2. Decided(n, tokens[n].action_hash, audit')
    BY <2>1, DecidedKeeps
  <2> QED
    BY <2>1, <2>2 DEF Extends
<1> QED
  BY <1>1 DEF Deciding

LEMMA RedeemingKeeps ==
    ASSUME Redeeming, Deciding, UNCHANGED <<redeemers, executions>>, released \subseteq released',
           Extends(tokens, tokens'), audit \subseteq audit'
    PROVE  Redeeming'
<1>1. ASSUME NEW g \in Redeemers PROVE RedeemerHolds(redeemers[g], released', tokens')
  <2>1. RedeemerHolds(redeemers[g], released, tokens)
    BY DEF Redeeming
  <2>2. \A n \in released : tokens'[n] = tokens[n]
    BY DEF Deciding, Extends
  <2> QED
    BY <2>1, <2>2 DEF RedeemerHolds
<1>2. ASSUME NEW i \in DOMAIN executions
      PROVE  Decided(executions[i].token, action_hash(executions[i].req), audit')
  <2>1. Decided(executions[i].token, action_hash(executions[i].req), audit)
    BY DEF Redeeming
  <2> QED
    BY <2>1, DecidedKeeps
<1> QED
  BY <1>1, <1>2 DEF Redeeming

(* What is left to show of a step of Core that releases nothing.           *)
LEMMA CoreKeeps ==
    ASSUME CoreInv, UNCHANGED <<redeemers, executions, released>>, audit \subseteq audit',
           Extends(tokens, tokens'), IsSeq(approvals)', IsSeq(tokens)',
           Tasking', Approving', Spending'
    PROVE  CoreInv'
<1>1. Deciding' /\ Redeeming'
  BY ReleasedKeeps, RedeemingKeeps DEF CoreInv
<1> QED
  BY <1>1 DEF CoreInv, Logs

LEMMA SameTokens == Extends(tokens, tokens) /\ Advances(approvals, approvals)
  BY DEF Extends, Advances

(* Steps of a task that sign nothing and leave the approvals alone.        *)
LEMMA TaskMoves ==
    ASSUME CoreInv, NEW t \in Tasks, NEW k, tasks' = [tasks EXCEPT ![t] = k],
           UNCHANGED <<redeemers, executions, released, approvals, grants, tokens>>,
           audit \subseteq audit',
           k.pc # "issue", TaskHolds(k, grants, tokens)
    PROVE  CoreInv'
<1>1. Extends(tokens, tokens') /\ Advances(approvals, approvals')
  BY SameTokens
<1>2. Tasking' /\ tasks'[t] = k /\ \A u \in Tasks \ {t} : tasks'[u] = tasks[u]
  BY <1>1, OneTaskMoves DEF CoreInv
<1>3. Spending'
  <2>1. \A u \in Tasks : tasks'[u] = tasks[u] \/ tasks'[u].pc # "issue"
    BY <1>2
  <2> QED
    BY <1>1, <2>1, NothingIssued DEF CoreInv
<1>4. Approving' /\ IsSeq(approvals)' /\ IsSeq(tokens)'
  BY DEF CoreInv, Approving, Logs
<1> QED
  BY <1>1, <1>2, <1>3, <1>4, CoreKeeps

LEMMA ReceiveKeeps ==
    ASSUME CoreInv, NEW t \in Tasks, Receive(t), UNCHANGED gatewayVars
    PROVE  CoreInv'
<1>1. PICK r \in Requests, g \in grants \cup {NoGrant} :
         tasks' = [tasks EXCEPT ![t] =
                   IF state_of(SessionKey(r), clock).terminated
                   THEN [pc |-> "audit", req |-> r, decision |-> "TerminateSession", token |-> 0]
                   ELSE [pc |-> "analyze", req |-> r, grant |-> g, started |-> clock,
                         distinct_denials |-> Cardinality(state_of(SessionKey(r), clock).denied),
                         retry |-> action_hash(r) \in state_of(SessionKey(r), clock).denied]]
  BY DEF Receive
<1>2. PICK a, b, c : \/ tasks' = [tasks EXCEPT ![t] = [pc |-> "audit", req |-> r, decision |-> a, token |-> 0]]
                     \/ tasks' = [tasks EXCEPT ![t] = [pc |-> "analyze", req |-> r, grant |-> g,
                                    started |-> a, distinct_denials |-> b, retry |-> c]]
  BY <1>1
<1>3. UNCHANGED <<redeemers, executions, released, approvals, grants, tokens, audit>>
  BY DEF Receive, gatewayVars
<1>4. CASE tasks' = [tasks EXCEPT ![t] = [pc |-> "audit", req |-> r, decision |-> a, token |-> 0]]
  <2> DEFINE k == [pc |-> "audit", req |-> r, decision |-> a, token |-> 0]
  <2>1. k.pc # "issue" /\ TaskHolds(k, grants, tokens)
    BY DEF TaskHolds
  <2> HIDE DEF k
  <2> QED
    BY <1>3, <1>4, <2>1, TaskMoves DEF k
<1>5. CASE tasks' = [tasks EXCEPT ![t] = [pc |-> "analyze", req |-> r, grant |-> g,
                                    started |-> a, distinct_denials |-> b, retry |-> c]]
  <2> DEFINE k == [pc |-> "analyze", req |-> r, grant |-> g,
                                    started |-> a, distinct_denials |-> b, retry |-> c]
  <2>1. k.pc # "issue" /\ TaskHolds(k, grants, tokens)
    BY DEF TaskHolds
  <2>2. tasks' = [tasks EXCEPT ![t] = k]
    BY <1>5
  <2> HIDE DEF k
  <2> QED
    BY <1>3, <2>1, <2>2, TaskMoves
<1> QED
  BY <1>2, <1>4, <1>5

(* The two stages that add what they learnt to what the task holds.        *)
LEMMA StageKeeps ==
    ASSUME CoreInv, NEW t \in Tasks, Analyze(t) \/ CheckBudget(t), UNCHANGED gatewayVars
    PROVE  CoreInv'
<1>1. PICK k : /\ tasks' = [tasks EXCEPT ![t] = k]
               /\ {"pc", "req", "grant"} \subseteq DOMAIN k
               /\ k.pc \in {"budget", "evaluate"} /\ k.grant = tasks[t].grant
  <2>1. /\ {"pc", "req", "grant"} \subseteq DOMAIN tasks[t]
        /\ tasks = [u \in Tasks |-> tasks[u]]
    BY DEF CoreInv, Tasking, TaskHolds, Analyze, CheckBudget
  <2>2. CASE Analyze(t)
    <3> DEFINE v == analyze_action(state_of(SessionKey(tasks[t].req), tasks[t].started).trace,
                                   tasks[t].req.declared, ActionOf[tasks[t].req.action])
               k == [x \in DOMAIN tasks[t] \cup {"trace"} |->
                       CASE x = "pc" -> "budget" [] x = "trace" -> v [] OTHER -> tasks[t][x]]
    <3>1. tasks' = [tasks EXCEPT ![t] = k]
      BY <2>1, <2>2 DEF Analyze
    <3> HIDE DEF v
    <3>2. /\ {"pc", "req", "grant"} \subseteq DOMAIN k
          /\ k.pc = "budget" /\ k.grant = tasks[t].grant
      BY <2>1
    <3> QED
      BY <3>1, <3>2
  <2>3. CASE CheckBudget(t)
    <3> DEFINE v == IF budget_permits(state_of(SessionKey(tasks[t].req), tasks[t].started).budget,
                                      limits_of(tasks[t].req.agent), ActionOf[tasks[t].req.action],
                                      tasks[t].started) THEN "Allow" ELSE "Deny"
               k == [x \in DOMAIN tasks[t] \cup {"budget"} |->
                       CASE x = "pc" -> "evaluate" [] x = "budget" -> v [] OTHER -> tasks[t][x]]
    <3>1. tasks' = [tasks EXCEPT ![t] = k]
      BY <2>1, <2>3 DEF CheckBudget
    <3> HIDE DEF v
    <3>2. /\ {"pc", "req", "grant"} \subseteq DOMAIN k
          /\ k.pc = "evaluate" /\ k.grant = tasks[t].grant
      BY <2>1
    <3> QED
      BY <3>1, <3>2
  <2> QED
    BY <2>2, <2>3
<1>2. tasks[t].grant \in grants \cup {NoGrant}
  BY DEF CoreInv, Tasking, TaskHolds, Analyze, CheckBudget
<1>3. k.pc # "issue" /\ TaskHolds(k, grants, tokens)
  BY <1>1, <1>2 DEF TaskHolds
<1>4. UNCHANGED <<redeemers, executions, released, approvals, grants, tokens, audit>>
  BY DEF Analyze, CheckBudget, gatewayVars
<1> QED
  BY <1>1, <1>3, <1>4, TaskMoves

LEMMA RecordKeeps ==
    ASSUME CoreInv, NEW t \in Tasks, Record(t), UNCHANGED gatewayVars
    PROVE  CoreInv'
<1> DEFINE k == [pc |-> "audit", req |-> tasks[t].req, decision |-> tasks[t].decision,
                 token |-> tasks[t].token]
<1>1. tasks' = [tasks EXCEPT ![t] = k]
  BY DEF Record, CoreInv, Tasking
<1>2. k.pc # "issue" /\ TaskHolds(k, grants, tokens)
  BY DEF Record, CoreInv, Tasking, TaskHolds
<1>3. UNCHANGED <<redeemers, executions, released, approvals, grants, tokens, audit>>
  BY DEF Record, gatewayVars
<1> HIDE DEF k
<1> QED
  BY <1>1, <1>2, <1>3, TaskMoves

(* The answer leaves with its record, or not at all.                       *)
LEMMA RecordDecisionKeeps ==
    ASSUME CoreInv, NEW t \in Tasks, RecordDecision(t), UNCHANGED gatewayVars
    PROVE  CoreInv'
<1>1. tasks' = [tasks EXCEPT ![t] = Idle] /\ audit \subseteq audit' /\ released \subseteq released'
  BY DEF RecordDecision
<1>2. UNCHANGED <<redeemers, executions, approvals, grants, tokens>>
  BY DEF RecordDecision, gatewayVars
<1>3. Idle.pc # "issue" /\ TaskHolds(Idle, grants, tokens)
  BY DEF Idle, TaskHolds
<1>4. Extends(tokens, tokens') /\ Advances(approvals, approvals')
  BY <1>2, SameTokens
<1>5. Tasking' /\ tasks'[t] = Idle /\ \A u \in Tasks \ {t} : tasks'[u] = tasks[u]
  BY <1>1, <1>2, <1>3, <1>4, OneTaskMoves DEF CoreInv
<1>6. Spending'
  <2>1. \A u \in Tasks : tasks'[u] = tasks[u] \/ tasks'[u].pc # "issue"
    BY <1>3, <1>5
  <2> QED
    BY <1>2, <1>4, <2>1, NothingIssued DEF CoreInv
<1>7. Approving' /\ Logs'
  BY <1>2 DEF CoreInv, Approving, Logs
<1>8. ASSUME NEW n \in released'
      PROVE  n \in DOMAIN tokens /\ Decided(n, tokens[n].action_hash, audit')
  <2>1. CASE n \in released
    <3>1. n \in DOMAIN tokens /\ Decided(n, tokens[n].action_hash, audit)
      BY <2>1 DEF CoreInv, Deciding
    <3> QED
      BY <1>1, <3>1, DecidedKeeps
  <2>2. CASE n \notin released
    <3> DEFINE d == [hash |-> action_hash(tasks[t].req), decision |-> tasks[t].decision,
                     token |-> tasks[t].token]
    <3>1. n = tasks[t].token /\ n # 0 /\ tasks[t].pc = "audit" /\ d \in audit'
      BY <2>2 DEF RecordDecision
    <3>2. TaskHolds(tasks[t], grants, tokens)
      BY DEF CoreInv, Tasking
    <3>3. /\ n \in DOMAIN tokens /\ tokens[n].action_hash = action_hash(tasks[t].req)
          /\ permits_execution(tasks[t].decision)
      BY <3>1, <3>2 DEF TaskHolds
    <3>4. d.token = n /\ d.hash = tokens[n].action_hash /\ permits_execution(d.decision)
      BY <3>1, <3>3
    <3> QED
      BY <3>1, <3>3, <3>4 DEF Decided
  <2> QED
    BY <2>1, <2>2
<1>9. Deciding'
  BY <1>2, <1>8 DEF Deciding
<1>10. Redeeming'
  BY <1>1, <1>2, <1>4, RedeemingKeeps DEF CoreInv
<1> QED
  BY <1>5, <1>6, <1>7, <1>9, <1>10 DEF CoreInv

(* A step that only advances the approvals keeps what rests on them.       *)
LEMMA QueueAdvances ==
    ASSUME CoreInv, UNCHANGED <<redeemers, executions, released, tokens, audit>>,
           grants \subseteq grants', Advances(approvals, approvals'), IsSeq(approvals)',
           Approving', Tasking',
           \A t \in Tasks : tasks'[t] = tasks[t] \/ tasks'[t].pc # "issue"
    PROVE  CoreInv'
<1>1. Extends(tokens, tokens') /\ IsSeq(tokens)'
  BY SameTokens DEF CoreInv, Logs
<1>2. Spending'
  BY NothingIssued DEF CoreInv
<1> QED
  BY <1>1, <1>2, CoreKeeps

LEMMA RaiseKeeps ==
    ASSUME CoreInv, NEW t \in Tasks, RaiseApproval(t), UNCHANGED gatewayVars
    PROVE  CoreInv'
<1>1. UNCHANGED <<redeemers, executions, released, grants, tokens, audit>>
  BY DEF RaiseApproval, gatewayVars
<1>2. CASE tasks' = [tasks EXCEPT ![t] = Idle] /\ UNCHANGED approvals
  <2>1. Idle.pc # "issue" /\ TaskHolds(Idle, grants, tokens)
    BY DEF Idle, TaskHolds
  <2> QED
    BY <1>1, <1>2, <2>1, TaskMoves
<1>3. ASSUME NEW roles, NEW ttl, approvals' = Append(approvals, approval_request(tasks[t], roles, ttl)),
             tasks' = [tasks EXCEPT ![t].pc = "record"]
      PROVE  CoreInv'
  <2> DEFINE a == approval_request(tasks[t], roles, ttl)
             k == [tasks[t] EXCEPT !.pc = "record"]
  <2>1. /\ "state" \in DOMAIN a /\ a.requesting_principal = tasks[t].req.principal
        /\ a.hash = action_hash(tasks[t].req)
    BY DEF approval_request
  <2>2. a.requesting_principal = principal_of(a.hash)
    BY <2>1 DEF principal_of, action_hash
  <2>3. /\ IsSeq(approvals') /\ Extends(approvals, approvals')
        /\ DOMAIN approvals' = DOMAIN approvals \cup {Len(approvals) + 1}
        /\ approvals'[Len(approvals) + 1] = a
    BY <1>3, AppendFacts DEF CoreInv, Logs
  <2> HIDE DEF a
  <2>4. Approving'
    <3>1. \A i \in DOMAIN approvals' : \/ i \in DOMAIN approvals /\ approvals'[i] = approvals[i]
                                       \/ approvals'[i] = a
      BY <2>3 DEF Extends
    <3>2. \A g \in grants : g.id \in DOMAIN approvals /\ approvals'[g.id] = approvals[g.id]
      BY <2>3 DEF Extends, CoreInv, Approving
    <3> QED
      BY <1>1, <2>1, <2>2, <2>3, <3>1, <3>2 DEF CoreInv, Approving
  <2>5. Advances(approvals, approvals')
    BY <2>3 DEF Extends, Advances
  <2>6. TaskHolds(tasks[t], grants, tokens) /\ tasks[t].pc = "raise"
    BY DEF CoreInv, Tasking, RaiseApproval
  <2>7. k.pc = "record" /\ TaskHolds(k, grants, tokens) /\ tasks' = [tasks EXCEPT ![t] = k]
    BY <1>3, <2>6 DEF TaskHolds
  <2> HIDE DEF k
  <2>8. Extends(tokens, tokens')
    BY <1>1, SameTokens
  <2>9. Tasking' /\ tasks'[t] = k /\ \A u \in Tasks \ {t} : tasks'[u] = tasks[u]
    BY <1>1, <2>7, <2>8, OneTaskMoves DEF CoreInv
  <2>10. \A u \in Tasks : tasks'[u] = tasks[u] \/ tasks'[u].pc # "issue"
    BY <2>7, <2>9
  <2> QED
    BY <1>1, <2>3, <2>4, <2>5, <2>9, <2>10, QueueAdvances
<1> QED
  BY <1>2, <1>3 DEF RaiseApproval

(* One approval changes its state.                                         *)
SetState(queue, i, v) == [queue EXCEPT ![i].state = v]

LEMMA StateChange ==
    ASSUME NEW queue, IsSeq(queue), NEW i \in DOMAIN queue, "state" \in DOMAIN queue[i], NEW v,
           queue[i].state \notin {"Consumed", "Forgotten"} \/ v \in {"Consumed", "Forgotten"},
           NEW later, later = SetState(queue, i, v)
    PROVE  /\ IsSeq(later) /\ Advances(queue, later) /\ DOMAIN later = DOMAIN queue
           /\ later[i].state = v /\ \A j \in DOMAIN queue \ {i} : later[j] = queue[j]
           /\ \A j \in DOMAIN queue : "state" \in DOMAIN queue[j] => "state" \in DOMAIN later[j]
<1> DEFINE a == [queue[i] EXCEPT !.state = v]
<1>1. queue = [j \in DOMAIN queue |-> queue[j]]
  BY DEF IsSeq
<1>2. later = [j \in DOMAIN queue |-> IF j = i THEN a ELSE queue[j]]
  BY <1>1 DEF SetState
<1>3. /\ a.state = v /\ a.hash = queue[i].hash /\ "state" \in DOMAIN a
      /\ a.requesting_principal = queue[i].requesting_principal
  OBVIOUS
<1> HIDE DEF a
<1>4. later[i] = a /\ (\A j \in DOMAIN queue \ {i} : later[j] = queue[j]) /\ DOMAIN later = DOMAIN queue
  BY <1>2
<1>5. later = [j \in DOMAIN queue |-> later[j]]
  BY <1>2
<1>6. IsSeq(later)
  BY <1>5, MappedSeq
<1>7. Advances(queue, later)
  BY <1>3, <1>4 DEF Advances
<1> QED
  BY <1>3, <1>4, <1>6, <1>7

LEMMA GrantKeeps ==
    ASSUME CoreInv, NEW i \in DOMAIN approvals, NEW h, Grant(i, h), UNCHANGED gatewayVars
    PROVE  CoreInv'
<1>1. UNCHANGED <<redeemers, executions, released, tasks, tokens, audit>>
  BY DEF Grant, gatewayVars
<1>2. PICK v \in {"Rejected", "Granted"} : approvals' = [approvals EXCEPT ![i].state = v]
  BY DEF Grant
<1>3. IsSeq(approvals) /\ "state" \in DOMAIN approvals[i] /\ approvals[i].state = "Pending"
  BY DEF CoreInv, Logs, Approving, Grant
<1>4. /\ IsSeq(approvals') /\ Advances(approvals, approvals') /\ DOMAIN approvals' = DOMAIN approvals
      /\ \A j \in DOMAIN approvals :
            "state" \in DOMAIN approvals[j] => "state" \in DOMAIN approvals'[j]
  <2>1. approvals[i].state \notin {"Consumed", "Forgotten"}
    BY <1>3
  <2> DEFINE later == approvals'
  <2>2. later = SetState(approvals, i, v)
    BY <1>2 DEF SetState
  <2> HIDE DEF later
  <2>3. /\ IsSeq(later) /\ Advances(approvals, later) /\ DOMAIN later = DOMAIN approvals
        /\ \A j \in DOMAIN approvals :
              "state" \in DOMAIN approvals[j] => "state" \in DOMAIN later[j]
    BY <1>3, <2>1, <2>2, StateChange
  <2> QED
    BY <2>3 DEF later
<1>5. \A j \in DOMAIN approvals : /\ approvals'[j].hash = approvals[j].hash
                                  /\ approvals'[j].requesting_principal = approvals[j].requesting_principal
  BY <1>4 DEF Advances
<1>6. grants \subseteq grants' /\ \A g \in grants' \ grants :
          g.id = i /\ g.hash = approvals[i].hash /\ g.approver # approvals[i].requesting_principal
  <2>1. CASE UNCHANGED grants
    BY <2>1
  <2>2. CASE /\ h.id # approvals[i].requesting_principal
             /\ grants' = grants \cup {[id |-> i, tenant |-> approvals[i].tenant,
                             agent |-> approvals[i].agent, session |-> approvals[i].session,
                             hash |-> approvals[i].hash, approver |-> h.id,
                             expires_at |-> clock + Config.approval_ttl]}
    BY <2>2
  <2> QED
    BY <2>1, <2>2 DEF Grant
<1>7. Approving'
  BY <1>4, <1>5, <1>6 DEF CoreInv, Approving
<1>8. Tasking'
  <2>1. ASSUME NEW t \in Tasks PROVE TaskHolds(tasks[t], grants', tokens)
    BY <1>6, TaskKeeps, SameTokens DEF CoreInv, Tasking
  <2> QED
    BY <1>1, <2>1 DEF CoreInv, Tasking
<1> QED
  BY <1>1, <1>4, <1>6, <1>7, <1>8, QueueAdvances

LEMMA CoreRestartKeeps ==
    ASSUME CoreInv, CoreRestart, UNCHANGED gatewayVars
    PROVE  CoreInv'
<1>1. UNCHANGED <<redeemers, executions, released, grants, tokens, audit>>
  BY DEF CoreRestart, gatewayVars
<1>2. approvals' = [i \in DOMAIN approvals |-> [approvals[i] EXCEPT !.state = "Forgotten"]]
  BY DEF CoreRestart
<1>3. DOMAIN approvals' = DOMAIN approvals /\ approvals' = [i \in DOMAIN approvals |-> approvals'[i]]
  BY <1>2
<1>4. \A i \in DOMAIN approvals :
         /\ approvals'[i].state = "Forgotten" /\ "state" \in DOMAIN approvals'[i]
         /\ approvals'[i].hash = approvals[i].hash
         /\ approvals'[i].requesting_principal = approvals[i].requesting_principal
  <2>2. \A i \in DOMAIN approvals : /\ "state" \in DOMAIN approvals[i]
                                    /\ approvals'[i] = [approvals[i] EXCEPT !.state = "Forgotten"]
    BY <1>2 DEF CoreInv, Approving
  <2>3. ASSUME NEW i \in DOMAIN approvals
        PROVE  /\ approvals'[i].state = "Forgotten" /\ "state" \in DOMAIN approvals'[i]
               /\ approvals'[i].hash = approvals[i].hash
               /\ approvals'[i].requesting_principal = approvals[i].requesting_principal
    <3> DEFINE a == approvals[i]
               b == approvals'[i]
    <3>1. "state" \in DOMAIN a /\ b = [a EXCEPT !.state = "Forgotten"]
      BY <2>2
    <3> HIDE DEF a, b
    <3>2. /\ b.state = "Forgotten" /\ "state" \in DOMAIN b /\ b.hash = a.hash
          /\ b.requesting_principal = a.requesting_principal
      BY <3>1
    <3> QED
      BY <3>2 DEF a, b
  <2> QED
    BY <2>3
<1>5. IsSeq(approvals')
  BY <1>3, MappedSeq DEF CoreInv, Logs
<1>6. Advances(approvals, approvals')
  BY <1>3, <1>4 DEF Advances
<1>7. Approving'
  BY <1>1, <1>3, <1>4 DEF CoreInv, Approving
<1>8. \A t \in Tasks : tasks'[t] \in {tasks[t], Idle}
  BY DEF CoreRestart
<1>9. TaskHolds(Idle, grants, tokens) /\ Idle.pc = "idle"
  BY DEF Idle, TaskHolds
<1>10. Tasking'
  <2>1. tasks' = [t \in Tasks |-> tasks'[t]]
    BY DEF CoreRestart
  <2>2. ASSUME NEW t \in Tasks PROVE TaskHolds(tasks'[t], grants', tokens')
    BY <1>1, <1>8, <1>9 DEF CoreInv, Tasking
  <2> QED
    BY <2>1, <2>2 DEF Tasking
<1>11. \A t \in Tasks : tasks'[t] = tasks[t] \/ tasks'[t].pc # "issue"
  BY <1>8, <1>9
<1> QED
  BY <1>1, <1>5, <1>6, <1>7, <1>10, <1>11, QueueAdvances

(* The issuer signs a token for a task that the decision permits.          *)
LEMMA IssueKeeps ==
    ASSUME CoreInv, NEW t \in Tasks, Issue(t), UNCHANGED gatewayVars
    PROVE  CoreInv'
<1> DEFINE n == Len(tokens) + 1
           c == Claims(tasks[t])
           k == [[tasks[t] EXCEPT !.pc = "record"] EXCEPT !.token = n]
<1>1. UNCHANGED <<redeemers, executions, released, approvals, grants, audit>>
  BY DEF Issue, gatewayVars
<1>2. /\ IsSeq(tokens') /\ Extends(tokens, tokens') /\ tokens'[n] = c
      /\ DOMAIN tokens' = DOMAIN tokens \cup {n} /\ n \notin DOMAIN tokens
  BY AppendFacts DEF CoreInv, Logs, Issue
<1>3. /\ c.approval_id = tasks[t].approval /\ c.action_hash = action_hash(tasks[t].req)
      /\ c.principal = tasks[t].req.principal
  BY DEF Claims
<1>4. c.principal = principal_of(c.action_hash)
  BY <1>3 DEF action_hash, principal_of
<1>5. TaskHolds(tasks[t], grants, tokens) /\ tasks[t].pc = "issue"
  BY DEF CoreInv, Tasking, Issue
<1>6. tasks' = [tasks EXCEPT ![t] = k]
  BY <1>5 DEF Issue, CoreInv, Tasking
<1>7. /\ k.pc = "record" /\ k.token = n /\ k.req = tasks[t].req /\ k.decision = tasks[t].decision
      /\ {"pc", "req", "token", "decision", "approval"} \subseteq DOMAIN k
  BY <1>5 DEF TaskHolds
<1>8. permits_execution(tasks[t].decision)
  BY <1>5 DEF TaskHolds
<1> HIDE DEF n, c, k
<1>9. TaskHolds(k, grants', tokens')
  BY <1>2, <1>3, <1>7, <1>8 DEF TaskHolds
<1>10. Tasking' /\ tasks'[t] = k /\ \A u \in Tasks \ {t} : tasks'[u] = tasks[u]
  BY <1>1, <1>2, <1>6, <1>9, OneTaskMoves DEF CoreInv
<1>11. \A i \in DOMAIN tokens' : \/ i \in DOMAIN tokens /\ tokens'[i] = tokens[i]
                                 \/ i = n /\ tokens'[i] = c
  BY <1>2 DEF Extends
<1>12. tasks[t].approval # 0 => Spends(tasks[t])
  BY <1>5 DEF Spends
<1>13. ASSUME NEW u \in Tasks, Spends(tasks'[u])
       PROVE  /\ RestsOn(tasks'[u].approval, action_hash(tasks'[u].req), approvals', grants')
              /\ \A v \in Tasks : Spends(tasks'[v]) /\ tasks'[v].approval = tasks'[u].approval => v = u
              /\ \A i \in DOMAIN tokens' : tokens'[i].approval_id # tasks'[u].approval
  <2>1. u # t /\ tasks'[u] = tasks[u] /\ \A v \in Tasks : Spends(tasks'[v]) => v # t
    BY <1>7, <1>10, <1>13 DEF Spends
  <2>2. tasks[t].approval # tasks[u].approval
    BY <1>12, <1>13, <2>1 DEF CoreInv, Spending, Spends
  <2>3. /\ RestsOn(tasks[u].approval, action_hash(tasks[u].req), approvals, grants)
        /\ \A v \in Tasks : Spends(tasks[v]) /\ tasks[v].approval = tasks[u].approval => v = u
        /\ \A i \in DOMAIN tokens : tokens[i].approval_id # tasks[u].approval
    BY <1>13, <2>1 DEF CoreInv, Spending
  <2>4. \A v \in Tasks : Spends(tasks'[v]) /\ tasks'[v].approval = tasks'[u].approval => v = u
    BY <1>10, <2>1, <2>3
  <2>5. \A i \in DOMAIN tokens' : tokens'[i].approval_id # tasks'[u].approval
    BY <1>3, <1>11, <2>1, <2>2, <2>3
  <2> QED
    BY <1>1, <2>1, <2>3, <2>4, <2>5
<1>14. ASSUME NEW i \in DOMAIN tokens', tokens'[i].approval_id # 0
       PROVE  /\ RestsOn(tokens'[i].approval_id, tokens'[i].action_hash, approvals', grants')
              /\ tokens'[i].principal = principal_of(tokens'[i].action_hash)
              /\ \A j \in DOMAIN tokens' : tokens'[j].approval_id = tokens'[i].approval_id => i = j
  <2>1. CASE i \in DOMAIN tokens /\ tokens'[i] = tokens[i]
    <3>1. /\ RestsOn(tokens[i].approval_id, tokens[i].action_hash, approvals, grants)
          /\ tokens[i].principal = principal_of(tokens[i].action_hash)
          /\ \A j \in DOMAIN tokens : tokens[j].approval_id = tokens[i].approval_id => i = j
      BY <1>14, <2>1 DEF CoreInv, Spending
    <3>2. tasks[t].approval # tokens[i].approval_id
      BY <1>12, <1>14, <2>1 DEF CoreInv, Spending
    <3> QED
      BY <1>1, <1>3, <1>11, <2>1, <3>1, <3>2
  <2>2. CASE i = n /\ tokens'[i] = c
    <3>1. Spends(tasks[t])
      BY <1>3, <1>12, <1>14, <2>2
    <3>2. /\ RestsOn(c.approval_id, c.action_hash, approvals, grants)
          /\ \A j \in DOMAIN tokens : tokens[j].approval_id # c.approval_id
      BY <1>3, <3>1 DEF CoreInv, Spending
    <3> QED
      BY <1>1, <1>4, <1>11, <2>2, <3>2
  <2> QED
    BY <1>11, <2>1, <2>2
<1>15. Spending'
  BY <1>13, <1>14 DEF Spending
<1>16. Approving' /\ IsSeq(approvals)'
  BY <1>1 DEF CoreInv, Approving, Logs
<1> QED
  BY <1>1, <1>2, <1>10, <1>15, <1>16, CoreKeeps

(* A decision spends the approval it was shown in the step that checks it. *)
LEMMA EvaluateKeeps ==
    ASSUME CoreInv, NEW t \in Tasks, Evaluate(t), UNCHANGED gatewayVars
    PROVE  CoreInv'
<1> DEFINE g == tasks[t].grant
           ok == verifies(g, tasks[t].req)
<1>1. UNCHANGED <<redeemers, executions, released, grants, tokens, audit>>
  BY DEF Evaluate, gatewayVars
<1>2. /\ {"pc", "req", "grant"} \subseteq DOMAIN tasks[t] /\ g \in grants \cup {NoGrant}
      /\ TaskHolds(tasks[t], grants, tokens)
  BY DEF CoreInv, Tasking, TaskHolds, Evaluate
<1>3. PICK k : /\ tasks' = [tasks EXCEPT ![t] = k] /\ k.pc \in {"issue", "raise", "record"}
               /\ {"pc", "req", "token", "decision", "approval"} \subseteq DOMAIN k
               /\ k.token = 0 /\ k.req = tasks[t].req
               /\ k.approval = IF ok THEN g.id ELSE 0
               /\ k.pc = "issue" => permits_execution(k.decision)
  <2> DEFINE K == [x \in DOMAIN tasks[t] \cup {"approval"} |->
                    IF x = "approval" THEN (IF ok THEN g.id ELSE 0) ELSE tasks[t][x]]
  <2>1. K.req = tasks[t].req /\ K.approval = IF ok THEN g.id ELSE 0
    BY <1>2
  <2>2. PICK o \in outcomes(K) :
          tasks' = [tasks EXCEPT ![t] =
                    [pc |-> IF permits_execution(o.decision) THEN "issue"
                            ELSE IF o.decision = "RequireApproval" THEN "raise" ELSE "record",
                     req |-> K.req, started |-> K.started, approval |-> K.approval,
                     decision |-> o.decision, token |-> 0,
                     approvers |-> o.approvers, constraints |-> o.constraints]]
    BY DEF Evaluate
  <2> HIDE DEF K, ok
  <2> DEFINE place == IF permits_execution(o.decision) THEN "issue"
                            ELSE IF o.decision = "RequireApproval" THEN "raise" ELSE "record"
             k == [pc |-> place, req |-> K.req, started |-> K.started, approval |-> K.approval,
                   decision |-> o.decision, token |-> 0,
                   approvers |-> o.approvers, constraints |-> o.constraints]
  <2>3. tasks' = [tasks EXCEPT ![t] = k]
    BY <2>2
  <2>4. place \in {"issue", "raise", "record"} /\ (place = "issue" => permits_execution(o.decision))
    OBVIOUS
  <2> HIDE DEF place
  <2>5. /\ k.pc = place /\ {"pc", "req", "token", "decision", "approval"} \subseteq DOMAIN k
        /\ k.token = 0 /\ k.req = K.req /\ k.approval = K.approval /\ k.decision = o.decision
    OBVIOUS
  <2> HIDE DEF k
  <2> QED
    BY <2>1, <2>3, <2>4, <2>5
<1>4. TaskHolds(k, grants, tokens)
  BY <1>3 DEF TaskHolds
<1>5. Extends(tokens, tokens') /\ IsSeq(tokens)'
  BY <1>1, SameTokens DEF CoreInv, Logs
<1>6. Tasking' /\ tasks'[t] = k /\ \A u \in Tasks \ {t} : tasks'[u] = tasks[u]
  BY <1>1, <1>3, <1>4, <1>5, OneTaskMoves DEF CoreInv
<1>7. CASE ok
  <2>1. /\ g \in grants /\ g.hash = action_hash(tasks[t].req) /\ g.id \in DOMAIN approvals
        /\ approvals[g.id].state = "Granted"
    BY <1>2, <1>7 DEF verifies
  <2>2. approvals' = SetState(approvals, g.id, "Consumed")
    BY <1>7 DEF Evaluate, SetState
  <2>3. IsSeq(approvals) /\ "state" \in DOMAIN approvals[g.id]
    BY <2>1 DEF CoreInv, Logs, Approving
  <2>4. /\ IsSeq(approvals') /\ Advances(approvals, approvals') /\ DOMAIN approvals' = DOMAIN approvals
        /\ approvals'[g.id].state = "Consumed"
        /\ \A j \in DOMAIN approvals :
              "state" \in DOMAIN approvals[j] => "state" \in DOMAIN approvals'[j]
    <3> DEFINE later == approvals'
               i == g.id
               v == "Consumed"
    <3>1. later = SetState(approvals, i, v) /\ i \in DOMAIN approvals /\ v \in {"Consumed", "Forgotten"}
      BY <2>1, <2>2
    <3>2. IsSeq(approvals) /\ "state" \in DOMAIN approvals[i]
      BY <2>3
    <3> HIDE DEF later, i, v
    <3>3. /\ IsSeq(later) /\ Advances(approvals, later) /\ DOMAIN later = DOMAIN approvals
          /\ later[i].state = v
          /\ \A j \in DOMAIN approvals :
                "state" \in DOMAIN approvals[j] => "state" \in DOMAIN later[j]
      BY <3>1, <3>2, StateChange
    <3> QED
      BY <3>3 DEF later, i, v
  <2>5. Approving'
    <3>1. \A j \in DOMAIN approvals :
            /\ approvals'[j].hash = approvals[j].hash
            /\ approvals'[j].requesting_principal = approvals[j].requesting_principal
      BY <2>4 DEF Advances
    <3> QED
      BY <1>1, <2>4, <3>1 DEF CoreInv, Approving
  <2>6. RestsOn(g.id, action_hash(tasks[t].req), approvals', grants')
    <3>1. g.approver # principal_of(g.hash)
      BY <2>1 DEF CoreInv, Approving
    <3> QED
      BY <1>1, <2>1, <2>4, <3>1 DEF RestsOn
  <2>7. /\ \A u \in Tasks : Spends(tasks[u]) => tasks[u].approval # g.id
        /\ \A i \in DOMAIN tokens : tokens[i].approval_id # 0 => tokens[i].approval_id # g.id
    BY <2>1 DEF CoreInv, Spending, RestsOn
  <2>8. g.id # 0
    <3>1. DOMAIN approvals = 1..Len(approvals) /\ Len(approvals) \in Nat
      BY <2>3, AppendFacts
    <3> QED
      BY <2>1, <3>1
  <2>9. \A i \in DOMAIN tokens : tokens[i].approval_id # g.id
    BY <2>7, <2>8
  <2>10. k.approval = g.id
    BY <1>3, <1>7
  <2>11. ASSUME NEW u \in Tasks, Spends(tasks'[u])
         PROVE  /\ RestsOn(tasks'[u].approval, action_hash(tasks'[u].req), approvals', grants')
                /\ \A v \in Tasks : Spends(tasks'[v]) /\ tasks'[v].approval = tasks'[u].approval => v = u
                /\ \A i \in DOMAIN tokens : tokens[i].approval_id # tasks'[u].approval
    <3>1. CASE u = t
      BY <1>3, <1>6, <2>6, <2>7, <2>9, <2>10, <2>11, <3>1
    <3>2. CASE u # t
      <4>1. tasks'[u] = tasks[u] /\ Spends(tasks[u])
        BY <1>6, <2>11, <3>2
      <4>2. /\ RestsOn(tasks[u].approval, action_hash(tasks[u].req), approvals, grants)
            /\ \A v \in Tasks : Spends(tasks[v]) /\ tasks[v].approval = tasks[u].approval => v = u
            /\ \A i \in DOMAIN tokens : tokens[i].approval_id # tasks[u].approval
        BY <4>1 DEF CoreInv, Spending
      <4>3. RestsOn(tasks[u].approval, action_hash(tasks[u].req), approvals', grants')
        BY <1>1, <2>4, <4>2, RestKeeps
      <4>4. tasks[u].approval # k.approval
        BY <2>7, <2>10, <4>1
      <4> QED
        BY <1>6, <4>1, <4>2, <4>3, <4>4
    <3> QED
      BY <3>1, <3>2
  <2>12. ASSUME NEW i \in DOMAIN tokens, tokens[i].approval_id # 0
         PROVE  RestsOn(tokens[i].approval_id, tokens[i].action_hash, approvals', grants')
    <3>1. RestsOn(tokens[i].approval_id, tokens[i].action_hash, approvals, grants)
      BY <2>12 DEF CoreInv, Spending
    <3> QED
      BY <1>1, <2>4, <3>1, RestKeeps
  <2>13. Spending'
    BY <1>1, <2>11, <2>12 DEF CoreInv, Spending
  <2> QED
    BY <1>1, <1>5, <1>6, <2>4, <2>5, <2>13, CoreKeeps
<1>8. CASE ~ok
  <2>1. approvals' = approvals /\ k.approval = 0
    BY <1>3, <1>8 DEF Evaluate
  <2>2. ASSUME NEW u \in Tasks, Spends(tasks'[u]) PROVE u # t /\ tasks'[u] = tasks[u]
    BY <1>6, <2>1, <2>2 DEF Spends
  <2>3. ASSUME NEW u \in Tasks, Spends(tasks'[u])
        PROVE  /\ RestsOn(tasks'[u].approval, action_hash(tasks'[u].req), approvals', grants')
               /\ \A v \in Tasks : Spends(tasks'[v]) /\ tasks'[v].approval = tasks'[u].approval => v = u
               /\ \A i \in DOMAIN tokens : tokens[i].approval_id # tasks'[u].approval
    BY <1>1, <2>1, <2>2, <2>3 DEF CoreInv, Spending
  <2>4. Spending'
    BY <1>1, <2>1, <2>3 DEF CoreInv, Spending
  <2>5. Approving' /\ IsSeq(approvals)'
    BY <1>1, <2>1 DEF CoreInv, Approving, Logs
  <2> QED
    BY <1>1, <1>5, <1>6, <2>4, <2>5, CoreKeeps
<1> QED
  BY <1>7, <1>8

-----------------------------------------------------------------------------
(* Steps that leave everything Core hands on alone.                        *)
coreHands == <<approvals, grants, tasks, tokens, audit, released>>

LEMMA HandsOff ==
    ASSUME CoreInv, UNCHANGED coreHands, IsSeq(executions)', Redeeming'
    PROVE  CoreInv'
<1>1. Logs' /\ Tasking' /\ Approving' /\ Spending' /\ Deciding'
  BY DEF coreHands, CoreInv, Logs, Tasking, Approving, Spending, Deciding
<1> QED
  BY <1>1 DEF CoreInv

LEMMA QuietKeeps ==
    ASSUME CoreInv, UNCHANGED coreHands, UNCHANGED <<redeemers, executions>>
    PROVE  CoreInv'
<1>1. Redeeming' /\ IsSeq(executions)'
  BY DEF coreHands, CoreInv, Redeeming, Logs
<1> QED
  BY <1>1, HandsOff

LEMMA CoreStepKeeps ==
    ASSUME CoreInv, CoreStep, UNCHANGED gatewayVars
    PROVE  CoreInv'
<1>1. ASSUME NEW t \in Tasks, Receive(t) \/ TaskStep(t) PROVE CoreInv'
  BY <1>1, ReceiveKeeps, StageKeeps, EvaluateKeeps, IssueKeeps, RaiseKeeps, RecordKeeps,
     RecordDecisionKeeps DEF TaskStep
<1>2. ASSUME NEW r \in Requests,
             EndSession(SessionKey(r)) \/ \E c \in DOMAIN Contents : Ingest(SessionKey(r), c)
      PROVE  CoreInv'
  BY <1>2, QuietKeeps DEF EndSession, Ingest, coreHands, gatewayVars
<1>3. ASSUME NEW i \in DOMAIN approvals, NEW h \in Approvers, Grant(i, h) PROVE CoreInv'
  BY <1>3, GrantKeeps
<1>4. CASE EvictStaleSessions
  BY <1>4, QuietKeeps DEF EvictStaleSessions, coreHands, gatewayVars
<1> QED
  BY <1>1, <1>2, <1>3, <1>4, CoreRestartKeeps DEF CoreStep

(* A step of one redemption keeps what the others hold.                    *)
LEMMA OneRedeemerMoves ==
    ASSUME CoreInv, UNCHANGED coreHands, NEW g \in Redeemers, NEW k,
           redeemers' = [redeemers EXCEPT ![g] = k], RedeemerHolds(k, released, tokens),
           executions' = executions
    PROVE  CoreInv'
<1>1. redeemers' = [h \in Redeemers |-> IF h = g THEN k ELSE redeemers[h]]
  BY DEF CoreInv, Redeeming
<1>2. ASSUME NEW h \in Redeemers PROVE RedeemerHolds(redeemers'[h], released', tokens')
  BY <1>1 DEF CoreInv, Redeeming, coreHands
<1>3. redeemers' = [h \in Redeemers |-> redeemers'[h]]
  BY <1>1
<1>4. Redeeming' /\ IsSeq(executions)'
  BY <1>2, <1>3 DEF CoreInv, Redeeming, coreHands, Logs
<1> QED
  BY <1>4, HandsOff

Resting == [pc |-> "idle"]

LEMMA GatewayStepKeeps ==
    ASSUME CoreInv, NEW g \in Redeemers, Present(g) \/ Consume(g) \/ Invoke(g)
    PROVE  CoreInv'
<1>1. UNCHANGED coreHands
  BY DEF Present, Consume, Invoke, coreVars, coreHands
<1>2. RedeemerHolds(redeemers[g], released, tokens)
  BY DEF CoreInv, Redeeming
<1>3. RedeemerHolds(Resting, released, tokens)
  BY DEF RedeemerHolds, Resting
<1>4. CASE Present(g)
  <2>1. PICK n \in released, r \in Requests :
           /\ check_binding(tokens[n], PresentedAction(r))
           /\ redeemers' = [redeemers EXCEPT ![g] = [pc |-> "consume", token |-> n, req |-> r]]
    BY <1>4 DEF Present
  <2>2. tokens[n].action_hash = action_hash(r)
    <3>1. "action_hash" \in DOMAIN PresentedAction(r) /\ PresentedAction(r)["action_hash"] = action_hash(r)
      BY DEF PresentedAction
    <3>2. tokens[n]["action_hash"] = action_hash(r)
      BY <2>1, <3>1 DEF check_binding
    <3> QED
      BY <3>2
  <2> DEFINE k == [pc |-> "consume", token |-> n, req |-> r]
  <2>3. RedeemerHolds(k, released, tokens)
    BY <2>2 DEF RedeemerHolds
  <2>4. redeemers' = [redeemers EXCEPT ![g] = k] /\ executions' = executions
    BY <1>4, <2>1 DEF Present
  <2> HIDE DEF k
  <2> QED
    BY <1>1, <2>3, <2>4, OneRedeemerMoves
<1>5. CASE Consume(g)
  <2>1. executions' = executions /\ redeemers[g].pc = "consume"
    BY <1>5 DEF Consume
  <2>2. CASE redeemers' = [redeemers EXCEPT ![g] = Resting]
    BY <1>1, <1>3, <2>1, <2>2, OneRedeemerMoves
  <2>3. CASE redeemers' = [redeemers EXCEPT ![g] = [pc |-> "invoke", token |-> redeemers[g].token,
                                                    req |-> @.req]]
    <3> DEFINE k == [pc |-> "invoke", token |-> redeemers[g].token, req |-> redeemers[g].req]
    <3>1. redeemers' = [redeemers EXCEPT ![g] = k]
      BY <2>3 DEF CoreInv, Redeeming
    <3>2. RedeemerHolds(k, released, tokens)
      BY <1>2, <2>1 DEF RedeemerHolds
    <3> HIDE DEF k
    <3> QED
      BY <1>1, <2>1, <3>1, <3>2, OneRedeemerMoves
  <2> QED
    BY <1>5, <2>2, <2>3 DEF Consume, Resting
<1>6. CASE Invoke(g)
  <2>1. redeemers' = [redeemers EXCEPT ![g] = Resting] /\ redeemers[g].pc = "invoke"
    BY <1>6 DEF Invoke, Resting
  <2>2. CASE executions' = executions
    BY <1>1, <1>3, <2>1, <2>2, OneRedeemerMoves
  <2>3. CASE executions' = Append(executions, [token |-> redeemers[g].token, req |-> redeemers[g].req,
                                incarnation |-> incarnation])
    <3> DEFINE e == [token |-> redeemers[g].token, req |-> redeemers[g].req,
                     incarnation |-> incarnation]
    <3>1. Decided(e.token, action_hash(e.req), audit)
      BY <1>2, <2>1 DEF RedeemerHolds, CoreInv, Deciding
    <3> HIDE DEF e
    <3>2. /\ IsSeq(executions') /\ Extends(executions, executions')
          /\ DOMAIN executions' = DOMAIN executions \cup {Len(executions) + 1}
          /\ executions'[Len(executions) + 1] = e
      BY <2>3, AppendFacts DEF CoreInv, Logs, e
    <3>3. ASSUME NEW i \in DOMAIN executions'
          PROVE  Decided(executions'[i].token, action_hash(executions'[i].req), audit')
      <4>1. audit' = audit
        BY <1>1 DEF coreHands
      <4>2. CASE i \in DOMAIN executions
        BY <3>2, <4>1, <4>2 DEF Extends, CoreInv, Redeeming
      <4>3. CASE i = Len(executions) + 1
        BY <3>1, <3>2, <4>1, <4>3
      <4> QED
        BY <3>2, <4>2, <4>3
    <3>4. redeemers' = [h \in Redeemers |-> IF h = g THEN Resting ELSE redeemers[h]]
      BY <2>1 DEF CoreInv, Redeeming
    <3>5. ASSUME NEW h \in Redeemers PROVE RedeemerHolds(redeemers'[h], released', tokens')
      BY <1>1, <1>3, <3>4 DEF CoreInv, Redeeming, coreHands
    <3>6. redeemers' = [h \in Redeemers |-> redeemers'[h]]
      BY <3>4
    <3>7. Redeeming'
      BY <3>3, <3>5, <3>6 DEF Redeeming
    <3> QED
      BY <1>1, <3>2, <3>7, HandsOff
  <2> QED
    BY <1>6, <2>2, <2>3 DEF Invoke
<1> QED
  BY <1>4, <1>5, <1>6

LEMMA NextCoreInv == CoreInv /\ [Next]_vars => CoreInv'
<1> SUFFICES ASSUME CoreInv, [Next]_vars PROVE CoreInv'
  OBVIOUS
<1>1. CASE Tick \/ UNCHANGED vars
  BY <1>1, QuietKeeps DEF Tick, vars, coreVars, coreHands, gatewayVars
<1>2. CASE GatewayRestart
  <2>1. UNCHANGED coreHands /\ executions' = executions /\ redeemers' = [g \in Redeemers |-> Resting]
    BY <1>2 DEF GatewayRestart, coreVars, coreHands, Resting
  <2>2. ASSUME NEW g \in Redeemers PROVE RedeemerHolds(redeemers'[g], released', tokens')
    BY <2>1 DEF RedeemerHolds, Resting
  <2>3. Redeeming' /\ IsSeq(executions)'
    BY <2>1, <2>2 DEF CoreInv, Redeeming, Logs, coreHands
  <2> QED
    BY <2>1, <2>3, HandsOff
<1> QED
  BY <1>1, <1>2, CoreStepKeeps, GatewayStepKeeps DEF Next

LEMMA InitCoreInv == ServerInit => CoreInv
<1> SUFFICES ASSUME ServerInit PROVE CoreInv
  OBVIOUS
<1>1. PICK o \in Opening : approvals = o.approvals /\ grants = o.grants
  BY DEF ServerInit, Init
<1>2. tasks = [t \in Tasks |-> Idle] /\ tokens = <<>> /\ audit = {} /\ released = {}
  BY DEF ServerInit, Init
<1>3. redeemers = [g \in Redeemers |-> Resting] /\ executions = <<>>
  BY DEF ServerInit, GatewayInit, Resting
<1>4. IsSeq(approvals)
  BY <1>1, CoreAssumption DEF IsSeq
<1>5. <<>> \in Seq({}) /\ DOMAIN <<>> = {}
  OBVIOUS
<1>6. Logs /\ DOMAIN tokens = {} /\ DOMAIN executions = {}
  BY <1>2, <1>3, <1>4, <1>5 DEF Logs, IsSeq
<1>7. Approving
  <2>1. ASSUME NEW i \in DOMAIN approvals
        PROVE  /\ "state" \in DOMAIN approvals[i]
               /\ approvals[i].requesting_principal = principal_of(approvals[i].hash)
    <3>1. "state" \in DOMAIN approvals[i]
      BY <1>1, CoreAssumption
    <3>2. PICK r \in Requests : /\ approvals[i].hash = action_hash(r)
                                /\ approvals[i].requesting_principal = r.principal
      BY <1>1, CoreAssumption
    <3> QED
      BY <3>1, <3>2 DEF action_hash, principal_of
  <2>2. \A g \in grants : /\ g.id \in DOMAIN approvals /\ g.hash = approvals[g.id].hash
                          /\ g.approver # approvals[g.id].requesting_principal
    BY <1>1, CoreAssumption
  <2> QED
    BY <2>1, <2>2 DEF Approving
<1>8. Tasking /\ Spending
  BY <1>2, <1>6 DEF Tasking, TaskHolds, Spending, Spends, Idle
<1>9. Deciding /\ Redeeming
  BY <1>2, <1>3, <1>6 DEF Deciding, Redeeming, RedeemerHolds, Resting
<1> QED
  BY <1>6, <1>7, <1>8, <1>9 DEF CoreInv

(* In every reachable state tasks, tokens, records and redemptions hang    *)
(* together as CoreInv says.                                               *)
THEOREM ServerInvariant == Spec => []CoreInv
  BY InitCoreInv, NextCoreInv, PTL DEF Spec

(* No two capabilities rest on one approval, and each that rests on one    *)
(* rests on one that somebody else granted for exactly its request, however*)
(* many retries are in flight and wherever Core restarts (approval.rs      *)
(* verify_and_consume).                                                    *)
THEOREM ApprovalsAreSpentOnce == Spec => []ApprovalSpentOnce
<1>1. CoreInv => ApprovalSpentOnce
  BY DEF CoreInv, Spending, RestsOn, ApprovalSpentOnce
<1> QED
  BY <1>1, ServerInvariant, PTL

(* Nothing reaches a tool but the very request a recorded decision         *)
(* permitted (pipeline.rs record_decision, gateway verify_and_consume).    *)
THEOREM OnlyDecidedIsExecuted == Spec => []ExecutionsAreDecided
<1>1. CoreInv => ExecutionsAreDecided
  BY DEF CoreInv, Redeeming, Decided, ExecutionsAreDecided
<1> QED
  BY <1>1, ServerInvariant, PTL

-----------------------------------------------------------------------------
(* Redemptions of a token: x one that reached a backend in some life of    *)
(* the gateway, k one that is about to.                                    *)
Ran(x, n, life)  == x.token = n /\ x.incarnation = life
Running(k, n)    == k.pc = "invoke" /\ k.token = n

(* There is at most one in a life, and the token's nonce remembers it.     *)
UsedOnce(n) ==
    /\ \A life \in 0..incarnation : \A i, j \in DOMAIN executions :
          Ran(executions[i], n, life) /\ Ran(executions[j], n, life) => i = j
    /\ \A g, h \in Redeemers : Running(redeemers[g], n) /\ Running(redeemers[h], n) => g = h
    /\ \A g \in Redeemers, i \in DOMAIN executions :
          ~(Running(redeemers[g], n) /\ Ran(executions[i], n, incarnation))
    /\ uses(n) < 1 =>
          /\ \A g \in Redeemers : ~Running(redeemers[g], n)
          /\ \A i \in DOMAIN executions : ~Ran(executions[i], n, incarnation)

Nonces ==
    \A n \in DOMAIN nonces : n \in DOMAIN tokens /\ nonces[n] \in Nat

UseInv ==
    /\ incarnation \in Nat /\ clock \in Nat
    /\ \A i \in DOMAIN executions :
          executions[i].token \in DOMAIN tokens /\ executions[i].incarnation \in 0..incarnation
    /\ Nonces
    /\ \A n \in DOMAIN tokens : tokens[n].max_uses = 1
    /\ \A n \in DOMAIN tokens : UsedOnce(n)

(* Steps outside the gateway: time passes, or Core signs a token.          *)
LEMMA OutsideUses ==
    ASSUME CoreInv, UseInv, UNCHANGED gatewayVars, clock' \in Nat, clock <= clock',
           Extends(tokens, tokens'),
           \A n \in DOMAIN tokens' : tokens'[n].max_uses = 1
    PROVE  UseInv'
<1>1. /\ redeemers' = redeemers /\ nonces' = nonces /\ incarnation' = incarnation
      /\ executions' = executions
  BY DEF gatewayVars
<1>2. /\ \A i \in DOMAIN executions : executions[i].token \in DOMAIN tokens
      /\ \A n \in DOMAIN tokens : n \in DOMAIN tokens' /\ tokens'[n] = tokens[n]
      /\ incarnation \in Nat /\ clock \in Nat
  BY DEF UseInv, Extends
<1>3. Nonces'
  BY <1>1, <1>2 DEF UseInv, Nonces
<1>4. ASSUME NEW n \in DOMAIN tokens' PROVE UsedOnce(n)'
  <2>1. CASE n \in DOMAIN tokens
    <3>1. UsedOnce(n) /\ tokens'[n] = tokens[n]
      BY <1>2, <2>1 DEF UseInv
    <3> QED
      BY <1>1, <3>1 DEF UsedOnce, Ran, Running, uses
  <2>2. CASE n \notin DOMAIN tokens
    <3>1. \A i \in DOMAIN executions : executions[i].token # n
      BY <1>2, <2>2
    <3>2. \A g \in Redeemers : redeemers[g].pc = "invoke" => redeemers[g].token # n
      BY <2>2 DEF CoreInv, Redeeming, RedeemerHolds, Deciding
    <3> QED
      BY <1>1, <3>1, <3>2 DEF UsedOnce, Ran, Running
  <2> QED
    BY <2>1, <2>2
<1>5. \A i \in DOMAIN executions' :
         executions'[i].token \in DOMAIN tokens' /\ executions'[i].incarnation \in 0..incarnation'
  BY <1>1, <1>2 DEF UseInv
<1> QED
  BY <1>1, <1>2, <1>3, <1>4, <1>5 DEF UseInv

LEMMA CoreUses ==
    ASSUME CoreInv, UseInv, CoreStep, UNCHANGED gatewayVars
    PROVE  UseInv'
<1>1. clock' = clock /\ (tokens' = tokens \/ \E t \in Tasks : Issue(t))
  BY DEF CoreStep, TaskStep, Receive, Analyze, CheckBudget, Evaluate, Issue, RaiseApproval, Record,
     RecordDecision, EndSession, Ingest, Grant, EvictStaleSessions, CoreRestart
<1>2. clock \in Nat /\ clock' \in Nat /\ clock <= clock'
  BY <1>1 DEF UseInv
<1>3. CASE tokens' = tokens
  <2>1. Extends(tokens, tokens')
    BY <1>3, SameTokens
  <2>2. \A n \in DOMAIN tokens' : tokens'[n].max_uses = 1
    BY <1>3 DEF UseInv
  <2> QED
    BY <1>2, <2>1, <2>2, OutsideUses
<1>4. ASSUME NEW t \in Tasks, Issue(t) PROVE UseInv'
  <2> DEFINE c == Claims(tasks[t])
  <2>1. c.max_uses = 1
    BY DEF Claims
  <2>3. tokens' = Append(tokens, c)
    BY <1>4 DEF Issue
  <2> HIDE DEF c
  <2>4. /\ Extends(tokens, tokens') /\ DOMAIN tokens' = DOMAIN tokens \cup {Len(tokens) + 1}
        /\ tokens'[Len(tokens) + 1] = c
    BY <2>3, AppendFacts DEF CoreInv, Logs
  <2>5. \A n \in DOMAIN tokens' : tokens'[n].max_uses = 1
    BY <2>1, <2>4 DEF Extends, UseInv
  <2> QED
    BY <1>2, <2>4, <2>5, OutsideUses
<1> QED
  BY <1>1, <1>3, <1>4

(* Steps of the gateway that run nothing and forget nothing.               *)
LEMMA IdleUses ==
    ASSUME UseInv, UNCHANGED <<tokens, clock, incarnation, executions>>, Nonces',
           \A n \in DOMAIN tokens : uses(n)' \in Nat /\ (uses(n)' < 1 => uses(n) < 1),
           \A g \in Redeemers : redeemers'[g].pc = "invoke" => redeemers'[g] = redeemers[g]
    PROVE  UseInv'
<1>1. ASSUME NEW n \in DOMAIN tokens PROVE UsedOnce(n)'
  <2>1. UsedOnce(n)
    BY DEF UseInv
  <2>2. \A g \in Redeemers : Running(redeemers[g], n)' => Running(redeemers[g], n)
    BY DEF Running
  <2>3. \A i \in DOMAIN executions, life \in 0..incarnation :
           Ran(executions[i], n, life)' = Ran(executions[i], n, life)
    BY DEF Ran
  <2> QED
    BY <2>1, <2>2, <2>3 DEF UsedOnce, Ran, UseInv
<1> QED
  BY <1>1 DEF UseInv

LEMMA PresentUses ==
    ASSUME CoreInv, UseInv, NEW g \in Redeemers, Present(g)
    PROVE  UseInv'
<1>1. PICK k : k.pc = "consume" /\ redeemers' = [redeemers EXCEPT ![g] = k]
  <2>1. PICK n \in released, r \in Requests :
           redeemers' = [redeemers EXCEPT ![g] = [pc |-> "consume", token |-> n, req |-> r]]
    BY DEF Present
  <2>2. [pc |-> "consume", token |-> n, req |-> r].pc = "consume"
    OBVIOUS
  <2> QED
    BY <2>1, <2>2
<1>2. redeemers' = [h \in Redeemers |-> IF h = g THEN k ELSE redeemers[h]]
  BY <1>1 DEF CoreInv, Redeeming
<1>3. \A h \in Redeemers : redeemers'[h].pc = "invoke" => redeemers'[h] = redeemers[h]
  BY <1>1, <1>2
<1>4. UNCHANGED <<tokens, clock, incarnation, executions, nonces>>
  BY DEF Present, coreVars
<1>5. Nonces' /\ \A n \in DOMAIN tokens : uses(n)' = uses(n) /\ uses(n) \in Nat
  BY <1>4 DEF UseInv, Nonces, uses
<1> QED
  BY <1>3, <1>4, <1>5, IdleUses

LEMMA ConsumeUses ==
    ASSUME CoreInv, UseInv, NEW g \in Redeemers, Consume(g)
    PROVE  UseInv'
<1>0. PICK n : n = redeemers[g].token
  OBVIOUS
<1>1. redeemers[g].pc = "consume" /\ UNCHANGED <<tokens, clock, incarnation, executions>>
  BY DEF Consume, coreVars
<1>2. n \in DOMAIN tokens /\ tokens[n].max_uses = 1 /\ clock \in Nat
  BY <1>0, <1>1 DEF CoreInv, Redeeming, RedeemerHolds, Deciding, UseInv
<1>3. \A m \in DOMAIN tokens : uses(m) \in Nat
  BY DEF UseInv, Nonces, uses
<1>4. CASE redeemers' = [redeemers EXCEPT ![g] = Resting] /\ UNCHANGED nonces
  <2>1. redeemers' = [h \in Redeemers |-> IF h = g THEN Resting ELSE redeemers[h]]
    BY <1>4 DEF CoreInv, Redeeming
  <2>2. \A h \in Redeemers : redeemers'[h].pc = "invoke" => redeemers'[h] = redeemers[h]
    BY <2>1 DEF Resting
  <2>3. Nonces' /\ \A m \in DOMAIN tokens : uses(m)' = uses(m)
    BY <1>1, <1>4 DEF UseInv, Nonces, uses
  <2> QED
    BY <1>1, <1>3, <2>2, <2>3, IdleUses
<1>5. ASSUME uses(n) < tokens[n].max_uses,
             nonces' = used(n),
             redeemers' = [redeemers EXCEPT ![g] =
                      [pc |-> "invoke", token |-> n, req |-> @.req]]
      PROVE  UseInv'
  <2> DEFINE k == [pc |-> "invoke", token |-> n, req |-> redeemers[g].req]
  <2>1. redeemers' = [h \in Redeemers |-> IF h = g THEN k ELSE redeemers[h]]
    BY <1>5 DEF CoreInv, Redeeming
  <2>2. k.pc = "invoke" /\ k.token = n
    OBVIOUS
  <2> HIDE DEF k
  <2>3. redeemers'[g] = k /\ \A h \in Redeemers \ {g} : redeemers'[h] = redeemers[h]
    BY <2>1
  <2>4. /\ DOMAIN nonces' = DOMAIN nonces \cup {n}
        /\ nonces'[n] = uses(n) + 1
        /\ \A i \in DOMAIN nonces \ {n} : nonces'[i] = nonces[i]
    BY <1>5 DEF used
  <2>5. Nonces'
    BY <1>1, <1>2, <1>3, <2>4 DEF UseInv, Nonces
  <2>6. uses(n)' = uses(n) + 1 /\ \A m \in DOMAIN tokens \ {n} : uses(m)' = uses(m)
    BY <2>4 DEF uses
  <2>7. ASSUME NEW m \in DOMAIN tokens PROVE UsedOnce(m)'
    <3>1. UsedOnce(m)
      BY DEF UseInv
    <3>2. \A h \in Redeemers \ {g} : Running(redeemers[h], m)' = Running(redeemers[h], m)
      BY <1>1, <2>3 DEF Running
    <3>3. ~Running(redeemers[g], m)
      BY <1>1 DEF Running
    <3>4. Running(redeemers[g], m)' => m = n
      BY <1>1, <2>2, <2>3 DEF Running
    <3>5. \A i \in DOMAIN executions, life \in 0..incarnation :
             Ran(executions[i], m, life)' = Ran(executions[i], m, life)
      BY <1>1 DEF Ran
    <3>6. incarnation \in 0..incarnation
      BY DEF UseInv
    <3>7. CASE m = n
      <4>1. uses(n) < 1
        BY <1>2, <1>5
      <4>2. /\ \A h \in Redeemers : ~Running(redeemers[h], n)
            /\ \A i \in DOMAIN executions : ~Ran(executions[i], n, incarnation)
        BY <3>1, <3>7, <4>1 DEF UsedOnce
      <4>3. ~(uses(n)' < 1)
        BY <1>2, <1>3, <2>6
      <4>4. /\ \A h \in Redeemers : Running(redeemers[h], n)' => h = g
            /\ \A i \in DOMAIN executions : ~Ran(executions[i], n, incarnation)'
        BY <1>1, <3>2, <3>5, <3>6, <3>7, <4>2
      <4>5. \A life \in 0..incarnation : \A i, j \in DOMAIN executions :
               Ran(executions[i], n, life)' /\ Ran(executions[j], n, life)' => i = j
        BY <3>1, <3>5, <3>7 DEF UsedOnce
      <4> QED
        BY <1>1, <3>7, <4>3, <4>4, <4>5 DEF UsedOnce, Ran
    <3>8. CASE m # n
      <4>1. \A h \in Redeemers : Running(redeemers[h], m)' => Running(redeemers[h], m)
        BY <3>2, <3>4, <3>8
      <4>2. uses(m)' < 1 => uses(m) < 1
        BY <2>6, <3>8
      <4> QED
        BY <1>1, <3>1, <3>5, <3>6, <4>1, <4>2 DEF UsedOnce, Ran
    <3> QED
      BY <3>7, <3>8
  <2> QED
    BY <1>1, <2>5, <2>7 DEF UseInv
<1>6. uses(n) < tokens[n].max_uses \/ uses(n) >= tokens[n].max_uses
  BY <1>2, <1>3
<1>7. CASE uses(n) >= tokens[n].max_uses
  BY <1>0, <1>4, <1>7 DEF Consume, Resting
<1>8. CASE ~(uses(n) >= tokens[n].max_uses)
  BY <1>0, <1>5, <1>6, <1>8 DEF Consume
<1> QED
  BY <1>7, <1>8

LEMMA InvokeUses ==
    ASSUME CoreInv, UseInv, NEW g \in Redeemers, Invoke(g)
    PROVE  UseInv'
<1>1. redeemers[g].pc = "invoke" /\ UNCHANGED <<tokens, clock, incarnation, nonces>>
  BY DEF Invoke, coreVars
<1>2. redeemers' = [h \in Redeemers |-> IF h = g THEN Resting ELSE redeemers[h]]
  BY DEF Invoke, Resting, CoreInv, Redeeming
<1>3. redeemers'[g] = Resting /\ \A h \in Redeemers \ {g} : redeemers'[h] = redeemers[h]
  BY <1>2
<1>4. Nonces' /\ \A n \in DOMAIN tokens : uses(n)' = uses(n) /\ uses(n) \in Nat
  BY <1>1 DEF UseInv, Nonces, uses
<1>5. CASE executions' = executions
  <2>1. \A h \in Redeemers : redeemers'[h].pc = "invoke" => redeemers'[h] = redeemers[h]
    BY <1>3 DEF Resting
  <2> QED
    BY <1>1, <1>4, <1>5, <2>1, IdleUses
<1>6. CASE executions' = Append(executions, [token |-> redeemers[g].token, req |-> redeemers[g].req,
                                incarnation |-> incarnation])
  <2> DEFINE e == [token |-> redeemers[g].token, req |-> redeemers[g].req,
                   incarnation |-> incarnation]
  <2>0. PICK last : last = Len(executions) + 1
    OBVIOUS
  <2>1. e.token = redeemers[g].token /\ e.incarnation = incarnation
    OBVIOUS
  <2>2. executions' = Append(executions, e)
    BY <1>6
  <2> HIDE DEF e
  <2>3. /\ Extends(executions, executions') /\ DOMAIN executions' = DOMAIN executions \cup {last}
        /\ executions'[last] = e /\ last \notin DOMAIN executions
    BY <2>0, <2>2, AppendFacts DEF CoreInv, Logs
  <2>4. \A i \in DOMAIN executions : i \in DOMAIN executions' /\ executions'[i] = executions[i]
    BY <2>3 DEF Extends
  <2>5. e.token \in DOMAIN tokens
    BY <1>1, <2>1 DEF CoreInv, Redeeming, RedeemerHolds, Deciding
  <2>6. incarnation \in Nat /\ incarnation \in 0..incarnation
    BY DEF UseInv
  <2>7. \A i \in DOMAIN executions' :
           executions'[i].token \in DOMAIN tokens /\ executions'[i].incarnation \in 0..incarnation
    BY <2>1, <2>3, <2>4, <2>5, <2>6 DEF UseInv
  <2>8. ASSUME NEW n \in DOMAIN tokens PROVE UsedOnce(n)'
    <3>1. UsedOnce(n)
      BY DEF UseInv
    <3>2. \A h \in Redeemers : Running(redeemers[h], n)' => h # g /\ Running(redeemers[h], n)
      BY <1>1, <1>3 DEF Running, Resting
    <3>3. \A i \in DOMAIN executions, life \in 0..incarnation :
             Ran(executions[i], n, life)' = Ran(executions[i], n, life)
      BY <1>1, <2>4 DEF Ran
    <3>4. ASSUME NEW life \in 0..incarnation, Ran(executions[last], n, life)'
          PROVE  life = incarnation /\ Running(redeemers[g], n)
      BY <1>1, <2>1, <2>3, <3>4 DEF Ran, Running
    <3>5. \A life \in 0..incarnation : \A i, j \in DOMAIN executions' :
             Ran(executions[i], n, life)' /\ Ran(executions[j], n, life)' => i = j
      <4>1. ASSUME NEW life \in 0..incarnation, NEW i \in DOMAIN executions,
                   Ran(executions[i], n, life)', Ran(executions[last], n, life)'
            PROVE  FALSE
        BY <3>1, <3>3, <3>4, <4>1 DEF UsedOnce
      <4>2. ASSUME NEW life \in 0..incarnation, NEW i \in DOMAIN executions, NEW j \in DOMAIN executions,
                   Ran(executions[i], n, life)', Ran(executions[j], n, life)'
            PROVE  i = j
        BY <3>1, <3>3, <4>2 DEF UsedOnce
      <4> QED
        BY <2>3, <4>1, <4>2
    <3>6. \A h \in Redeemers, i \in DOMAIN executions' :
             ~(Running(redeemers[h], n)' /\ Ran(executions[i], n, incarnation)')
      <4>1. ASSUME NEW h \in Redeemers, NEW i \in DOMAIN executions,
                   Running(redeemers[h], n)', Ran(executions[i], n, incarnation)'
            PROVE  FALSE
        BY <1>1, <2>6, <3>1, <3>2, <3>3, <4>1 DEF UsedOnce
      <4>2. ASSUME NEW h \in Redeemers, Running(redeemers[h], n)', Ran(executions[last], n, incarnation)'
            PROVE  FALSE
        BY <1>1, <2>6, <3>1, <3>2, <3>4, <4>2 DEF UsedOnce
      <4> QED
        BY <2>3, <4>1, <4>2
    <3>7. \A h, x \in Redeemers : Running(redeemers[h], n)' /\ Running(redeemers[x], n)' => h = x
      BY <3>1, <3>2 DEF UsedOnce
    <3>8. ASSUME uses(n) < 1
          PROVE  /\ \A h \in Redeemers : ~Running(redeemers[h], n)'
                 /\ \A i \in DOMAIN executions' : ~Ran(executions[i], n, incarnation)'
      <4>1. /\ \A h \in Redeemers : ~Running(redeemers[h], n)
            /\ \A i \in DOMAIN executions : ~Ran(executions[i], n, incarnation)
        BY <3>1, <3>8 DEF UsedOnce
      <4>2. ~Ran(executions[last], n, incarnation)'
        BY <1>1, <2>6, <3>4, <4>1
      <4>3. \A i \in DOMAIN executions : ~Ran(executions[i], n, incarnation)'
        BY <1>1, <2>6, <3>3, <4>1
      <4> QED
        BY <2>3, <3>2, <4>1, <4>2, <4>3
    <3> QED
      BY <1>1, <1>4, <3>5, <3>6, <3>7, <3>8 DEF UsedOnce, Ran
  <2> QED
    BY <1>1, <1>4, <2>7, <2>8 DEF UseInv
<1> QED
  BY <1>5, <1>6 DEF Invoke

LEMMA RestartUses ==
    ASSUME CoreInv, UseInv, GatewayRestart
    PROVE  UseInv'
<1>0. PICK next : next = incarnation + 1
  OBVIOUS
<1>1. incarnation' = next /\ UNCHANGED <<tokens, clock, executions>>
  BY <1>0 DEF GatewayRestart, coreVars
<1>2. incarnation \in Nat /\ next \in Nat /\ next \notin 0..incarnation /\ 0..next = 0..incarnation \cup {next}
  BY <1>0 DEF UseInv
<1>3. Nonces' /\ \A n : uses(n)' = 0
  <2>1. nonces' = <<>> /\ DOMAIN nonces' = {}
    BY DEF GatewayRestart
  <2> QED
    BY <2>1 DEF Nonces, uses
<1>4. \A g \in Redeemers : redeemers'[g].pc = "idle"
  BY DEF GatewayRestart
<1>5. \A i \in DOMAIN executions :
         executions[i].token \in DOMAIN tokens /\ executions[i].incarnation \in 0..incarnation
  BY DEF UseInv
<1>6. ASSUME NEW n \in DOMAIN tokens PROVE UsedOnce(n)'
  <2>1. UsedOnce(n)
    BY DEF UseInv
  <2>2. \A g \in Redeemers : ~Running(redeemers[g], n)'
    BY <1>4 DEF Running
  <2>3. \A i \in DOMAIN executions : ~Ran(executions[i], n, next)'
    BY <1>1, <1>2, <1>5 DEF Ran
  <2>4. \A i \in DOMAIN executions, life \in 0..incarnation :
           Ran(executions[i], n, life)' = Ran(executions[i], n, life)
    BY <1>1 DEF Ran
  <2>5. \A life \in 0..next : \A i, j \in DOMAIN executions :
           Ran(executions[i], n, life)' /\ Ran(executions[j], n, life)' => i = j
    <3>1. \A life \in 0..incarnation : \A i, j \in DOMAIN executions :
             Ran(executions[i], n, life)' /\ Ran(executions[j], n, life)' => i = j
      BY <2>1, <2>4 DEF UsedOnce
    <3> QED
      BY <1>2, <2>3, <3>1
  <2> QED
    BY <1>1, <2>2, <2>3, <2>5 DEF UsedOnce, Ran
<1> QED
  BY <1>1, <1>2, <1>3, <1>5, <1>6 DEF UseInv

LEMMA NextUseInv == CoreInv /\ UseInv /\ [Next]_vars => UseInv'
<1> SUFFICES ASSUME CoreInv, UseInv, [Next]_vars PROVE UseInv'
  OBVIOUS
<1>1. ASSUME UNCHANGED gatewayVars, UNCHANGED tokens, clock' \in Nat, clock <= clock'
      PROVE  UseInv'
  <2>1. \A n \in DOMAIN tokens' : tokens'[n].max_uses = 1
    BY <1>1 DEF UseInv
  <2>2. Extends(tokens, tokens')
    BY <1>1, SameTokens
  <2> QED
    BY <1>1, <2>1, <2>2, OutsideUses
<1>2. CASE CoreStep /\ UNCHANGED gatewayVars
  BY <1>2, CoreUses
<1>3. CASE \E g \in Redeemers : Present(g) \/ Consume(g) \/ Invoke(g)
  BY <1>3, PresentUses, ConsumeUses, InvokeUses
<1>4. CASE GatewayRestart
  BY <1>4, RestartUses
<1>5. CASE Tick
  <2>1. UNCHANGED gatewayVars /\ UNCHANGED tokens /\ clock' = clock + 1 /\ clock \in Nat
    BY <1>5 DEF Tick, UseInv
  <2>2. clock' \in Nat /\ clock <= clock'
    BY <2>1
  <2> QED
    BY <1>1, <2>1, <2>2
<1>6. CASE UNCHANGED vars
  <2>1. UNCHANGED gatewayVars /\ UNCHANGED tokens /\ clock' = clock /\ clock \in Nat
    BY <1>6 DEF vars, gatewayVars, UseInv
  <2>2. clock' \in Nat /\ clock <= clock'
    BY <2>1
  <2> QED
    BY <1>1, <2>1, <2>2
<1> QED
  BY <1>2, <1>3, <1>4, <1>5, <1>6 DEF Next

LEMMA InitUseInv == ServerInit => UseInv
<1> SUFFICES ASSUME ServerInit PROVE UseInv
  OBVIOUS
<1>1. /\ DOMAIN tokens = {} /\ DOMAIN executions = {} /\ DOMAIN nonces = {}
      /\ incarnation = 0 /\ clock \in Nat
  BY DEF ServerInit, Init, GatewayInit
<1> QED
  BY <1>1 DEF UseInv, Nonces

(* One life of the gateway lets at most max_uses calls with a token        *)
(* through, however redemptions of it interleave between the checks, the   *)
(* nonce store and the backend (signer.rs verify_and_consume, nonce.rs     *)
(* consume).                                                               *)
THEOREM TokensAreUsedOnce == Spec => []SingleUsePerLife
<1>1. UseInv => SingleUsePerLife
  <2> SUFFICES ASSUME UseInv, NEW n \in DOMAIN tokens, NEW life \in 0..incarnation
               PROVE  Cardinality({i \in DOMAIN executions :
                        executions[i].token = n /\ executions[i].incarnation = life})
                         <= tokens[n].max_uses
    BY DEF SingleUsePerLife
  <2> DEFINE S == {i \in DOMAIN executions :
                        executions[i].token = n /\ executions[i].incarnation = life}
  <2>1. \A i, j \in S : i = j
    BY DEF UseInv, UsedOnce, Ran
  <2>2. tokens[n].max_uses = 1
    BY DEF UseInv
  <2> HIDE DEF S
  <2>3. S = {} \/ \E i : S = {i}
    BY <2>1
  <2>4. Cardinality(S) = 0 \/ Cardinality(S) = 1
    BY <2>3, FS_EmptySet, FS_Singleton
  <2>5. Cardinality(S) <= tokens[n].max_uses
    BY <2>2, <2>4
  <2> QED
    BY <2>5 DEF S
<1> QED
  BY <1>1, InitUseInv, NextUseInv, ServerInvariant, PTL DEF Spec

-----------------------------------------------------------------------------
(***************************************************************************)
(* The budget.  It is checked in one lock section and charged in a later   *)
(* one.  A task between the two is one the check let through, when fewer   *)
(* calls than the limit were spent; so what is spent and what is about to  *)
(* be spent exceed the limit by less than the number of tasks.             *)
(***************************************************************************)

LEMMA Ranks ==
      /\ restrictiveness["Allow"] = 0 /\ restrictiveness["AllowWithConstraints"] = 1
      /\ restrictiveness["AllowWithRedaction"] = 2 /\ restrictiveness["RequireApproval"] = 3
      /\ restrictiveness["Quarantine"] = 4 /\ restrictiveness["Deny"] = 5
      /\ restrictiveness["TerminateSession"] = 6
  BY DEF restrictiveness

(* The strictest of some decisions is one of them and no laxer than any.   *)
LEMMA StrictestIs ==
    ASSUME NEW ds, ds # {}, ds \subseteq Decisions
    PROVE  /\ Strictest(ds) \in ds
           /\ \A e \in ds : restrictiveness[e] <= restrictiveness[Strictest(ds)]
<1>2. \E d \in ds : \A e \in ds : restrictiveness[e] <= restrictiveness[d]
  <2>0. \A e \in ds : e \in Decisions
    OBVIOUS
  <2>1. CASE "TerminateSession" \in ds
    BY <2>0, <2>1, Ranks DEF Decisions
  <2>2. CASE "TerminateSession" \notin ds /\ "Deny" \in ds
    BY <2>0, <2>2, Ranks DEF Decisions
  <2>3. CASE ds \cap {"TerminateSession", "Deny"} = {} /\ "Quarantine" \in ds
    BY <2>0, <2>3, Ranks DEF Decisions
  <2>4. CASE ds \cap {"TerminateSession", "Deny", "Quarantine"} = {} /\ "RequireApproval" \in ds
    BY <2>0, <2>4, Ranks DEF Decisions
  <2>5. CASE /\ ds \cap {"TerminateSession", "Deny", "Quarantine", "RequireApproval"} = {}
             /\ "AllowWithRedaction" \in ds
    BY <2>0, <2>5, Ranks DEF Decisions
  <2>6. CASE ds \subseteq {"Allow", "AllowWithConstraints"}
    <3>1. CASE "AllowWithConstraints" \in ds
      <4>1. \A e \in ds : restrictiveness[e] <= restrictiveness["AllowWithConstraints"]
        BY <2>6, Ranks
      <4> QED
        BY <3>1, <4>1
    <3>2. CASE ds = {"Allow"}
      BY <3>2, Ranks
    <3> QED
      BY <2>6, <3>1, <3>2
  <2>7. ds \cap {"TerminateSession", "Deny", "Quarantine", "RequireApproval", "AllowWithRedaction"} = {}
           => ds \subseteq {"Allow", "AllowWithConstraints"}
    BY DEF Decisions
  <2> QED
    BY <2>1, <2>2, <2>3, <2>4, <2>5, <2>6, <2>7
<1> QED
  BY <1>2 DEF Strictest

(* Once a layer has said Deny nothing the others say permits.              *)
LEMMA DenialStands ==
    ASSUME NEW ds, ds \subseteq Decisions, \E d \in ds : d \in {"Deny", "TerminateSession"}
    PROVE  Strictest(ds) \in {"Deny", "TerminateSession"}
<1>1. /\ Strictest(ds) \in ds
      /\ \A e \in ds : restrictiveness[e] <= restrictiveness[Strictest(ds)]
  BY StrictestIs
<1>2. PICK s : s = Strictest(ds)
  OBVIOUS
<1>3. s \in Decisions /\ (5 <= restrictiveness[s] \/ 6 <= restrictiveness[s])
  BY <1>1, <1>2, Ranks
<1>4. s \in {"Deny", "TerminateSession"}
  BY <1>3, Ranks DEF Decisions
<1> QED
  BY <1>2, <1>4

Proposals == Decisions \cup {None}

(* What a detector proposes is a decision or nothing.                      *)
LEMMA DetectorsPropose ==
    ASSUME NEW a, NEW untrusted, NEW influence, NEW roots, NEW failed, NEW i \in DOMAIN Detectors
    PROVE  run_all(a, untrusted, influence, roots, failed)[i].proposed \in Proposals
<1>1. /\ \A o, x, c : Result(o, x, c, None).proposed \in Proposals
      /\ \A x, c : proposing(completed(x, c), "Deny").proposed = "Deny"
      /\ \A x, c : proposing(completed(x, c), "RequireApproval").proposed = "RequireApproval"
      /\ "Deny" \in Proposals /\ "RequireApproval" \in Proposals
  BY DEF Result, completed, proposing, permits_execution, Proposals, Decisions
<1>2. /\ clean.proposed \in Proposals /\ skipped.proposed \in Proposals
      /\ degraded("TimedOut").proposed \in Proposals
      /\ \A x, c : completed(x, c).proposed \in Proposals
  BY <1>1 DEF clean, skipped, degraded, completed
<1>3. InjectionDetector(untrusted, a.strings, influence).proposed \in Proposals
  BY <1>1, <1>2 DEF InjectionDetector
<1>4. DlpDetector(a).proposed \in Proposals
  BY <1>1, <1>2 DEF DlpDetector
<1>5. NetworkDetector(a).proposed \in Proposals
  BY <1>1, <1>2 DEF NetworkDetector
<1>6. CommandSafetyDetector(a, roots).proposed \in Proposals
  BY <1>1, <1>2 DEF CommandSafetyDetector
<1>7. Detectors[i] \in {"injection", "dlp", "network", "command"}
  BY DEF Detectors
<1>8. run_one(Detectors[i], a, untrusted, influence, roots, failed).proposed \in Proposals
  BY <1>2, <1>3, <1>4, <1>5, <1>6, <1>7 DEF run_one
<1> QED
  BY <1>8 DEF run_all

(* A decision permits only where the budget did.                           *)
LEMMA PermitsWithinBudget ==
    ASSUME NEW k, k.budget \in {"Allow", "Deny"}, NEW p, p.decision \in Decisions,
           NEW detected, \A i \in DOMAIN detected : detected[i].proposed \in Proposals,
           permits_execution(final_decision(k, p, detected))
    PROVE  k.budget = "Allow"
<1>1. remit_of(k) \in Decisions
  BY DEF remit_of, remit_decision, Decisions
<1> DEFINE layers == {p.decision, remit_of(k), k.budget}
           proposed == {detected[i].proposed : i \in DOMAIN detected} \ {None}
<1>2. proposed \subseteq Decisions
  BY DEF Proposals
<1>3. PICK review \in {{}, {"RequireApproval"}} :
         LET d == Strictest({deterministic(k, p)} \cup proposed \cup review)
         IN  final_decision(k, p, detected) =
                IF k.approval # 0 /\ d = "RequireApproval" THEN "AllowWithConstraints" ELSE d
  BY DEF final_decision
<1> HIDE DEF proposed
<1>4. CASE k.budget = "Deny"
  <2>1. deterministic(k, p) \in {"Deny", "TerminateSession"}
    <3>1. layers \subseteq Decisions /\ \E d \in layers : d \in {"Deny", "TerminateSession"}
      BY <1>1, <1>4 DEF Decisions
    <3> QED
      BY <3>1, DenialStands DEF deterministic
  <2> DEFINE all == {deterministic(k, p)} \cup proposed \cup review
  <2>2. all \subseteq Decisions /\ \E d \in all : d \in {"Deny", "TerminateSession"}
    BY <1>2, <2>1 DEF Decisions
  <2>3. Strictest(all) \in {"Deny", "TerminateSession"}
    BY <2>2, DenialStands
  <2> QED
    BY <1>3, <2>3 DEF permits_execution
<1> QED
  BY <1>4

LEMMA OutcomesWithinBudget ==
    ASSUME NEW k, k.budget \in {"Allow", "Deny"}, NEW o \in outcomes(k),
           permits_execution(o.decision)
    PROVE  k.budget = "Allow"
<1> DEFINE answers == {policy_evaluate(Rules, "Deny", PolicyRequest(k)), FailClosed}
           gated(p) == /\ Config.skip_detectors_on_deterministic_deny
                       /\ deterministic(k, p) = "Deny"
<1>0. PICK p \in answers, f \in DetectorFaults :
         LET x == <<p, IF gated(p) THEN <<>> ELSE detection(k, f)>>
         IN  o = [decision |-> final_decision(k, x[1], x[2]), approvers |-> x[1].approvers,
                  constraints |-> x[1].constraints]
  BY DEF outcomes
<1>1. PICK detected \in {<<>>, detection(k, f)} : o.decision = final_decision(k, p, detected)
  BY <1>0
<1>2. p.decision \in Decisions
  <2> DEFINE matched == {x \in Rules : ~x.audit_only /\ matches(x, PolicyRequest(k))}
             effects == {x.effect : x \in matched}
  <2>1. effects \subseteq Decisions
    BY CoreAssumption
  <2>2. policy_evaluate(Rules, "Deny", PolicyRequest(k)).decision
           = IF matched = {} THEN "Deny" ELSE Strictest(effects)
    BY DEF policy_evaluate
  <2>3. matched # {} => effects # {}
    OBVIOUS
  <2> HIDE DEF matched, effects
  <2>4. policy_evaluate(Rules, "Deny", PolicyRequest(k)).decision \in Decisions
    BY <2>1, <2>2, <2>3, StrictestIs DEF Decisions
  <2>5. FailClosed.decision \in Decisions
    BY DEF FailClosed, Decisions
  <2> QED
    BY <2>4, <2>5
<1>3. \A i \in DOMAIN detected : detected[i].proposed \in Proposals
  <2>1. DOMAIN <<>> = {}
    OBVIOUS
  <2>2. DOMAIN detection(k, f) = DOMAIN Detectors
    BY DEF detection, run_all
  <2>3. \A i \in DOMAIN detection(k, f) : detection(k, f)[i].proposed \in Proposals
    BY <2>2, DetectorsPropose DEF detection
  <2> QED
    BY <1>1, <2>1, <2>3
<1> HIDE DEF answers
<1> QED
  BY <1>1, <1>2, <1>3, PermitsWithinBudget

Limit(key, kind) == limits_of(key[2]).max_calls[kind]

LEMMA LimitIsNat == \A agent : \A kind \in CallKinds : limits_of(agent).max_calls[kind] \in Nat
<1> SUFFICES ASSUME NEW agent, NEW kind \in CallKinds PROVE limits_of(agent).max_calls[kind] \in Nat
  OBVIOUS
<1>1. DefaultLimits.max_calls[kind] \in Nat
  BY DEF DefaultLimits, CallKinds
<1> QED
  BY <1>1, CoreAssumption DEF limits_of

(* A task the budget check let through and that has not been charged yet.  *)
Charging(k)       == k.pc = "issue" \/ (k.pc = "evaluate" /\ k.budget = "Allow")
Charges(k, key)   == Charging(k) /\ SessionKey(k.req) = key
Chargers(ts, key) == {t \in Tasks : Charges(ts[t], key)}

(* Such a task was let through by a limit that allows a call at all.       *)
Passed(k, kind) ==
    /\ k.pc = "evaluate" => "budget" \in DOMAIN k /\ k.budget \in {"Allow", "Deny"}
    /\ Charging(k) => limits_of(k.req.agent).max_calls[kind] >= 1

Counted(st, kind) ==
    /\ "budget" \in DOMAIN st /\ "calls" \in DOMAIN st.budget
    /\ DOMAIN st.budget.calls = CallKinds /\ st.budget.calls[kind] \in Nat

Fits(ts, st, key, kind) ==
    /\ Counted(st, kind)
    /\ st.budget.calls[kind] + Cardinality(Chargers(ts, key))
          <= Limit(key, kind) + Cardinality(Tasks) - 1

Budgets(ts, ss, kind) ==
    /\ \A t \in Tasks : Passed(ts[t], kind)
    /\ \A key \in DOMAIN ss : Fits(ts, ss[key], key, kind)

LEMMA ChargerCount ==
    ASSUME NEW ts, NEW key
    PROVE  /\ IsFiniteSet(Chargers(ts, key)) /\ Cardinality(Chargers(ts, key)) \in Nat
           /\ Cardinality(Chargers(ts, key)) <= Cardinality(Tasks)
           /\ Cardinality(Tasks) \in Nat /\ Cardinality(Tasks) >= 1
<1>1. Chargers(ts, key) \subseteq Tasks
  BY DEF Chargers
<1>2. IsFiniteSet(Tasks) /\ Tasks # {}
  BY CoreAssumption
<1>3. Cardinality(Tasks) \in Nat /\ Cardinality(Tasks) # 0
  BY <1>2, FS_CardinalityType, FS_EmptySet
<1>4. IsFiniteSet(Chargers(ts, key)) /\ Cardinality(Chargers(ts, key)) <= Cardinality(Tasks)
  BY <1>1, <1>2, FS_Subset
<1>5. Cardinality(Chargers(ts, key)) \in Nat
  BY <1>4, FS_CardinalityType
<1> QED
  BY <1>3, <1>4, <1>5

(* A session that has spent nothing fits, whoever is about to charge it.   *)
LEMMA FreshFits ==
    ASSUME NEW kind \in CallKinds, NEW ts, \A t \in Tasks : Passed(ts[t], kind),
           NEW st, Counted(st, kind), st.budget.calls[kind] = 0, NEW key
    PROVE  Fits(ts, st, key, kind)
<1> DEFINE n == Cardinality(Chargers(ts, key))
           m == Cardinality(Tasks)
           limit == Limit(key, kind)
<1>1. n \in Nat /\ n <= m /\ m \in Nat /\ m >= 1 /\ limit \in Nat
  BY ChargerCount, LimitIsNat DEF Limit
<1>2. Chargers(ts, key) = {} \/ limit >= 1
  <2>1. ASSUME NEW t \in Chargers(ts, key) PROVE limit >= 1
    <3>1. Passed(ts[t], kind) /\ Charging(ts[t]) /\ SessionKey(ts[t].req) = key
      BY <2>1 DEF Chargers, Charges
    <3>2. key[2] = ts[t].req.agent
      BY <3>1 DEF SessionKey
    <3> QED
      BY <3>1, <3>2 DEF Passed, Limit
  <2> QED
    BY <2>1
<1>3. n = 0 \/ limit >= 1
  BY <1>2, FS_EmptySet
<1> HIDE DEF n, m, limit
<1>4. 0 + n <= limit + m - 1
  BY <1>1, <1>3
<1> QED
  BY <1>4 DEF n, m, limit, Fits

(* Nobody new is let through and no session is charged: each has what it   *)
(* had or nothing.                                                         *)
Carried(ss, st, key, kind) ==
    /\ Counted(st, kind)
    /\ \/ st.budget.calls[kind] = 0
       \/ key \in DOMAIN ss /\ st.budget.calls[kind] = ss[key].budget.calls[kind]

Stands(k, later, kind) ==
    Passed(later, kind) /\ (Charging(later) => Charging(k) /\ k.req = later.req)

LEMMA BudgetsStand ==
    ASSUME NEW kind \in CallKinds, NEW ts, NEW ss, Budgets(ts, ss, kind), NEW ts2, NEW ss2,
           \A t \in Tasks : Stands(ts[t], ts2[t], kind),
           \A key \in DOMAIN ss2 : Carried(ss, ss2[key], key, kind)
    PROVE  Budgets(ts2, ss2, kind)
<1>1. \A t \in Tasks : Passed(ts2[t], kind)
  BY DEF Stands
<1>2. ASSUME NEW key \in DOMAIN ss2 PROVE Fits(ts2, ss2[key], key, kind)
  <2>1. CASE ss2[key].budget.calls[kind] = 0
    BY <1>1, <2>1, FreshFits DEF Carried
  <2>2. CASE key \in DOMAIN ss /\ ss2[key].budget.calls[kind] = ss[key].budget.calls[kind]
    <3> DEFINE n == Cardinality(Chargers(ts, key))
               n2 == Cardinality(Chargers(ts2, key))
               m == Cardinality(Tasks)
               limit == Limit(key, kind)
               c == ss[key].budget.calls[kind]
    <3>1. Chargers(ts2, key) \subseteq Chargers(ts, key)
      BY DEF Chargers, Charges, Stands
    <3>2. n \in Nat /\ n2 \in Nat /\ n2 <= n
      BY <3>1, ChargerCount, FS_Subset
    <3>3. m \in Nat /\ limit \in Nat
      BY ChargerCount, LimitIsNat DEF Limit
    <3>4. c \in Nat /\ c + n <= limit + m - 1
      BY <2>2 DEF Budgets, Fits, Counted
    <3>5. Counted(ss2[key], kind) /\ ss2[key].budget.calls[kind] = c
      BY <2>2 DEF Carried
    <3> HIDE DEF n, n2, m, limit, c
    <3>6. c + n2 <= limit + m - 1
      BY <3>2, <3>3, <3>4
    <3> QED
      BY <3>5, <3>6 DEF n2, m, limit, Fits
  <2> QED
    BY <2>1, <2>2 DEF Carried
<1> QED
  BY <1>1, <1>2 DEF Budgets

BudgetInv(kind) == Budgets(tasks, sessions, kind)

LEMMA StateCounted ==
    ASSUME NEW kind \in CallKinds, BudgetInv(kind), NEW key, NEW now
    PROVE  Carried(sessions, state_of(key, now), key, kind)
<1>1. CASE key \in DOMAIN sessions
  BY <1>1 DEF BudgetInv, Budgets, Fits, Carried, state_of
<1>2. CASE key \notin DOMAIN sessions
  <2>1. state_of(key, now) = NewSession(now)
    BY <1>2 DEF state_of
  <2>2. Counted(NewSession(now), kind) /\ NewSession(now).budget.calls[kind] = 0
    BY DEF NewSession, Counted, CallKinds
  <2> QED
    BY <2>1, <2>2 DEF Carried
<1> QED
  BY <1>1, <1>2

LEMMA SessionsCarried ==
    ASSUME NEW kind \in CallKinds, BudgetInv(kind), NEW key,
           NEW st, Carried(sessions, st, key, kind), sessions' = with_session(key, st)
    PROVE  \A x \in DOMAIN sessions' : Carried(sessions, sessions'[x], x, kind)
<1>1. \A x \in DOMAIN sessions : Carried(sessions, sessions[x], x, kind)
  BY DEF BudgetInv, Budgets, Fits, Carried
<1>2. DOMAIN sessions' = DOMAIN sessions \cup {key}
  BY DEF with_session
<1>3. \A x \in DOMAIN sessions' : sessions'[x] = IF x = key THEN st ELSE sessions[x]
  BY DEF with_session
<1> QED
  BY <1>1, <1>2, <1>3

LEMMA FewerCarried ==
    ASSUME NEW kind \in CallKinds, BudgetInv(kind), DOMAIN sessions' \subseteq DOMAIN sessions,
           \A x \in DOMAIN sessions' : sessions'[x] = sessions[x]
    PROVE  \A x \in DOMAIN sessions' : Carried(sessions, sessions'[x], x, kind)
  BY DEF BudgetInv, Budgets, Fits, Carried

LEMMA TaskStands ==
    ASSUME NEW kind \in CallKinds, CoreInv, BudgetInv(kind), NEW t \in Tasks,
           NEW k, tasks' = [tasks EXCEPT ![t] = k], Stands(tasks[t], k, kind)
    PROVE  \A u \in Tasks : Stands(tasks[u], tasks'[u], kind)
<1>1. tasks = [u \in Tasks |-> tasks[u]]
  BY DEF CoreInv, Tasking
<1>2. \A u \in Tasks : tasks'[u] = IF u = t THEN k ELSE tasks[u]
  BY <1>1
<1>3. \A u \in Tasks : Stands(tasks[u], tasks[u], kind)
  BY DEF BudgetInv, Budgets, Stands
<1> QED
  BY <1>2, <1>3

LEMMA BudgetStands ==
    ASSUME NEW kind \in CallKinds, BudgetInv(kind),
           \A u \in Tasks : Stands(tasks[u], tasks'[u], kind),
           \A x \in DOMAIN sessions' : Carried(sessions, sessions'[x], x, kind)
    PROVE  BudgetInv(kind)'
<1>1. Budgets(tasks', sessions', kind)
  BY BudgetsStand DEF BudgetInv
<1> QED
  BY <1>1 DEF BudgetInv

(* A task somewhere else charges nothing.                                  *)
LEMMA ElsewhereStands ==
    ASSUME NEW kind \in CallKinds, NEW k, NEW later, later.pc \notin {"issue", "evaluate"}
    PROVE  Stands(k, later, kind)
  BY DEF Stands, Passed, Charging

LEMMA ReceiveBudgets ==
    ASSUME NEW kind \in CallKinds, CoreInv, BudgetInv(kind), NEW t \in Tasks, Receive(t)
    PROVE  BudgetInv(kind)'
<1>1. PICK r \in Requests, g \in grants \cup {NoGrant} :
         /\ sessions' = with_session(SessionKey(r), state_of(SessionKey(r), clock))
         /\ tasks' = [tasks EXCEPT ![t] =
                   IF state_of(SessionKey(r), clock).terminated
                   THEN [pc |-> "audit", req |-> r, decision |-> "TerminateSession", token |-> 0]
                   ELSE [pc |-> "analyze", req |-> r, grant |-> g, started |-> clock,
                         distinct_denials |-> Cardinality(state_of(SessionKey(r), clock).denied),
                         retry |-> action_hash(r) \in state_of(SessionKey(r), clock).denied]]
  BY DEF Receive
<1>2. PICK k : tasks' = [tasks EXCEPT ![t] = k] /\ k.pc \in {"audit", "analyze"}
  <2>1. PICK over, began, denials, again :
           tasks' = [tasks EXCEPT ![t] =
                   IF over
                   THEN [pc |-> "audit", req |-> r, decision |-> "TerminateSession", token |-> 0]
                   ELSE [pc |-> "analyze", req |-> r, grant |-> g, started |-> began,
                         distinct_denials |-> denials, retry |-> again]]
    BY <1>1
  <2> DEFINE k == IF over
                  THEN [pc |-> "audit", req |-> r, decision |-> "TerminateSession", token |-> 0]
                  ELSE [pc |-> "analyze", req |-> r, grant |-> g, started |-> began,
                        distinct_denials |-> denials, retry |-> again]
  <2>2. k.pc \in {"audit", "analyze"}
    OBVIOUS
  <2> QED
    BY <2>1, <2>2
<1>3. Stands(tasks[t], k, kind)
  BY <1>2, ElsewhereStands
<1>4. \A u \in Tasks : Stands(tasks[u], tasks'[u], kind)
  BY <1>2, <1>3, TaskStands
<1>5. \A x \in DOMAIN sessions' : Carried(sessions, sessions'[x], x, kind)
  BY <1>1, StateCounted, SessionsCarried
<1> QED
  BY <1>4, <1>5, BudgetStands

LEMMA AnalyzeBudgets ==
    ASSUME NEW kind \in CallKinds, CoreInv, BudgetInv(kind), NEW t \in Tasks, Analyze(t)
    PROVE  BudgetInv(kind)'
<1>1. /\ {"pc", "req", "grant"} \subseteq DOMAIN tasks[t]
      /\ tasks = [u \in Tasks |-> tasks[u]]
  BY DEF CoreInv, Tasking, TaskHolds, Analyze
<1>2. PICK k : tasks' = [tasks EXCEPT ![t] = k] /\ k.pc = "budget"
  <2> DEFINE v == analyze_action(state_of(SessionKey(tasks[t].req), tasks[t].started).trace,
                                 tasks[t].req.declared, ActionOf[tasks[t].req.action])
             k == [x \in DOMAIN tasks[t] \cup {"trace"} |->
                     CASE x = "pc" -> "budget" [] x = "trace" -> v [] OTHER -> tasks[t][x]]
  <2>1. tasks' = [tasks EXCEPT ![t] = k]
    BY <1>1 DEF Analyze
  <2> HIDE DEF v
  <2>2. k.pc = "budget"
    BY <1>1
  <2> QED
    BY <2>1, <2>2
<1>3. Stands(tasks[t], k, kind)
  BY <1>2, ElsewhereStands
<1>4. \A u \in Tasks : Stands(tasks[u], tasks'[u], kind)
  BY <1>2, <1>3, TaskStands
<1>5. \A x \in DOMAIN sessions' : Carried(sessions, sessions'[x], x, kind)
  BY StateCounted, SessionsCarried DEF Analyze
<1> QED
  BY <1>4, <1>5, BudgetStands

LEMMA RaiseBudgets ==
    ASSUME NEW kind \in CallKinds, CoreInv, BudgetInv(kind), NEW t \in Tasks, RaiseApproval(t)
    PROVE  BudgetInv(kind)'
<1>0. {"pc", "req"} \subseteq DOMAIN tasks[t]
  BY DEF CoreInv, Tasking, TaskHolds, RaiseApproval
<1>1. PICK k : tasks' = [tasks EXCEPT ![t] = k] /\ k.pc \in {"idle", "record"}
  <2> DEFINE k == [tasks[t] EXCEPT !.pc = "record"]
  <2>1. k.pc = "record"
    BY <1>0
  <2>2. tasks' = [tasks EXCEPT ![t] = Idle] \/ tasks' = [tasks EXCEPT ![t].pc = "record"]
    BY DEF RaiseApproval
  <2>3. [tasks EXCEPT ![t].pc = "record"] = [tasks EXCEPT ![t] = k]
    BY DEF CoreInv, Tasking
  <2> HIDE DEF k
  <2> QED
    BY <2>1, <2>2, <2>3 DEF Idle
<1>2. Stands(tasks[t], k, kind)
  BY <1>1, ElsewhereStands
<1>3. \A u \in Tasks : Stands(tasks[u], tasks'[u], kind)
  BY <1>1, <1>2, TaskStands
<1>4. sessions' = sessions
  BY DEF RaiseApproval
<1> QED
  BY <1>3, <1>4, FewerCarried, BudgetStands

LEMMA RecordBudgets ==
    ASSUME NEW kind \in CallKinds, CoreInv, BudgetInv(kind), NEW t \in Tasks, Record(t)
    PROVE  BudgetInv(kind)'
<1>1. PICK k : tasks' = [tasks EXCEPT ![t] = k] /\ k.pc = "audit"
  <2> DEFINE k == [pc |-> "audit", req |-> tasks[t].req, decision |-> tasks[t].decision,
                   token |-> tasks[t].token]
  <2>1. tasks' = [tasks EXCEPT ![t] = k] /\ k.pc = "audit"
    BY DEF Record, CoreInv, Tasking
  <2> QED
    BY <2>1
<1>2. Stands(tasks[t], k, kind)
  BY <1>1, ElsewhereStands
<1>3. \A u \in Tasks : Stands(tasks[u], tasks'[u], kind)
  BY <1>1, <1>2, TaskStands
<1> DEFINE key == SessionKey(tasks[t].req)
<1>4. PICK st : st = state_of(key, tasks[t].started)
  OBVIOUS
<1>5. PICK d, h : sessions' = with_session(key, record(st, h, d))
  BY <1>4 DEF Record
<1>6. Carried(sessions, st, key, kind)
  BY <1>4, StateCounted
<1>7. record(st, h, d).budget = st.budget /\ (Counted(st, kind) => Counted(record(st, h, d), kind))
  BY DEF record, Counted
<1>8. Carried(sessions, record(st, h, d), key, kind)
  BY <1>6, <1>7 DEF Carried
<1>9. \A x \in DOMAIN sessions' : Carried(sessions, sessions'[x], x, kind)
  BY <1>5, <1>8, SessionsCarried
<1> QED
  BY <1>3, <1>9, BudgetStands

LEMMA RecordDecisionBudgets ==
    ASSUME NEW kind \in CallKinds, CoreInv, BudgetInv(kind), NEW t \in Tasks, RecordDecision(t)
    PROVE  BudgetInv(kind)'
<1>1. tasks' = [tasks EXCEPT ![t] = Idle] /\ sessions' = sessions
  BY DEF RecordDecision
<1>2. Stands(tasks[t], Idle, kind)
  BY ElsewhereStands DEF Idle
<1> QED
  BY <1>1, <1>2, TaskStands, FewerCarried, BudgetStands

(* The check: whoever it lets through found a call to spare, so even with  *)
(* every task about to charge the session the bound holds.                 *)
LEMMA CheckBudgets ==
    ASSUME NEW kind \in CallKinds, CoreInv, BudgetInv(kind), NEW t \in Tasks, CheckBudget(t)
    PROVE  BudgetInv(kind)'
<1>1. /\ {"pc", "req", "grant"} \subseteq DOMAIN tasks[t]
      /\ tasks = [u \in Tasks |-> tasks[u]]
  BY DEF CoreInv, Tasking, TaskHolds, CheckBudget
<1>2. PICK r, key, began, st :
         r = tasks[t].req /\ key = SessionKey(r) /\ began = tasks[t].started /\ st = state_of(key, began)
  OBVIOUS
<1>3. PICK v \in {"Allow", "Deny"} :
         /\ v = "Allow" => budget_permits(st.budget, limits_of(r.agent), ActionOf[r.action], began)
         /\ tasks' = [tasks EXCEPT ![t] = [x \in DOMAIN @ \cup {"budget"} |->
                 CASE x = "pc" -> "evaluate" [] x = "budget" -> v [] OTHER -> @[x]]]
  BY <1>2 DEF CheckBudget
<1> DEFINE k == [x \in DOMAIN tasks[t] \cup {"budget"} |->
                   CASE x = "pc" -> "evaluate" [] x = "budget" -> v [] OTHER -> tasks[t][x]]
<1>4. /\ tasks' = [tasks EXCEPT ![t] = k]
      /\ k.pc = "evaluate" /\ k.budget = v /\ k.req = r /\ "budget" \in DOMAIN k
  BY <1>1, <1>2, <1>3
<1> HIDE DEF k
<1>5. Carried(sessions, st, key, kind) /\ sessions' = with_session(key, st)
  BY <1>2, StateCounted DEF CheckBudget
<1>6. \A x \in DOMAIN sessions' : Carried(sessions, sessions'[x], x, kind)
  BY <1>5, SessionsCarried
<1>7. CASE v = "Deny"
  <2>1. Stands(tasks[t], k, kind)
    BY <1>4, <1>7 DEF Stands, Passed, Charging
  <2> QED
    BY <1>4, <1>6, <2>1, TaskStands, BudgetStands
<1>8. CASE v = "Allow"
  <2>1. Counted(st, kind) /\ limits_of(r.agent).max_calls[kind] \in Nat
    BY <1>5, LimitIsNat DEF Carried
  <2>2. st.budget.calls[kind] < limits_of(r.agent).max_calls[kind]
    BY <1>3, <1>8 DEF budget_permits
  <2>3. Passed(k, kind)
    <3>1. limits_of(r.agent).max_calls[kind] >= 1
      BY <2>1, <2>2 DEF Counted
    <3> QED
      BY <1>4, <1>8, <3>1 DEF Passed
  <2>4. \A u \in Tasks : tasks'[u] = IF u = t THEN k ELSE tasks[u]
    BY <1>1, <1>4
  <2>5. \A u \in Tasks : Passed(tasks'[u], kind)
    BY <2>3, <2>4 DEF BudgetInv, Budgets
  <2>6. ASSUME NEW x \in DOMAIN sessions' PROVE Fits(tasks', sessions'[x], x, kind)
    <3>1. CASE x = key
      <4> DEFINE c == st.budget.calls[kind]
                 n == Cardinality(Chargers(tasks', x))
                 m == Cardinality(Tasks)
                 limit == Limit(x, kind)
      <4>1. n \in Nat /\ n <= m /\ m \in Nat /\ limit \in Nat
        BY ChargerCount, LimitIsNat DEF Limit
      <4>2. key[2] = r.agent
        BY <1>2 DEF SessionKey
      <4>3. c \in Nat /\ c < limit
        BY <2>1, <2>2, <3>1, <4>2 DEF Counted, Limit
      <4>4. sessions'[x] = st
        BY <1>5, <3>1 DEF with_session
      <4> HIDE DEF c, n, m, limit
      <4>5. c + n <= limit + m - 1
        BY <4>1, <4>3
      <4> QED
        BY <2>1, <4>4, <4>5 DEF c, n, m, limit, Fits
    <3>2. CASE x # key
      <4>1. x \in DOMAIN sessions /\ sessions'[x] = sessions[x]
        BY <1>5, <3>2 DEF with_session
      <4>2. ASSUME NEW u \in Tasks PROVE Charges(tasks'[u], x) <=> Charges(tasks[u], x)
        <5>1. CASE u = t
          <6>1. SessionKey(tasks[u].req) = key /\ SessionKey(tasks'[u].req) = key
            BY <1>2, <1>4, <2>4, <5>1
          <6> QED
            BY <3>2, <6>1 DEF Charges
        <5>2. CASE u # t
          BY <2>4, <5>2
        <5> QED
          BY <5>1, <5>2
      <4>3. Chargers(tasks', x) = Chargers(tasks, x)
        BY <4>2 DEF Chargers
      <4> QED
        BY <4>1, <4>3 DEF BudgetInv, Budgets, Fits
    <3> QED
      BY <3>1, <3>2
  <2>7. Budgets(tasks', sessions', kind)
    BY <2>5, <2>6 DEF Budgets
  <2> QED
    BY <2>7 DEF BudgetInv
<1> QED
  BY <1>7, <1>8

(* The decision lets on only a task the check let through.                 *)
LEMMA EvaluateBudgets ==
    ASSUME NEW kind \in CallKinds, CoreInv, BudgetInv(kind), NEW t \in Tasks, Evaluate(t)
    PROVE  BudgetInv(kind)'
<1>1. /\ {"pc", "req", "grant", "budget"} \subseteq DOMAIN tasks[t]
      /\ tasks[t].budget \in {"Allow", "Deny"} /\ tasks[t].pc = "evaluate"
      /\ tasks = [u \in Tasks |-> tasks[u]]
  BY DEF CoreInv, Tasking, TaskHolds, Evaluate, BudgetInv, Budgets, Passed
<1> DEFINE g == tasks[t].grant
           ok == verifies(g, tasks[t].req)
           K == [x \in DOMAIN tasks[t] \cup {"approval"} |->
                    IF x = "approval" THEN (IF ok THEN g.id ELSE 0) ELSE tasks[t][x]]
<1>2. K.req = tasks[t].req /\ K.budget = tasks[t].budget
  BY <1>1
<1>3. PICK o \in outcomes(K) :
                tasks' = [tasks EXCEPT ![t] =
                    [pc |-> IF permits_execution(o.decision) THEN "issue"
                            ELSE IF o.decision = "RequireApproval" THEN "raise" ELSE "record",
                     req |-> K.req, started |-> K.started, approval |-> K.approval,
                     decision |-> o.decision, token |-> 0,
                     approvers |-> o.approvers, constraints |-> o.constraints]]
  BY DEF Evaluate
<1> HIDE DEF K
<1> DEFINE place == IF permits_execution(o.decision) THEN "issue"
                    ELSE IF o.decision = "RequireApproval" THEN "raise" ELSE "record"
<1>4. PICK k : /\ tasks' = [tasks EXCEPT ![t] = k]
               /\ k.pc = place /\ k.req = tasks[t].req
  <2> DEFINE k == [pc |-> place, req |-> K.req, started |-> K.started, approval |-> K.approval,
                   decision |-> o.decision, token |-> 0,
                   approvers |-> o.approvers, constraints |-> o.constraints]
  <2>1. tasks' = [tasks EXCEPT ![t] = k]
    BY <1>3
  <2>2. k.pc = place /\ k.req = K.req
    OBVIOUS
  <2> HIDE DEF k, place
  <2> QED
    BY <1>2, <2>1, <2>2
<1>5. permits_execution(o.decision) => tasks[t].budget = "Allow"
  BY <1>1, <1>2, OutcomesWithinBudget
<1>6. Stands(tasks[t], k, kind)
  <2>1. CASE permits_execution(o.decision)
    <3>1. Charging(tasks[t]) /\ Passed(tasks[t], kind)
      BY <1>1, <1>5, <2>1 DEF BudgetInv, Budgets, Charging
    <3>2. k.pc = "issue"
      BY <1>4, <2>1
    <3> QED
      BY <1>4, <3>1, <3>2 DEF Stands, Passed
  <2>2. CASE ~permits_execution(o.decision)
    <3>1. k.pc \notin {"issue", "evaluate"}
      BY <1>4, <2>2
    <3> QED
      BY <3>1, ElsewhereStands
  <2> QED
    BY <2>1, <2>2
<1>7. sessions' = sessions
  BY DEF Evaluate
<1> QED
  BY <1>4, <1>6, <1>7, TaskStands, FewerCarried, BudgetStands

(* The charge: one more call and one task less that is about to.           *)
LEMMA ChargedOnce ==
    ASSUME NEW kind \in CallKinds, NEW st, Counted(st, kind), NEW a,
           NEW later, later = [st EXCEPT !.budget = charge(@, a)]
    PROVE  /\ Counted(later, kind)
           /\ later.budget.calls[kind] \in {st.budget.calls[kind], st.budget.calls[kind] + 1}
<1>1. later.budget = charge(st.budget, a) /\ "budget" \in DOMAIN later
  BY DEF Counted
<1>2. PICK x : x = counted_as(a)
  OBVIOUS
<1>3. /\ "calls" \in DOMAIN charge(st.budget, a)
      /\ charge(st.budget, a).calls = [st.budget.calls EXCEPT ![x] = @ + 1]
  BY <1>2 DEF charge, Counted
<1>4. PICK old, new : old = st.budget.calls /\ new = [old EXCEPT ![x] = @ + 1]
  OBVIOUS
<1>5. DOMAIN old = CallKinds /\ old[kind] \in Nat
  BY <1>4 DEF Counted
<1>6. DOMAIN new = CallKinds /\ new[kind] \in {old[kind], old[kind] + 1}
  BY <1>4, <1>5
<1>7. later.budget.calls = new /\ "calls" \in DOMAIN later.budget
  BY <1>1, <1>3, <1>4
<1> QED
  BY <1>1, <1>4, <1>5, <1>6, <1>7 DEF Counted

LEMMA IssueBudgets ==
    ASSUME NEW kind \in CallKinds, CoreInv, BudgetInv(kind), NEW t \in Tasks, Issue(t)
    PROVE  BudgetInv(kind)'
<1>1. /\ {"pc", "req", "token"} \subseteq DOMAIN tasks[t] /\ tasks[t].pc = "issue"
      /\ tasks = [u \in Tasks |-> tasks[u]] /\ Passed(tasks[t], kind)
  BY DEF CoreInv, Tasking, TaskHolds, Issue, BudgetInv, Budgets
<1>2. PICK k : tasks' = [tasks EXCEPT ![t] = k] /\ k.pc = "record"
  <2> DEFINE n == Len(tokens) + 1
             k == [[tasks[t] EXCEPT !.pc = "record"] EXCEPT !.token = n]
  <2>1. tasks' = [tasks EXCEPT ![t] = k]
    BY <1>1 DEF Issue
  <2> HIDE DEF n
  <2>2. k.pc = "record"
    BY <1>1
  <2> QED
    BY <2>1, <2>2
<1>3. PICK key, st, later :
         /\ key = SessionKey(tasks[t].req) /\ st = state_of(key, tasks[t].started)
         /\ later = [st EXCEPT !.budget = charge(@, ActionOf[tasks[t].req.action])]
         /\ sessions' = with_session(key, later)
  BY DEF Issue
<1>4. Carried(sessions, st, key, kind)
  BY <1>3, StateCounted
<1>5. Fits(tasks, st, key, kind)
  <2>1. CASE st.budget.calls[kind] = 0
    BY <1>4, <2>1, FreshFits DEF Carried, BudgetInv, Budgets
  <2>2. CASE key \in DOMAIN sessions /\ st.budget.calls[kind] = sessions[key].budget.calls[kind]
    BY <1>4, <2>2 DEF Carried, BudgetInv, Budgets, Fits
  <2> QED
    BY <1>4, <2>1, <2>2 DEF Carried
<1>6. /\ Counted(later, kind)
      /\ later.budget.calls[kind] \in {st.budget.calls[kind], st.budget.calls[kind] + 1}
  <2>1. PICK a : later = [st EXCEPT !.budget = charge(@, a)]
    BY <1>3
  <2>2. Counted(st, kind)
    BY <1>4 DEF Carried
  <2> QED
    BY <2>1, <2>2, ChargedOnce
<1>7. \A u \in Tasks : tasks'[u] = IF u = t THEN k ELSE tasks[u]
  BY <1>1, <1>2
<1>8. \A u \in Tasks : Passed(tasks'[u], kind)
  BY <1>2, <1>7 DEF BudgetInv, Budgets, Passed, Charging
<1>9. ASSUME NEW x \in DOMAIN sessions' PROVE Fits(tasks', sessions'[x], x, kind)
  <2>1. Chargers(tasks', x) = Chargers(tasks, x) \ {t}
    BY <1>2, <1>7 DEF Chargers, Charges, Charging
  <2>2. CASE x = key
    <3> DEFINE c == st.budget.calls[kind]
               n == Cardinality(Chargers(tasks, x))
               n2 == Cardinality(Chargers(tasks', x))
               m == Cardinality(Tasks)
               limit == Limit(x, kind)
    <3>1. t \in Chargers(tasks, x)
      BY <1>1, <1>3, <2>2 DEF Chargers, Charges, Charging
    <3>2. n \in Nat /\ n2 \in Nat /\ n2 = n - 1
      BY <2>1, <3>1, ChargerCount, FS_RemoveElement
    <3>3. m \in Nat /\ limit \in Nat
      BY ChargerCount, LimitIsNat DEF Limit
    <3>4. c \in Nat /\ c + n <= limit + m - 1
      BY <1>5, <2>2 DEF Fits, Counted
    <3>5. sessions'[x] = later
      BY <1>3, <2>2 DEF with_session
    <3>6. Counted(sessions'[x], kind) /\ sessions'[x].budget.calls[kind] \in {c, c + 1}
      BY <1>6, <3>5
    <3> HIDE DEF c, n, n2, m, limit
    <3>7. c + 1 + n2 <= limit + m - 1 /\ c + n2 <= limit + m - 1
      BY <3>2, <3>3, <3>4
    <3> QED
      BY <3>6, <3>7 DEF n2, m, limit, Fits
  <2>3. CASE x # key
    <3>1. x \in DOMAIN sessions /\ sessions'[x] = sessions[x]
      BY <1>3, <2>3 DEF with_session
    <3>2. t \notin Chargers(tasks, x)
      BY <1>3, <2>3 DEF Chargers, Charges
    <3>3. Chargers(tasks', x) = Chargers(tasks, x)
      BY <2>1, <3>2
    <3> QED
      BY <3>1, <3>3 DEF BudgetInv, Budgets, Fits
  <2> QED
    BY <2>2, <2>3
<1>10. Budgets(tasks', sessions', kind)
  BY <1>8, <1>9 DEF Budgets
<1> QED
  BY <1>10 DEF BudgetInv

LEMMA OtherHandlersBudgets ==
    ASSUME NEW kind \in CallKinds, CoreInv, BudgetInv(kind),
           \/ \E key : EndSession(key) \/ \E c \in DOMAIN Contents : Ingest(key, c)
           \/ \E i \in DOMAIN approvals, h \in Approvers : Grant(i, h)
           \/ EvictStaleSessions \/ CoreRestart
    PROVE  BudgetInv(kind)'
<1>1. \A u \in Tasks : Stands(tasks[u], tasks[u], kind)
  BY DEF BudgetInv, Budgets, Stands
<1>2. ASSUME NEW key, EndSession(key) PROVE BudgetInv(kind)'
  <2>1. UNCHANGED tasks /\ DOMAIN sessions' \subseteq DOMAIN sessions
    BY <1>2 DEF EndSession
  <2>2. \A x \in DOMAIN sessions' : sessions'[x] = sessions[x]
    BY <1>2 DEF EndSession
  <2> QED
    BY <1>1, <2>1, <2>2, FewerCarried, BudgetStands
<1>3. ASSUME NEW key, NEW c, Ingest(key, c) PROVE BudgetInv(kind)'
  <2>1. PICK st, trace : /\ st = state_of(key, clock)
                         /\ sessions' = with_session(key, [st EXCEPT !.trace = trace])
    BY <1>3 DEF Ingest
  <2> DEFINE later == [st EXCEPT !.trace = trace]
  <2>2. Carried(sessions, st, key, kind)
    BY <2>1, StateCounted
  <2>3. later.budget = st.budget /\ (Counted(st, kind) => Counted(later, kind))
    BY DEF Counted
  <2>4. Carried(sessions, later, key, kind)
    BY <2>2, <2>3 DEF Carried
  <2> HIDE DEF later
  <2>5. \A x \in DOMAIN sessions' : Carried(sessions, sessions'[x], x, kind)
    BY <2>1, <2>4, SessionsCarried DEF later
  <2>6. UNCHANGED tasks
    BY <1>3 DEF Ingest
  <2> QED
    BY <1>1, <2>5, <2>6, BudgetStands
<1>4. ASSUME NEW i \in DOMAIN approvals, NEW h \in Approvers, Grant(i, h) PROVE BudgetInv(kind)'
  <2>1. UNCHANGED <<sessions, tasks>>
    BY <1>4 DEF Grant
  <2> QED
    BY <2>1 DEF BudgetInv
<1>5. CASE EvictStaleSessions
  <2>1. UNCHANGED tasks /\ DOMAIN sessions' \subseteq DOMAIN sessions
    BY <1>5 DEF EvictStaleSessions
  <2>2. \A x \in DOMAIN sessions' : sessions'[x] = sessions[x]
    BY <1>5 DEF EvictStaleSessions
  <2> QED
    BY <1>1, <2>1, <2>2, FewerCarried, BudgetStands
<1>6. CASE CoreRestart
  <2>1. DOMAIN sessions' = {}
    BY <1>6 DEF CoreRestart
  <2>2. \A u \in Tasks : tasks'[u] = tasks[u] \/ tasks'[u] = Idle
    BY <1>6 DEF CoreRestart
  <2>3. \A u \in Tasks : Stands(tasks[u], Idle, kind)
    BY ElsewhereStands DEF Idle
  <2>4. \A u \in Tasks : Stands(tasks[u], tasks'[u], kind)
    BY <1>1, <2>2, <2>3
  <2> QED
    BY <2>1, <2>4, BudgetStands
<1> QED
  BY <1>2, <1>3, <1>4, <1>5, <1>6

AllBudgets == \A kind \in CallKinds : BudgetInv(kind)

LEMMA NextBudgetInv == CoreInv /\ AllBudgets /\ [Next]_vars => AllBudgets'
<1> SUFFICES ASSUME CoreInv, NEW kind \in CallKinds, BudgetInv(kind), [Next]_vars
             PROVE  BudgetInv(kind)'
  BY DEF AllBudgets
<1>1. CASE CoreStep
  <2>1. ASSUME NEW t \in Tasks, Receive(t) \/ TaskStep(t) PROVE BudgetInv(kind)'
    BY <2>1, ReceiveBudgets, AnalyzeBudgets, CheckBudgets, EvaluateBudgets, IssueBudgets,
       RaiseBudgets, RecordBudgets, RecordDecisionBudgets DEF TaskStep
  <2> QED
    BY <1>1, <2>1, OtherHandlersBudgets DEF CoreStep
<1>2. CASE \/ \E g \in Redeemers : Present(g) \/ Consume(g) \/ Invoke(g)
           \/ GatewayRestart \/ Tick \/ UNCHANGED vars
  <2>1. UNCHANGED <<sessions, tasks>>
    BY <1>2 DEF Present, Consume, Invoke, GatewayRestart, Tick, coreVars, vars
  <2> QED
    BY <2>1 DEF BudgetInv
<1> QED
  BY <1>1, <1>2 DEF Next

LEMMA InitBudgetInv == ServerInit => AllBudgets
<1> SUFFICES ASSUME ServerInit, NEW kind \in CallKinds PROVE BudgetInv(kind)
  BY DEF AllBudgets
<1>1. PICK o \in Opening : sessions = o.sessions
  BY DEF ServerInit, Init
<1>2. \A t \in Tasks : tasks[t] = Idle
  BY DEF ServerInit, Init
<1>3. \A t \in Tasks : ~Charging(tasks[t]) /\ Passed(tasks[t], kind)
  BY <1>2 DEF Idle, Charging, Passed
<1>4. ASSUME NEW key \in DOMAIN sessions PROVE Fits(tasks, sessions[key], key, kind)
  <2> DEFINE c == sessions[key].budget.calls[kind]
             n == Cardinality(Chargers(tasks, key))
             m == Cardinality(Tasks)
             limit == Limit(key, kind)
  <2>1. Chargers(tasks, key) = {}
    BY <1>3 DEF Chargers, Charges
  <2>2. n = 0 /\ m \in Nat /\ m >= 1 /\ limit \in Nat
    BY <2>1, FS_EmptySet, ChargerCount, LimitIsNat DEF Limit
  <2>3. /\ "budget" \in DOMAIN sessions[key] /\ "calls" \in DOMAIN sessions[key].budget
        /\ DOMAIN sessions[key].budget.calls = CallKinds /\ c \in 0..limit
    BY <1>1, CoreAssumption DEF Limit
  <2>4. Counted(sessions[key], kind)
    BY <2>2, <2>3 DEF Counted
  <2> HIDE DEF c, n, m, limit
  <2>5. c + n <= limit + m - 1
    BY <2>2, <2>3
  <2> QED
    BY <2>4, <2>5 DEF c, n, m, limit, Fits
<1> QED
  BY <1>3, <1>4 DEF BudgetInv, Budgets

(* However the tasks interleave, a session's tool calls exceed their limit *)
(* and its model calls theirs by less than the number of tasks, although   *)
(* the pipeline checks the budget in one section of the session lock and   *)
(* charges it in a later one.                                              *)
THEOREM OverrunIsBounded == Spec => []BudgetOverrunBounded
<1>1. CoreInv /\ AllBudgets => BudgetOverrunBounded
  <2> SUFFICES ASSUME AllBudgets, NEW key \in DOMAIN sessions, NEW kind \in CallKinds
               PROVE  sessions[key].budget.calls[kind]
                         <= limits_of(key[2]).max_calls[kind] + Cardinality(Tasks) - 1
    BY DEF BudgetOverrunBounded
  <2> DEFINE c == sessions[key].budget.calls[kind]
             n == Cardinality(Chargers(tasks, key))
             m == Cardinality(Tasks)
             limit == Limit(key, kind)
  <2>1. c \in Nat /\ c + n <= limit + m - 1
    BY DEF AllBudgets, BudgetInv, Budgets, Fits, Counted
  <2>2. n \in Nat /\ m \in Nat /\ limit \in Nat
    BY ChargerCount, LimitIsNat DEF Limit
  <2> HIDE DEF c, n, m, limit
  <2>3. c <= limit + m - 1
    BY <2>1, <2>2
  <2> QED
    BY <2>3 DEF c, m, limit, Limit
<1> QED
  BY <1>1, InitBudgetInv, NextBudgetInv, ServerInvariant, PTL DEF Spec
=============================================================================
