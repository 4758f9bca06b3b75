------------------------- MODULE RetrospectionProofs -------------------------
(***************************************************************************)
(* Proofs about PolicyLadder and Retrospection for every set of questions, *)
(* events and commands and every bound: what the local policy answers      *)
(* while a session is charged, and what the commands that look back at it  *)
(* may put on record.                                                      *)
(*                                                                         *)
(* The argument for the ladder.  The answer is a function of the question, *)
(* the risk and the lease (Answered), the risk never falls, and the        *)
(* function is monotone in both (AnswersAreMonotone): its base decision is *)
(* first loosened by the lease by one rung, then raised to the floor of    *)
(* the risk.  The commands reach the ladder through record_risk_signal     *)
(* only.                                                                   *)
(*                                                                         *)
(* The argument for the record.  A command that has looked up what is on   *)
(* record holds no finding that is (PendingIsNew), as long as it is alone  *)
(* (Alone).  And a claim that VIGIL was bypassed is held or on record only *)
(* with its evidence in the log (ClaimsHaveEvidence), because what the     *)
(* system saw is what a broker executed or what went past the brokers      *)
(* (ObservedIsAccounted), and because the log only grows.                  *)
(***************************************************************************)
EXTENDS Retrospection, TLAPS

-----------------------------------------------------------------------------
(* The ladder's operators.                                                 *)

IsDecision(d) ==
    /\ d = [outcome |-> d.outcome, label |-> d.label, resolved |-> d.resolved,
            risk_after |-> d.risk_after]
    /\ d.outcome \in Outcomes

LEMMA DecisionShape ==
    /\ IsDecision(Allow) /\ IsDecision(Approve)
    /\ \A label, resolved : IsDecision(Deny(label, resolved))
    /\ \A outcome \in Outcomes : \A label, resolved, r :
         IsDecision(Decision(outcome, label, resolved, r))
  BY DEF IsDecision, Decision, Deny, Allow, Approve, Outcomes

(* Every arm of the evaluators gives a decision.                           *)
LEMMA BaseType ==
    ASSUME NEW q PROVE IsDecision(BaseDecision(q))
<1>1. "deny" \in Outcomes /\ "observe" \in Outcomes /\ "require_approval" \in Outcomes
  BY DEF Outcomes
<1>2. ASSUME NEW profile, NEW action PROVE IsDecision(EvaluateGit(profile, action))
  BY DecisionShape DEF EvaluateGit
<1>3. ASSUME NEW profile, NEW action, NEW path
      PROVE  IsDecision(EvaluateBase(profile, action, path))
  BY <1>1, <1>2, DecisionShape DEF EvaluateBase
<1>4. ASSUME NEW profile, NEW exe PROVE IsDecision(EvaluateProcess(profile, exe))
  BY <1>1, DecisionShape DEF EvaluateProcess
<1> QED
  BY <1>3, <1>4 DEF BaseDecision

(* The answer in a session is the base outcome, upgraded and degraded.     *)
LEMMA AnswerOutcome ==
    ASSUME NEW q \in Questions, NEW r, NEW l
    PROVE  EvaluateInContext(q, r, l).outcome
             = DegradeForRisk(q.action, LeaseUpgrade(BaseDecision(q).outcome, l), r)
<1>1. BaseDecision(q) = [outcome |-> BaseDecision(q).outcome, label |-> BaseDecision(q).label,
                         resolved |-> BaseDecision(q).resolved,
                         risk_after |-> BaseDecision(q).risk_after]
  BY BaseType DEF IsDecision
<1> QED
  BY <1>1 DEF EvaluateInContext, ApplySessionState

(* What is protected, by its name or by what it resolves to, is denied     *)
(* before the profile is looked at.                                        *)
ProtectedQuestion(q) ==
    /\ q.kind = "path" /\ q.action \in PathActions
    /\ q.path.named # "none" \/ q.path.target # "none"
    /\ q.path.resolves # "fails" \/ q.path.named # "none"

LEMMA ProtectedIsDenied ==
    ASSUME NEW q \in Questions, ProtectedQuestion(q)
    PROVE  BaseDecision(q).outcome = "deny"
<1>1. q.action \notin AmbientActions
  BY DEF ProtectedQuestion, PathActions, MutationActions, AmbientActions
<1>2. ASSUME NEW label, NEW resolved PROVE Deny(label, resolved).outcome = "deny"
  BY DEF Deny, Decision
<1>3. \E label, resolved : EvaluateBase(q.profile, q.action, q.path) = Deny(label, resolved)
  BY <1>1 DEF ProtectedQuestion, EvaluateBase, ResolvesProtected
<1> QED
  BY <1>2, <1>3 DEF BaseDecision, ProtectedQuestion

(* What the base decision refuses, no lease and no risk brings back.       *)
LEMMA DenialsStand ==
    ASSUME NEW action, NEW r, NEW l
    PROVE  DegradeForRisk(action, LeaseUpgrade("deny", l), r) = "deny"
<1>1. LeaseUpgrade("deny", l) = "deny"
  BY DEF LeaseUpgrade
<1>2. RiskFloor(action, "deny", r) \in {"require_approval", "deny"}
  BY DEF RiskFloor
<1>3. ~(Restrictiveness(RiskFloor(action, "deny", r)) > Restrictiveness("deny"))
  BY <1>2 DEF Restrictiveness
<1> QED
  BY <1>1, <1>3 DEF DegradeForRisk

(* More risk, or the loss of a lease, never loosens an outcome.            *)
LEMMA AnswersAreMonotone ==
    ASSUME NEW action, NEW base \in Outcomes,
           NEW r \in RiskStates, NEW s \in RiskStates, r <= s,
           NEW l \in BOOLEAN, NEW m \in BOOLEAN, m => l
    PROVE  Restrictiveness(DegradeForRisk(action, LeaseUpgrade(base, m), s))
             >= Restrictiveness(DegradeForRisk(action, LeaseUpgrade(base, l), r))
<1> DEFINE D(o, x) == DegradeForRisk(action, o, x)
<1>1. ASSUME NEW o \in Outcomes
      PROVE  Restrictiveness(D(o, s)) >= Restrictiveness(D(o, r))
  <2>1. r \in 0..4 /\ s \in 0..4
    BY DEF RiskStates, Normal, Quarantined
  <2> DEFINE kept == action \in ReadActions
             held == action \in MutationActions
             lost == action \in SecretActions
  <2>0. ~(kept /\ held) /\ ~(kept /\ lost)
    BY DEF ReadActions, MutationActions, SecretActions
  <2>2. CASE o = "observe"
    BY <2>2 DEF DegradeForRisk, Restrictiveness
  <2>3. CASE o = "deny"
    BY <2>3 DEF DegradeForRisk, RiskFloor, Restrictiveness, Normal, Elevated, Restricted, Contained
  <2>4. CASE o = "allow"
    <3>1. ASSUME NEW x \in 0..4
          PROVE  Restrictiveness(D(o, x)) =
                    IF x = 0 THEN 1
                    ELSE IF x = 1 THEN IF held THEN 2 ELSE IF lost THEN 3 ELSE 1
                    ELSE IF x \in {2, 3} THEN IF kept THEN 1 ELSE 3 ELSE 3
      BY <2>4 DEF DegradeForRisk, RiskFloor, Restrictiveness, Normal, Elevated, Restricted, Contained
    <3> HIDE DEF D, kept, held, lost
    <3> QED
      BY <2>0, <2>1, <3>1
  <2>5. CASE o = "require_approval"
    <3>1. ASSUME NEW x \in 0..4
          PROVE  Restrictiveness(D(o, x)) =
                    IF x = 0 THEN 2
                    ELSE IF x = 1 THEN IF ~held /\ lost THEN 3 ELSE 2
                    ELSE IF x \in {2, 3} THEN IF kept THEN 2 ELSE 3 ELSE 3
      BY <2>5 DEF DegradeForRisk, RiskFloor, Restrictiveness, Normal, Elevated, Restricted, Contained
    <3> HIDE DEF D, kept, held, lost
    <3> QED
      BY <2>0, <2>1, <3>1
  <2> QED
    BY <2>2, <2>3, <2>4, <2>5 DEF Outcomes
<1>2. ASSUME NEW x \in RiskStates
      PROVE  Restrictiveness(D("require_approval", x)) >= Restrictiveness(D("allow", x))
  BY DEF DegradeForRisk, RiskFloor, Restrictiveness, Normal, Elevated, Restricted, Contained,
     RiskStates, Quarantined
<1>3. ASSUME NEW o \in Outcomes, NEW x PROVE Restrictiveness(D(o, x)) \in 0..3
  <2>1. D(o, x) \in Outcomes
    BY DEF DegradeForRisk, RiskFloor, Outcomes
  <2> QED
    BY <2>1 DEF Outcomes, Restrictiveness
<1>4. LeaseUpgrade(base, l) \in Outcomes /\ LeaseUpgrade(base, m) \in Outcomes
  BY DEF LeaseUpgrade, Outcomes
<1>5. \/ LeaseUpgrade(base, l) = LeaseUpgrade(base, m)
      \/ LeaseUpgrade(base, l) = "allow" /\ LeaseUpgrade(base, m) = "require_approval"
  BY DEF LeaseUpgrade
<1> HIDE DEF D
<1>6. CASE LeaseUpgrade(base, l) = LeaseUpgrade(base, m)
  BY <1>1, <1>4, <1>6 DEF D
<1>7. CASE LeaseUpgrade(base, l) = "allow" /\ LeaseUpgrade(base, m) = "require_approval"
  <2>1. Restrictiveness(D("require_approval", s)) >= Restrictiveness(D("allow", s))
    BY <1>2
  <2>2. Restrictiveness(D("allow", s)) >= Restrictiveness(D("allow", r))
    BY <1>1 DEF Outcomes
  <2>3. /\ Restrictiveness(D("require_approval", s)) \in Int /\ Restrictiveness(D("allow", s)) \in Int
        /\ Restrictiveness(D("allow", r)) \in Int
    BY <1>3 DEF Outcomes
  <2> QED
    BY <1>7, <2>1, <2>2, <2>3 DEF D
<1> QED
  BY <1>5, <1>6, <1>7

-----------------------------------------------------------------------------
(* The ladder under any step.                                              *)

Answered ==
    /\ question \in Questions
    /\ risk \in RiskStates /\ lease \in BOOLEAN
    /\ decision = EvaluateInContext(question, risk, lease)

LadderMove ==
    \/ \E d, w : RecordRiskSignal(d, w)
    \/ \E target \in RiskStates : EscalateRiskTo(target)
    \/ LeaseChanges
    \/ UNCHANGED vars

LEMMA AggregateType ==
    ASSUME NEW sc PROVE AggregateState(sc) \in RiskStates
  BY DEF AggregateState, RiskStates, Normal, Elevated, Restricted, Contained, Quarantined

LEMMA LadderStep ==
    ASSUME Answered, LadderMove
    PROVE  Answered' /\ question' = question /\ risk' >= risk
<1>1. ASSUME NEW d, NEW w, RecordRiskSignal(d, w)
      PROVE  Answered' /\ question' = question /\ risk' >= risk
  <2>1. AggregateState(scores') \in RiskStates
    BY AggregateType
  <2>2. risk' \in RiskStates /\ risk' >= risk
    BY <1>1, <2>1 DEF RecordRiskSignal, MaxRisk, Answered, RiskStates, Normal, Quarantined
  <2> QED
    BY <1>1, <2>2 DEF RecordRiskSignal, Answered
<1>2. ASSUME NEW target \in RiskStates, EscalateRiskTo(target)
      PROVE  Answered' /\ question' = question /\ risk' >= risk
  BY <1>2 DEF EscalateRiskTo, Answered, RiskStates, Normal, Quarantined
<1>3. CASE LeaseChanges
  BY <1>3 DEF LeaseChanges, Answered, RiskStates, Normal, Quarantined
<1>4. CASE UNCHANGED vars
  BY <1>4 DEF vars, Answered, RiskStates, Normal, Quarantined
<1> QED
  BY <1>1, <1>2, <1>3, <1>4 DEF LadderMove

LEMMA AnswersOnlyTighten ==
    ASSUME Answered, LadderMove, lease' => lease
    PROVE  Restrictiveness(decision'.outcome) >= Restrictiveness(decision.outcome)
<1> DEFINE base == BaseDecision(question).outcome
<1>1. Answered' /\ question' = question /\ risk' >= risk
  BY LadderStep
<1>2. base \in Outcomes
  BY BaseType DEF IsDecision
<1>3. decision.outcome = DegradeForRisk(question.action, LeaseUpgrade(base, lease), risk)
  BY AnswerOutcome DEF Answered
<1>4. decision'.outcome = DegradeForRisk(question.action, LeaseUpgrade(base, lease'), risk')
  <2>1. decision' = EvaluateInContext(question, risk', lease')
    BY <1>1 DEF Answered
  <2> QED
    BY <2>1, AnswerOutcome DEF Answered
<1>5. risk \in RiskStates /\ risk' \in RiskStates /\ risk <= risk' /\ lease \in BOOLEAN
      /\ lease' \in BOOLEAN
  BY <1>1 DEF Answered, RiskStates, Normal, Quarantined
<1> HIDE DEF base
<1> QED
  BY <1>2, <1>3, <1>4, <1>5, AnswersAreMonotone

LEMMA AnsweredInitially == Init => Answered
<1>1. Normal \in RiskStates
  BY DEF RiskStates, Normal, Quarantined
<1> QED
  BY <1>1 DEF Init, Answered

LEMMA ProtectedStaysDenied == Answered => ProtectedIsNeverPermitted
<1> SUFFICES ASSUME Answered, ProtectedQuestion(question) PROVE decision.outcome = "deny"
  BY DEF ProtectedIsNeverPermitted, ProtectedQuestion, PermitsExecution
<1>1. BaseDecision(question).outcome = "deny"
  BY ProtectedIsDenied DEF Answered
<1> QED
  BY <1>1, AnswerOutcome, DenialsStand DEF Answered

(* Whatever looks back at a session reaches its ladder through a signal.   *)
LEMMA RetroMovesLadder ==
    ASSUME [RetroNext]_retrospective PROVE LadderMove
<1>1. CASE Next
  BY <1>1 DEF Next, LadderMove
<1>2. ASSUME NEW w \in Workers, Command(w) PROVE LadderMove
  BY <1>2 DEF Command, Analyze, Reconcile, Begin, LookUp, Record, Charge, OpenIncident, Attach,
     WorkerDies, LadderMove
<1>3. (\E e \in Doings : Act(e)) \/ (\E op \in Bypasses : Bypass(op)) \/ (\E r \in Refusals : OtherRefused(r))
      \/ ClockMoves \/ UNCHANGED retrospective => LadderMove
  BY DEF Act, Bypass, OtherRefused, ClockMoves, retrospective, LadderMove
<1> QED
  BY <1>1, <1>2, <1>3 DEF RetroNext

(* No sequence of signals, escalations, leases, analyses and               *)
(* reconciliations makes a protected object usable or even askable, under  *)
(* any profile (policy.rs evaluate_base).                                  *)
THEOREM ProtectedStaysProtected == RetroSpec => []ProtectedIsNeverPermitted
<1>1. RetroInit => Answered
  BY AnsweredInitially DEF RetroInit
<1>2. Answered /\ [RetroNext]_retrospective => Answered'
  BY LadderStep, RetroMovesLadder
<1> QED
  BY <1>1, <1>2, ProtectedStaysDenied, PTL DEF RetroSpec

(* While no lease appears, no step of the session, of an operator or of a  *)
(* command that looks back makes a later answer to the same question less  *)
(* restrictive (policy.rs degrade_for_risk, risk.rs aggregate_state).      *)
THEOREM AuthorityShrinks == RetroSpec => AuthorityOnlyShrinks
<1>1. RetroInit => Answered
  BY AnsweredInitially DEF RetroInit
<1>2. Answered /\ [RetroNext]_retrospective => Answered'
  BY LadderStep, RetroMovesLadder
<1>3. Answered /\ [RetroNext]_retrospective =>
         [(lease' => lease) => Restrictiveness(decision'.outcome) >= Restrictiveness(decision.outcome)]_vars
  BY AnswersOnlyTighten, RetroMovesLadder
<1> QED
  BY <1>1, <1>2, <1>3, PTL DEF RetroSpec, AuthorityOnlyShrinks

-----------------------------------------------------------------------------
(* The record.  First its shape, and what a command does to it.            *)

IsFinding(f) == f = [label |-> f.label, story |-> f.story]
IsWorker(st) ==
    /\ st = [pc |-> st.pc, todo |-> st.todo, finding |-> st.finding]
    /\ \A f \in st.todo : IsFinding(f)
IsSeq(rows) == \E n \in Nat : rows = [i \in 1..n |-> rows[i]]

Shape ==
    /\ worker = [w \in Workers |-> worker[w]]
    /\ \A w \in Workers : IsWorker(worker[w])
    /\ IsSeq(detections)
    /\ log \in Seq(Events) /\ now \in Nat

SameRows ==
    /\ IsSeq(detections') /\ DOMAIN detections' = DOMAIN detections
    /\ \A i \in DOMAIN detections : /\ detections'[i].label = detections[i].label
                                    /\ detections'[i].story = detections[i].story

(* The evidence that something VIGIL refused was carried out.              *)
Evidence ==
    \E i \in DOMAIN log :
        /\ refused(log[i])
        /\ \/ \E op \in bypassed : op.allowed /\ op.resource = log[i].resource
           \/ \E j \in DOMAIN log : log[j].decision = "EXECUTED" /\ log[j].resource = log[i].resource

Bypassed == "denied_operation_observed"

Started(w) ==
    \E st :
        /\ worker[w] = Idle /\ worker' = [worker EXCEPT ![w] = st] /\ IsWorker(st)
        /\ \/ st.pc = "known" /\ \A f \in st.todo : f.label # Bypassed
           \/ \A f \in st.todo : f \in reconcile
        /\ overlapped' = (overlapped \/ \E v \in Workers : worker[v] # Idle)
        /\ detections' = detections

WentOn(w) ==
    \E st :
        /\ worker[w] # Idle /\ worker' = [worker EXCEPT ![w] = st] /\ IsWorker(st)
        /\ st.todo \subseteq worker[w].todo
        /\ worker[w].pc = "known" => \A f \in st.todo : ~Known(f)
        /\ overlapped' = overlapped
        /\ SameRows

Recorded(w) ==
    \E f \in worker[w].todo :
        /\ worker[w].pc = "record"
        /\ worker' = [worker EXCEPT ![w] = [pc |-> "charge", todo |-> worker[w].todo \ {f},
                                            finding |-> f]]
        /\ detections' = Append(detections, [label |-> f.label, story |-> f.story,
                                             attached |-> FALSE])
        /\ overlapped' = overlapped

LEMMA WorkingShape ==
    ASSUME NEW todo, \A f \in todo : IsFinding(f)
    PROVE  IsWorker(Working(todo)) /\ Working(todo).todo = todo
  BY DEF IsWorker, Working, Idle

(* Each rule of an analysis finds one thing at most, under its own label.  *)
LEMMA AnalysesNameFindings ==
    ASSUME NEW l \in capability_laundering,
           NEW f \in UNION {sensitive_read_then_egress, archive_before_egress, process_fan_out, l}
    PROVE  IsFinding(f) /\ f.label # Bypassed
<1>1. ASSUME NEW label, NEW count, NEW from, NEW to, NEW g \in Found(label, count, from, to)
      PROVE  IsFinding(g) /\ g.label = label
  BY <1>1 DEF Found, IsFinding
<1>2. f \in sensitive_read_then_egress => IsFinding(f) /\ f.label = "sensitive_read_then_egress"
  BY <1>1 DEF sensitive_read_then_egress
<1>3. f \in archive_before_egress => IsFinding(f) /\ f.label = "archive_before_egress"
  BY <1>1 DEF archive_before_egress
<1>4. f \in process_fan_out => IsFinding(f) /\ f.label = "process_fan_out"
  BY <1>1 DEF process_fan_out
<1>5. f \in l => IsFinding(f) /\ f.label = "capability_laundering"
  BY <1>1 DEF capability_laundering
<1> QED
  BY <1>2, <1>3, <1>4, <1>5 DEF Bypassed

LEMMA CommandKinds ==
    ASSUME Shape, NEW w \in Workers, Command(w)
    PROVE  /\ Started(w) \/ WentOn(w) \/ Recorded(w)
           /\ UNCHANGED <<now, log, observed, bypassed>>
<1>0. /\ IsWorker(worker[w]) /\ worker = [v \in Workers |-> worker[v]]
      /\ worker[w] = [pc |-> worker[w].pc, todo |-> worker[w].todo, finding |-> worker[w].finding]
  BY DEF Shape, IsWorker
<1>s. detections' = detections => SameRows
  BY DEF Shape, SameRows
<1>1. CASE Analyze(w)
  <2>1. PICK l \in capability_laundering :
            Begin(w, [pc |-> "known", finding |-> NoFinding,
                      todo |-> UNION {sensitive_read_then_egress, archive_before_egress,
                                      process_fan_out, l}])
    BY <1>1 DEF Analyze
  <2> DEFINE todo == UNION {sensitive_read_then_egress, archive_before_egress, process_fan_out, l}
             st == [pc |-> "known", finding |-> NoFinding, todo |-> todo]
  <2>2. \A f \in todo : IsFinding(f) /\ f.label # Bypassed
    BY AnalysesNameFindings
  <2>3. Begin(w, st)
    BY <2>1
  <2> HIDE DEF todo
  <2>4. st.pc = "known" /\ st.todo = todo /\ IsWorker(st)
    BY <2>2 DEF IsWorker
  <2> HIDE DEF st
  <2> QED
    BY <2>2, <2>3, <2>4 DEF Begin, Started
<1>2. CASE Reconcile(w)
  <2>1. \A f \in reconcile : IsFinding(f)
    BY DEF reconcile, IsFinding
  <2>2. IsWorker(Working(reconcile)) /\ Working(reconcile).todo = reconcile
    BY <2>1, WorkingShape
  <2> QED
    BY <1>2, <2>2 DEF Reconcile, Begin, Started
<1>3. CASE LookUp(w)
  <2> DEFINE todo == {f \in worker[w].todo : ~Known(f)}
  <2>1. IsWorker(Working(todo)) /\ Working(todo).todo = todo
    BY <1>0, WorkingShape DEF IsWorker
  <2>2. worker[w] # Idle
    BY <1>3 DEF LookUp, Idle
  <2> QED
    BY <1>3, <1>s, <2>1, <2>2 DEF LookUp, WentOn
<1>4. CASE Record(w)
  BY <1>0, <1>4 DEF Record, Recorded
<1>5. ASSUME NEW pc, Goto(w, pc), SameRows, overlapped' = overlapped, worker[w] # Idle,
             worker[w].pc # "known"
      PROVE  WentOn(w)
  <2> DEFINE st == [worker[w] EXCEPT !.pc = pc]
  <2>1. worker' = [worker EXCEPT ![w] = st]
    BY <1>0, <1>5 DEF Goto
  <2>2. st.todo = worker[w].todo /\ st = [pc |-> st.pc, todo |-> st.todo, finding |-> st.finding]
    BY <1>0
  <2>3. IsWorker(st)
    BY <1>0, <2>2 DEF IsWorker
  <2> HIDE DEF st
  <2> QED
    BY <1>5, <2>1, <2>2, <2>3 DEF WentOn
<1>6. ASSUME Continue(w), SameRows, overlapped' = overlapped, worker[w] # Idle,
             worker[w].pc # "known"
      PROVE  WentOn(w)
  <2>1. IsWorker(Working(worker[w].todo)) /\ Working(worker[w].todo).todo = worker[w].todo
    BY <1>0, WorkingShape DEF IsWorker
  <2>2. worker' = [worker EXCEPT ![w] = Working(worker[w].todo)]
    BY <1>0, <1>6 DEF Continue
  <2> QED
    BY <1>6, <2>1, <2>2 DEF WentOn
<1>7. worker[w].pc \in {"charge", "open", "attach"} => worker[w] # Idle /\ worker[w].pc # "known"
  BY DEF Idle
<1>8. CASE Charge(w)
  BY <1>5, <1>6, <1>7, <1>8, <1>s DEF Charge
<1>9. CASE OpenIncident(w)
  BY <1>5, <1>7, <1>9, <1>s DEF OpenIncident
<1>10. CASE Attach(w)
  <2>1. PICK n \in Nat : detections = [i \in 1..n |-> detections[i]]
    BY DEF Shape, IsSeq
  <2>2. detections' = [i \in 1..n |-> [detections[i] EXCEPT !.attached = TRUE]]
    BY <1>10, <2>1 DEF Attach
  <2>3. SameRows
    <3>1. \A i \in 1..n : /\ [detections[i] EXCEPT !.attached = TRUE].label = detections[i].label
                          /\ [detections[i] EXCEPT !.attached = TRUE].story = detections[i].story
      OBVIOUS
    <3> QED
      BY <2>1, <2>2, <3>1 DEF SameRows, IsSeq
  <2> QED
    BY <1>6, <1>7, <1>10, <2>3 DEF Attach
<1>11. CASE WorkerDies(w)
  <2>1. IsWorker(Idle) /\ Idle.todo = {}
    BY DEF IsWorker, Idle
  <2> QED
    BY <1>11, <1>s, <2>1 DEF WorkerDies, WentOn
<1> QED
  BY <1>1, <1>2, <1>3, <1>4, <1>8, <1>9, <1>10, <1>11
     DEF Command, Analyze, Reconcile, Begin, LookUp, Record, Charge, OpenIncident, Attach, WorkerDies

-----------------------------------------------------------------------------
(* The inductive invariant.  Commands that never overlapped run alone, so  *)
(* what one found new is still new when it is recorded.                    *)

Alone == overlapped \/ \A v, w \in Workers : worker[v] # Idle /\ worker[w] # Idle => v = w

PendingIsNew ==
    \A w \in Workers : worker[w].pc # "known" =>
        \A f \in worker[w].todo : f.story # NoStory => overlapped \/ ~Known(f)

(* Everything the operating system saw was done past the brokers, or is    *)
(* what an event in the log says was carried out.                          *)
ObservedIsAccounted ==
    \A op \in observed : op \in bypassed \/ \E i \in DOMAIN log : op \in seen(log[i])

ClaimsHaveEvidence ==
    /\ \A w \in Workers : \A f \in worker[w].todo : f.label = Bypassed => Evidence
    /\ \A i \in DOMAIN detections : detections[i].label = Bypassed => Evidence

RetroInv == Shape /\ Alone /\ PendingIsNew /\ OneDetectionPerStory /\ ObservedIsAccounted
            /\ ClaimsHaveEvidence

LEMMA RetroInvInitially == RetroInit => RetroInv
<1> SUFFICES ASSUME RetroInit PROVE RetroInv
  OBVIOUS
<1>1. IsWorker(Idle) /\ Idle.todo = {}
  BY DEF IsWorker, Idle
<1>2. detections = <<>> /\ log = <<>> /\ observed = {} /\ worker = [w \in Workers |-> Idle] /\ now = 0
  BY DEF RetroInit
<1>3. IsSeq(detections)
  BY <1>2 DEF IsSeq
<1>4. Shape
  BY <1>1, <1>2, <1>3 DEF Shape
<1> QED
  BY <1>1, <1>2, <1>4 DEF RetroInv, Alone, PendingIsNew, OneDetectionPerStory, ObservedIsAccounted,
     ClaimsHaveEvidence

(* A refused declaration of an observed resource is evidence.              *)
LEMMA ReconcilingHasEvidence ==
    ASSUME ObservedIsAccounted, NEW f \in reconcile, f.label = Bypassed
    PROVE  Evidence
<1>1. PICK op \in effective : mismatch(op) = Bypassed
  BY DEF reconcile
<1>2. PICK d \in declared_intents : d.resource = op.resource /\ ~d.permitted
  BY <1>1 DEF mismatch, Bypassed
<1>3. PICK i \in DOMAIN log : refused(log[i]) /\ log[i].resource = op.resource
  BY <1>2 DEF declared_intents
<1>4. op \in observed /\ op.allowed
  BY DEF effective
<1>5. CASE op \in bypassed
  BY <1>3, <1>4, <1>5 DEF Evidence
<1>6. CASE \E j \in DOMAIN log : op \in seen(log[j])
  <2>1. PICK j \in DOMAIN log : op \in seen(log[j])
    BY <1>6
  <2>2. log[j].decision = "EXECUTED" /\ op.resource = log[j].resource
    BY <2>1 DEF seen
  <2> QED
    BY <1>3, <2>2 DEF Evidence
<1> QED
  BY <1>4, <1>5, <1>6 DEF ObservedIsAccounted

LEMMA ReconciledIsNoStory == \A f \in reconcile : f.story = NoStory
  BY DEF reconcile

-----------------------------------------------------------------------------
(* A command that begins, goes on or records keeps the invariant.          *)

LEMMA StartKeeps ==
    ASSUME RetroInv, NEW w \in Workers, Started(w), UNCHANGED <<now, log, observed, bypassed>>
    PROVE  RetroInv'
<1>1. PICK st :
        /\ worker[w] = Idle /\ worker' = [worker EXCEPT ![w] = st] /\ IsWorker(st)
        /\ \/ st.pc = "known" /\ \A f \in st.todo : f.label # Bypassed
           \/ \A f \in st.todo : f \in reconcile
        /\ overlapped' = (overlapped \/ \E v \in Workers : worker[v] # Idle)
        /\ detections' = detections
  BY DEF Started
<1>2. /\ worker' = [v \in Workers |-> worker'[v]]
      /\ worker'[w] = st /\ \A v \in Workers \ {w} : worker'[v] = worker[v]
  BY <1>1 DEF RetroInv, Shape
<1>3. Shape'
  BY <1>1, <1>2 DEF RetroInv, Shape, IsSeq, IsWorker, IsFinding
<1>4. Alone'
  BY <1>1, <1>2 DEF RetroInv, Alone, Idle
<1>5. PendingIsNew'
  BY <1>1, <1>2, ReconciledIsNoStory DEF RetroInv, PendingIsNew, Known
<1>6. OneDetectionPerStory' /\ ObservedIsAccounted'
  BY <1>1 DEF RetroInv, OneDetectionPerStory, ObservedIsAccounted, seen
<1>7. Evidence => Evidence'
  BY DEF Evidence, refused
<1>8. \A f \in st.todo : f.label = Bypassed => Evidence
  BY <1>1, ReconcilingHasEvidence DEF RetroInv
<1>9. ClaimsHaveEvidence'
  BY <1>1, <1>2, <1>7, <1>8 DEF RetroInv, ClaimsHaveEvidence
<1> QED
  BY <1>3, <1>4, <1>5, <1>6, <1>9 DEF RetroInv

LEMMA GoingOnKeeps ==
    ASSUME RetroInv, NEW w \in Workers, WentOn(w), UNCHANGED <<now, log, observed, bypassed>>
    PROVE  RetroInv'
<1>1. PICK st :
        /\ worker[w] # Idle /\ worker' = [worker EXCEPT ![w] = st] /\ IsWorker(st)
        /\ st.todo \subseteq worker[w].todo
        /\ worker[w].pc = "known" => \A f \in st.todo : ~Known(f)
        /\ overlapped' = overlapped
        /\ SameRows
  BY DEF WentOn
<1>2. /\ worker' = [v \in Workers |-> worker'[v]]
      /\ worker'[w] = st /\ \A v \in Workers \ {w} : worker'[v] = worker[v]
  BY <1>1 DEF RetroInv, Shape
<1>3. Shape'
  BY <1>1, <1>2 DEF RetroInv, Shape, SameRows, IsSeq, IsWorker, IsFinding
<1>4. Alone'
  BY <1>1, <1>2 DEF RetroInv, Alone, Idle
<1>k. \A f : Known(f)' => Known(f)
  BY <1>1 DEF SameRows, Known
<1>5. PendingIsNew'
  BY <1>1, <1>2, <1>k DEF RetroInv, PendingIsNew, Known, SameRows
<1>6. OneDetectionPerStory' /\ ObservedIsAccounted'
  BY <1>1 DEF RetroInv, OneDetectionPerStory, ObservedIsAccounted, seen, SameRows
<1>7. Evidence => Evidence'
  BY DEF Evidence, refused
<1>9. ClaimsHaveEvidence'
  BY <1>1, <1>2, <1>7 DEF RetroInv, ClaimsHaveEvidence, SameRows
<1> QED
  BY <1>3, <1>4, <1>5, <1>6, <1>9 DEF RetroInv

LEMMA RecordingKeeps ==
    ASSUME RetroInv, NEW w \in Workers, Recorded(w), UNCHANGED <<now, log, observed, bypassed>>
    PROVE  RetroInv'
<1>1. PICK f \in worker[w].todo :
        /\ worker[w].pc = "record"
        /\ worker' = [worker EXCEPT ![w] = [pc |-> "charge", todo |-> worker[w].todo \ {f},
                                            finding |-> f]]
        /\ detections' = Append(detections, [label |-> f.label, story |-> f.story,
                                             attached |-> FALSE])
        /\ overlapped' = overlapped
  BY DEF Recorded
<1>2. /\ worker' = [v \in Workers |-> worker'[v]]
      /\ worker'[w] = [pc |-> "charge", todo |-> worker[w].todo \ {f}, finding |-> f]
      /\ worker'[w].todo = worker[w].todo \ {f}
      /\ \A v \in Workers \ {w} : worker'[v] = worker[v]
  BY <1>1 DEF RetroInv, Shape
<1>3. PICK n \in Nat : detections = [i \in 1..n |-> detections[i]]
  BY DEF RetroInv, Shape, IsSeq
<1>4. /\ detections' = [i \in 1..(n+1) |-> detections'[i]]
      /\ \A i \in 1..n : detections'[i] = detections[i]
      /\ detections'[n+1] = [label |-> f.label, story |-> f.story, attached |-> FALSE]
      /\ DOMAIN detections' = 1..(n+1) /\ DOMAIN detections = 1..n
  BY <1>1, <1>3
<1>a. /\ detections'[n+1].label = f.label /\ detections'[n+1].story = f.story
      /\ \A i \in 1..(n+1) : i \in 1..n \/ i = n+1
  BY <1>4
<1>w. worker[w] # Idle
  BY <1>1 DEF Idle
<1>5. Shape'
  <2>1. IsSeq(detections')
    BY <1>3, <1>4 DEF IsSeq
  <2>2. IsWorker(worker'[w])
    BY <1>2 DEF RetroInv, Shape, IsWorker
  <2> QED
    BY <1>2, <2>1, <2>2 DEF RetroInv, Shape, IsSeq, IsWorker, IsFinding
<1>6. Alone'
  BY <1>1, <1>2, <1>w DEF RetroInv, Alone, Idle
<1>n. f.story # NoStory => overlapped \/ ~Known(f)
  BY <1>1 DEF RetroInv, PendingIsNew
<1>k. \A g : Known(g)' <=> Known(g) \/ (g.label = f.label /\ g.story = f.story)
  BY <1>4, <1>a DEF Known
<1>7. PendingIsNew'
  <2> SUFFICES ASSUME NEW v \in Workers, worker'[v].pc # "known", NEW g \in worker'[v].todo,
                      g.story # NoStory, ~overlapped
               PROVE  ~Known(g)'
    BY <1>1 DEF PendingIsNew, Known
  <2>1. v = w
    <3>1. IsWorker(worker[v]) /\ Idle.todo = {}
      BY DEF RetroInv, Shape, Idle
    <3>2. CASE v # w
      BY <1>2, <1>w, <3>1, <3>2 DEF RetroInv, Alone
    <3> QED
      BY <3>2
  <2>2. g \in worker[w].todo /\ g # f
    BY <1>2, <2>1
  <2>3. IsFinding(g) /\ IsFinding(f)
    BY <2>2 DEF RetroInv, Shape, IsWorker
  <2>4. ~(g.label = f.label /\ g.story = f.story)
    BY <2>2, <2>3 DEF IsFinding
  <2>5. ~Known(g)
    BY <1>1, <2>2 DEF RetroInv, PendingIsNew
  <2> QED
    BY <1>k, <2>4, <2>5
<1>8. OneDetectionPerStory'
  <2> SUFFICES ASSUME NEW i \in 1..(n+1), NEW j \in 1..(n+1), detections'[i].story # NoStory,
                      detections'[i].label = detections'[j].label,
                      detections'[i].story = detections'[j].story, ~overlapped
               PROVE  i = j
    BY <1>1, <1>4 DEF OneDetectionPerStory
  <2>1. CASE i \in 1..n /\ j \in 1..n
    BY <1>4, <2>1 DEF RetroInv, OneDetectionPerStory
  <2>2. CASE i \in 1..n /\ j = n+1
    BY <1>4, <1>a, <1>n, <2>2 DEF Known
  <2>3. CASE i = n+1 /\ j \in 1..n
    BY <1>4, <1>a, <1>n, <2>3 DEF Known
  <2> QED
    BY <1>a, <2>1, <2>2, <2>3
<1>9. ObservedIsAccounted'
  BY DEF RetroInv, ObservedIsAccounted, seen
<1>10. Evidence => Evidence'
  BY DEF Evidence, refused
<1>11. ClaimsHaveEvidence'
  BY <1>1, <1>2, <1>4, <1>a, <1>10 DEF RetroInv, ClaimsHaveEvidence
<1> QED
  BY <1>5, <1>6, <1>7, <1>8, <1>9, <1>11 DEF RetroInv

-----------------------------------------------------------------------------
(* The session acts, or something goes past the brokers.                   *)

LEMMA ActingKeeps ==
    ASSUME RetroInv, NEW e \in Doings, Act(e)
    PROVE  RetroInv'
<1> DEFINE row == [e EXCEPT !.at = now]
<1>1. e \in Events /\ row \in Events
  BY RetroAssumption DEF Events, RetroInv, Shape
<1>2. seen(row) = seen(e)
  BY <1>1 DEF seen, Events
<1>3. log' = Append(log, row) /\ log \in Seq(Events)
  BY DEF Act, RetroInv, Shape
<1> HIDE DEF row
<1>4. /\ log' \in Seq(Events) /\ DOMAIN log \subseteq DOMAIN log'
      /\ \A i \in DOMAIN log : log'[i] = log[i]
      /\ Len(log) + 1 \in DOMAIN log' /\ log'[Len(log) + 1] = row
  BY <1>1, <1>3
<1>5. Shape'
  BY <1>4 DEF Act, RetroInv, Shape, IsWorker, IsFinding, IsSeq
<1>6. Alone' /\ PendingIsNew' /\ OneDetectionPerStory'
  BY DEF Act, RetroInv, Alone, PendingIsNew, OneDetectionPerStory, Known, Idle
<1>7. ObservedIsAccounted'
  <2>1. \A i \in DOMAIN log : seen(log'[i]) = seen(log[i])
    BY <1>4
  <2>2. seen(log'[Len(log) + 1]) = seen(e)
    BY <1>2, <1>4
  <2>3. observed' = observed \cup seen(e) /\ bypassed' = bypassed
    BY DEF Act
  <2>4. \A op \in observed' : op \in bypassed' \/ \E i \in DOMAIN log' : op \in seen(log'[i])
    BY <1>4, <2>1, <2>2, <2>3 DEF RetroInv, ObservedIsAccounted
  <2> QED
    BY <2>4 DEF ObservedIsAccounted, seen
<1>8. Evidence => Evidence'
  BY <1>4 DEF Act, Evidence, refused
<1>9. ClaimsHaveEvidence'
  BY <1>8 DEF Act, RetroInv, ClaimsHaveEvidence
<1> QED
  BY <1>5, <1>6, <1>7, <1>9 DEF RetroInv

LEMMA BypassKeeps ==
    ASSUME RetroInv, NEW op, Bypass(op)
    PROVE  RetroInv'
<1>1. Shape'
  BY DEF Bypass, RetroInv, Shape, IsWorker, IsFinding, IsSeq
<1>2. Alone' /\ PendingIsNew' /\ OneDetectionPerStory'
  BY DEF Bypass, RetroInv, Alone, PendingIsNew, OneDetectionPerStory, Known, Idle
<1>3. ObservedIsAccounted'
  BY DEF Bypass, RetroInv, ObservedIsAccounted, seen
<1>4. Evidence => Evidence'
  BY DEF Bypass, Evidence, refused
<1> QED
  BY <1>1, <1>2, <1>3, <1>4 DEF RetroInv, Bypass, ClaimsHaveEvidence

LEMMA OthersKeep ==
    ASSUME RetroInv, now' \in Nat,
           UNCHANGED <<log, observed, bypassed, detections, worker, overlapped>>
    PROVE  RetroInv'
<1>1. Shape'
  BY DEF RetroInv, Shape, IsWorker, IsFinding, IsSeq
<1>2. Alone' /\ PendingIsNew' /\ OneDetectionPerStory' /\ ObservedIsAccounted'
  BY DEF RetroInv, Alone, PendingIsNew, OneDetectionPerStory, ObservedIsAccounted, Known, Idle, seen
<1>3. Evidence => Evidence'
  BY DEF Evidence, refused
<1> QED
  BY <1>1, <1>2, <1>3 DEF RetroInv, ClaimsHaveEvidence

LEMMA RetroInvStep == RetroInv /\ [RetroNext]_retrospective => RetroInv'
<1> SUFFICES ASSUME RetroInv, [RetroNext]_retrospective PROVE RetroInv'
  OBVIOUS
<1>0. now \in Nat
  BY DEF RetroInv, Shape
<1>1. CASE (Next /\ UNCHANGED retroVars) \/ UNCHANGED retrospective
  BY <1>0, <1>1, OthersKeep DEF retroVars, retrospective
<1>2. CASE \E e \in Doings : Act(e)
  BY <1>2, ActingKeeps
<1>3. CASE \E op \in Bypasses : Bypass(op)
  BY <1>3, BypassKeeps
<1>4. CASE \E r \in Refusals : OtherRefused(r)
  BY <1>0, <1>4, OthersKeep DEF OtherRefused
<1>5. CASE ClockMoves
  <2>1. now' \in Nat
    BY <1>5, RetroAssumption DEF ClockMoves
  <2> QED
    BY <1>5, <2>1, OthersKeep DEF ClockMoves
<1>6. ASSUME NEW w \in Workers, Command(w) PROVE RetroInv'
  BY <1>6, CommandKinds, StartKeeps, GoingOnKeeps, RecordingKeeps DEF RetroInv
<1> QED
  BY <1>1, <1>2, <1>3, <1>4, <1>5, <1>6 DEF RetroNext

(* The invariant above holds of every behaviour of the commands that look  *)
(* back (sequence.rs analyze_session, reconcile.rs reconcile_session).     *)
THEOREM RetroInvariant == RetroSpec => []RetroInv
  BY RetroInvInitially, RetroInvStep, PTL DEF RetroSpec

(* However many analyses are run, one after the other, and wherever they   *)
(* die, a story is recorded once (sequence.rs analyze_session).            *)
THEOREM StoriesAreRecordedOnce == RetroSpec => []OneDetectionPerStory
<1>1. RetroInv => OneDetectionPerStory
  BY DEF RetroInv
<1> QED
  BY <1>1, RetroInvariant, PTL

(* "Denied operation observed" is reported only where the log holds a      *)
(* refusal of a resource on which something took effect, past the brokers  *)
(* or by one of them, before the refusal or after it (reconcile.rs         *)
(* reconcile).  That it got past them is not true of the code.             *)
THEOREM DenialsObservedHaveEvidence == RetroSpec => []DeniedMeansTouched
<1>1. RetroInv => DeniedMeansTouched
  BY DEF RetroInv, ClaimsHaveEvidence, Evidence, DeniedMeansTouched, Bypassed
<1> QED
  BY <1>1, RetroInvariant, PTL

=============================================================================
