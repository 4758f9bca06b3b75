----------------------------- MODULE PolicyLadder -----------------------------
(***************************************************************************)
(* One question put to the local policy while the session behind it        *)
(* changes.  The question (a profile, and either an action on a path or an *)
(* executable to run) is fixed in the initial state; the steps are what    *)
(* can happen to the session between two askings of it: a risk signal is   *)
(* recorded, a response raises the risk directly, a lease covering the     *)
(* request appears or goes away.  After every step the decision is the one *)
(* evaluate_in_context / evaluate_process_in_context would give.           *)
(***************************************************************************)
EXTENDS LocalPolicy

CONSTANTS
    Dimensions,     \* the risk dimensions signals may load
    Weights,        \* the weights a signal may carry
    AskedPaths,     \* the paths asked about
    AskedExes       \* the executables asked about

ASSUME LadderAssumption ==
    /\ IsFiniteSet(Dimensions)
    /\ Weights \subseteq 1..100        \* MAX_SIGNAL_WEIGHT
    /\ AskedPaths \subseteq Paths
    /\ AskedExes \subseteq Executables

VARIABLES
    question,   \* what is asked
    scores,     \* the session's score in each dimension (sum of its signals)
    risk,       \* sessions.risk_state
    lease,      \* whether a usable lease covers the request
    decision    \* the answer to the question in this state

vars == <<question, scores, risk, lease, decision>>

(* Scores saturate at the highest threshold, above which no rule tells     *)
(* them apart.                                                             *)
Loaded(d, w) ==
    [scores EXCEPT ![d] = IF @ + w < QuarantinedAt THEN @ + w ELSE QuarantinedAt]

Questions ==
    [kind: {"path"}, profile: Profiles, action: Actions, path: AskedPaths]
      \cup [kind: {"process"}, profile: Profiles, action: {"process.exec"}, exe: AskedExes]

(* The base decision of the evaluator the question is put to.              *)
BaseDecision(q) ==
    IF q.kind = "path" THEN EvaluateBase(q.profile, q.action, q.path)
                       ELSE EvaluateProcess(q.profile, q.exe)

(* evaluate_in_context and evaluate_process_in_context.                    *)
EvaluateInContext(q, r, l) == ApplySessionState(BaseDecision(q), q.action, r, l)

Init ==
    /\ question \in Questions
    /\ scores = [d \in Dimensions |-> 0]
    /\ risk = Normal
    /\ lease = FALSE
    /\ decision = EvaluateInContext(question, Normal, FALSE)

(* Mutant: the derived state replaces the stored one.                      *)
RecordRiskSignalDerived(d, w) ==
    /\ scores' = Loaded(d, w)
    /\ risk' = AggregateState(scores')
    /\ lease' = (lease /\ ~RevokesLeases(risk'))
    /\ decision' = EvaluateInContext(question, risk', lease')
    /\ UNCHANGED question

(* record_risk_signal: the derived state is a floor under the stored one.  *)
RecordRiskSignal(d, w) ==
    /\ scores' = Loaded(d, w)
    /\ risk' = MaxRisk(AggregateState(scores'), risk)
    /\ lease' = (lease /\ ~RevokesLeases(risk'))
    /\ decision' = EvaluateInContext(question, risk', lease')
    /\ UNCHANGED question

(* escalate_risk_to: set rather than derived, and still monotone.          *)
EscalateRiskTo(target) ==
    /\ target > risk
    /\ risk' = target
    /\ lease' = (lease /\ ~RevokesLeases(target))
    /\ decision' = EvaluateInContext(question, target, lease')
    /\ UNCHANGED <<question, scores>>

(* A grant covers the request (refused to a contained session), or the     *)
(* lease is spent or expires.                                              *)
LeaseChanges ==
    /\ lease \/ ~RevokesLeases(risk)
    /\ lease' = ~lease
    /\ decision' = EvaluateInContext(question, risk, lease')
    /\ UNCHANGED <<question, scores, risk>>

Next ==
    \/ \E d \in Dimensions, w \in Weights : RecordRiskSignal(d, w)
    \/ \E target \in RiskStates : EscalateRiskTo(target)
    \/ LeaseChanges

Spec == Init /\ [][Next]_vars

-----------------------------------------------------------------------------
(* Whatever a session does while no lease appears, a later answer to the   *)
(* same question is never less restrictive than an earlier one, and losing *)
(* a lease never widens one (policy.rs degrade_for_risk "can only move an  *)
(* outcome toward Deny"; risk.rs aggregate_state under more signals).      *)
AuthorityOnlyShrinks ==
    [][(lease' => lease) => Restrictiveness(decision'.outcome) >= Restrictiveness(decision.outcome)]_vars

(* No sequence of signals, escalations and leases ever makes a protected   *)
(* object usable: neither when it is named directly nor when an innocent   *)
(* name resolves to it, and not under the observe profile, which waives    *)
(* everything else (policy.rs evaluate_base, both protected checks).       *)
ProtectedIsNeverPermitted ==
    /\ question.kind = "path"
    /\ question.action \in PathActions
    /\ question.path.named # "none" \/ question.path.target # "none"
    /\ question.path.resolves # "fails" \/ question.path.named # "none"
    => ~PermitsExecution(decision.outcome) /\ decision.outcome # "require_approval"
=============================================================================
