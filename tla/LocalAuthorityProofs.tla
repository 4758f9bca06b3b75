------------------------- MODULE LocalAuthorityProofs -------------------------
(***************************************************************************)
(* Proofs about LocalAuthority for every set of sessions, asks, callers    *)
(* and responders and every bound.                                         *)
(*                                                                         *)
(* The argument.  What the twenty-odd actions do to the authority state    *)
(* (risk, approvals, leases, spent) falls into eight kinds of change       *)
(* (AuthorityChange).  Once that classification is proved, each invariant  *)
(* is proved against the kinds of change and not against the actions.      *)
(***************************************************************************)
EXTENDS LocalAuthority, TLAPS

-----------------------------------------------------------------------------
(* Facts about the operators of the policy ladder.                         *)

(* Whatever the risk and the lease, an ask is answered with an outcome.    *)
LEMMA OutcomeType ==
    ASSUME NEW ask \in Asks, NEW r \in RiskStates, NEW l \in BOOLEAN
    PROVE  Apply(ask, r, l) \in Outcomes
<1>1. ask.base \in Outcomes
  BY AskAssumption DEF AskRecords
<1>2. LeaseUpgrade(ask.base, l) \in Outcomes
  BY <1>1 DEF LeaseUpgrade, Outcomes
<1>3. RiskFloor(ask.action, LeaseUpgrade(ask.base, l), r) \in Outcomes
  BY <1>2 DEF RiskFloor, Outcomes
<1> QED
  BY <1>2, <1>3 DEF Apply, DegradeForRisk

(* Aggregation yields a risk state for any scores.                         *)
LEMMA AggregateType ==
    ASSUME NEW sc PROVE AggregateState(sc) \in RiskStates
  BY DEF AggregateState, RiskStates, Normal, Elevated, Restricted, Contained, Quarantined

(* The labels the modelled paths can fire, and the type of their rules.    *)
FiredLabels == (Labels \ {NoLabel}) \cup {"clock_regression", "deception_resource_access",
                                         "capability_escalation_probing", "approval_fatigue"}

LEMMA RuleType ==
    ASSUME NEW label \in FiredLabels PROVE RuleForLabel(label).weight \in Nat
  BY DEF FiredLabels, Labels, NoLabel, RuleForLabel, Rule

(* A signal leaves the scores well typed.                                  *)
LEMMA LoadedType ==
    ASSUME TypeOK, NEW s \in Sessions, NEW label \in FiredLabels
    PROVE  LoadedScores(s, label) \in [RiskDimensions -> Nat]
<1>1. RuleForLabel(label).weight \in Nat
  BY RuleType
<1>2. ASSUME NEW d \in RiskDimensions
      PROVE  Saturate(scores[s][d] + RuleForLabel(label).weight) \in Nat
  <2>1. scores[s][d] \in Nat
    BY DEF TypeOK
  <2> QED
    BY <1>1, <2>1 DEF Saturate, QuarantinedAt
<1>3. \A d \in RiskDimensions : scores[s][d] \in Nat
  BY DEF TypeOK
<1> QED
  BY <1>2, <1>3 DEF LoadedScores

(* Moving a caller keeps it a caller.                                      *)
LEMMA IdleType == Sessions # {} /\ DefaultAsk \in Asks /\ IdleCaller \in CallerStates /\ IdleResponder \in ResponderStates
<1>1. DefaultAsk \in Asks
  BY AskAssumption DEF DefaultAsk
<1>2. DefaultAsk.session \in Sessions
  BY <1>1, AskAssumption DEF AskRecords
<1> QED
  BY <1>1, <1>2 DEF IdleCaller, IdleResponder, CallerStates, ResponderStates, CallerPcs,
     ResponderPcs, RiskStates, Normal, Quarantined, Contained, Outcomes

LEMMA MovedType ==
    ASSUME NEW c \in CallerStates, NEW pc \in CallerPcs \cup {"done"}
    PROVE  MovedTo(c, pc) \in CallerStates
  BY IdleType DEF MovedTo, CallerStates

LEMMA AfterType ==
    ASSUME NEW ask, NEW out
    PROVE  /\ AfterDetection(ask, out) \in CallerPcs \cup {"done"}
           /\ AfterCanary(ask, out) \in CallerPcs \cup {"done"}
           /\ AfterDecision(ask, out) \in CallerPcs \cup {"done"}
           /\ AfterDetection(ask, out) # "detect"
           /\ (AfterCanary(ask, out) = "detect" \/ AfterDecision(ask, out) = "detect")
                => ask.label # NoLabel
  BY DEF AfterDetection, AfterCanary, AfterDecision, CallerPcs

-----------------------------------------------------------------------------
(* The kinds of change a step makes to the authority state.                *)

Unaffected == UNCHANGED <<risk, approvals, leases, spent>>

RiskRises(s) ==
    /\ risk'[s] >= risk[s]
    /\ risk' = [risk EXCEPT ![s] = risk'[s]]
    /\ leases' = IF risk'[s] # risk[s] /\ RevokesLeases(risk'[s]) THEN RevokeSession(s) ELSE leases
    /\ UNCHANGED <<approvals, spent>>

LeasesRevoked(s) == leases' = RevokeSession(s) /\ UNCHANGED <<risk, approvals, spent>>

LeaseCharged(a) ==
    /\ leases[a].status = "active" /\ leases[a].uses > 0
    /\ Charge(a)
    /\ UNCHANGED <<risk, approvals>>

RequestDecided(a) ==
    /\ approvals[a].status = "pending"
    /\ approvals' = [approvals EXCEPT ![a].status = "denied", ![a].human = TRUE]
    /\ UNCHANGED <<risk, leases, spent>>

RequestGranted(a) ==
    \E uses \in 1..MaxLeaseUses, expires \in Nat :
        /\ approvals[a].status = "pending"
        /\ ~RevokesLeases(risk[LeaseSession(a)])
        /\ leases' = [leases EXCEPT ![a] = [status |-> "active", uses |-> uses, max |-> uses,
                                            expires |-> expires]]
        /\ approvals' = [approvals EXCEPT ![a].status = "granted", ![a].human = TRUE]
        /\ UNCHANGED <<risk, spent>>

RequestsRewritten ==
    /\ \A a \in ApprovalIds :
          \/ approvals'[a] = approvals[a]
          \/ approvals[a].status \in {"absent", "pending"} /\ approvals'[a].status \in {"pending", "denied"}
    /\ UNCHANGED <<risk, leases, spent>>

RiskWrittenBack(o) ==
    /\ responder[o].pc = "seal"
    /\ risk' = [risk EXCEPT ![responder[o].session] = responder[o].risk]
    /\ UNCHANGED <<approvals, leases, spent>>

AuthorityChange ==
    \/ Unaffected
    \/ \E s \in Sessions : RiskRises(s) \/ LeasesRevoked(s)
    \/ \E a \in ApprovalIds : LeaseCharged(a) \/ RequestDecided(a) \/ RequestGranted(a)
    \/ RequestsRewritten
    \/ \E o \in Responders : RiskWrittenBack(o)

(* A denial is reported only under a label that has a rule.                *)
DetectionsAreNamed ==
    \A p \in Callers : At(p, "detect") => caller[p].ask.label # NoLabel

LEMMA CallerAsk ==
    ASSUME TypeOK, NEW p \in Callers
    PROVE  /\ caller[p].ask \in Asks /\ caller[p].ask.session \in Sessions
           /\ caller[p].ask.label \in Labels /\ caller[p].now \in Nat
           /\ caller[p] \in CallerStates
  BY AskAssumption DEF TypeOK, CallerStates, AskRecords

(* A signal raises the risk of its session or leaves it, and types hold.   *)
LEMMA SignalStep ==
    ASSUME TypeOK, NEW s \in Sessions, NEW label \in FiredLabels, RecordRiskSignal(s, label)
    PROVE  /\ RiskRises(s)
           /\ risk' \in [Sessions -> RiskStates]
           /\ scores' \in [Sessions -> [RiskDimensions -> Nat]]
           /\ status' = status
<1>1. LoadedScores(s, label) \in [RiskDimensions -> Nat]
  BY LoadedType
<1>2. AggregateState(LoadedScores(s, label)) \in RiskStates
  BY AggregateType
<1>3. risk \in [Sessions -> RiskStates] /\ scores \in [Sessions -> [RiskDimensions -> Nat]]
  BY DEF TypeOK
<1>4. MaxRisk(AggregateState(LoadedScores(s, label)), risk[s]) \in RiskStates
  BY <1>2, <1>3 DEF MaxRisk
<1>5. MaxRisk(AggregateState(LoadedScores(s, label)), risk[s]) >= risk[s]
  BY <1>2, <1>3 DEF MaxRisk, RiskStates, Normal, Quarantined
<1> QED
  BY <1>1, <1>3, <1>4, <1>5 DEF RecordRiskSignal, SetRisk, RiskRises

LEMMA EscalationStep ==
    ASSUME TypeOK, NEW s \in Sessions, NEW target \in {Contained, Quarantined},
           EscalateRiskTo(s, target)
    PROVE  /\ RiskRises(s) /\ RevokesLeases(risk'[s])
           /\ risk' \in [Sessions -> RiskStates]
           /\ UNCHANGED <<scores, status>>
<1>1. risk \in [Sessions -> RiskStates] /\ target \in RiskStates
  BY DEF TypeOK, RiskStates, Normal, Contained, Quarantined
<1>2. /\ MaxRisk(target, risk[s]) \in RiskStates
      /\ MaxRisk(target, risk[s]) >= risk[s]
      /\ RevokesLeases(MaxRisk(target, risk[s]))
  BY <1>1 DEF MaxRisk, RiskStates, Normal, Quarantined, Contained, RevokesLeases
<1> QED
  BY <1>1, <1>2 DEF EscalateRiskTo, SetRisk, RiskRises

(* Revoking keeps the leases well typed.                                   *)
LEMMA RevokeType ==
    ASSUME TypeOK, NEW s PROVE RevokeSession(s) \in [ApprovalIds -> LeaseRows]
  BY DEF TypeOK, RevokeSession, LeaseRows

-----------------------------------------------------------------------------
(* Every step keeps the types and is one of the kinds of change.           *)

TypeInv == TypeOK /\ DetectionsAreNamed

(* A caller that only moves on, with its own row well typed.               *)
LEMMA CallerMoves ==
    ASSUME TypeInv, NEW p \in Callers, NEW c \in CallerStates,
           caller' = [caller EXCEPT ![p] = c],
           c.pc = "detect" => c.ask.label # NoLabel
    PROVE  caller' \in [Callers -> CallerStates] /\ DetectionsAreNamed'
<1>1. caller \in [Callers -> CallerStates]
  BY DEF TypeInv, TypeOK
<1> QED
  BY <1>1 DEF TypeInv, DetectionsAreNamed, At

(* The pc of a moved caller.                                               *)
LEMMA MovedPc ==
    ASSUME NEW c \in CallerStates, NEW pc \in CallerPcs \cup {"done"}
    PROVE  /\ MovedTo(c, pc).pc = IF pc = "done" THEN "idle" ELSE pc
           /\ pc # "done" => MovedTo(c, pc).ask = c.ask
  BY DEF MovedTo, IdleCaller, CallerStates

LEMMA GotoStep ==
    ASSUME TypeInv, NEW p \in Callers, NEW pc \in CallerPcs \cup {"done"}, Goto(p, pc),
           pc = "detect" => caller[p].ask.label # NoLabel
    PROVE  caller' \in [Callers -> CallerStates] /\ DetectionsAreNamed'
<1>1. caller[p] \in CallerStates /\ caller' = [caller EXCEPT ![p] = MovedTo(caller[p], pc)]
  BY CallerAsk DEF TypeInv, Goto, TypeOK
<1>2. MovedTo(caller[p], pc) \in CallerStates
  BY <1>1, MovedType
<1>3. MovedTo(caller[p], pc).pc = "detect" => MovedTo(caller[p], pc).ask.label # NoLabel
  BY <1>1, MovedPc
<1> QED
  BY <1>1, <1>2, <1>3, CallerMoves

(* The steps of authorize_decision that record a signal and move on.       *)
LEMMA SignalAndGoto ==
    ASSUME TypeInv, NEW p \in Callers, NEW label \in FiredLabels,
           NEW pc \in CallerPcs \cup {"done"},
           RecordRiskSignal(caller[p].ask.session, label), Goto(p, pc),
           pc = "detect" => caller[p].ask.label # NoLabel,
           UNCHANGED <<wall, mark, operator, responder>>
    PROVE  TypeInv' /\ AuthorityChange
<1>1. caller[p].ask.session \in Sessions /\ TypeOK
  BY CallerAsk DEF TypeInv
<1>2. /\ RiskRises(caller[p].ask.session) /\ status' = status
      /\ risk' \in [Sessions -> RiskStates]
      /\ scores' \in [Sessions -> [RiskDimensions -> Nat]]
  BY <1>1, SignalStep
<1>3. leases' \in [ApprovalIds -> LeaseRows] /\ approvals' = approvals /\ spent' = spent
  BY <1>1, <1>2, RevokeType DEF RiskRises, TypeOK
<1>4. caller' \in [Callers -> CallerStates] /\ DetectionsAreNamed'
  BY GotoStep
<1>5. TypeOK'
  BY <1>1, <1>2, <1>3, <1>4 DEF TypeOK
<1> QED
  BY <1>1, <1>2, <1>4, <1>5 DEF TypeInv, AuthorityChange

LEMMA AuthorizeStep ==
    ASSUME TypeInv, NEW p \in Callers, NEW ask \in Asks, Authorize(p, ask)
    PROVE  TypeInv' /\ AuthorityChange
<1> DEFINE c == [IdleCaller EXCEPT !.pc = "clock", !.ask = ask, !.now = wall, !.floor = mark,
                                   !.refused = FindByFingerprint(ask, "denied")]
<1>1. c \in CallerStates /\ c.pc = "clock"
  <2>1. FindByFingerprint(ask, "denied") \in BOOLEAN
    BY DEF FindByFingerprint
  <2>2. wall \in Nat /\ mark \in Nat
    BY DEF TypeInv, TypeOK
  <2> QED
    BY <2>1, <2>2, IdleType DEF CallerStates, CallerPcs, IdleCaller
<1>2. caller' = [caller EXCEPT ![p] = c]
  BY DEF Authorize
<1>3. caller' \in [Callers -> CallerStates] /\ DetectionsAreNamed'
  <2> HIDE DEF c
  <2> QED BY <1>1, <1>2, CallerMoves
<1> QED
  BY <1>3 DEF TypeInv, TypeOK, Authorize, authorityVars, AuthorityChange, Unaffected

LEMMA ObserveNowStep ==
    ASSUME TypeInv, NEW p \in Callers, ObserveNow(p)
    PROVE  TypeInv' /\ AuthorityChange
<1>1. caller[p] \in CallerStates /\ mark \in Nat /\ caller[p].now \in Nat
  BY CallerAsk DEF TypeInv, TypeOK
<1>2. AdvancedMark(caller[p].now) \in Nat /\ EffectiveNow(caller[p].now) \in Nat
  BY <1>1 DEF AdvancedMark, EffectiveNow, MaxOf
<1> DEFINE c == [caller[p] EXCEPT !.pc = IF Regressed(caller[p].now) THEN "regressed" ELSE "risk",
                                  !.now = EffectiveNow(caller[p].now)]
<1>3. c \in CallerStates /\ c.pc # "detect"
  BY <1>1, <1>2 DEF CallerStates, CallerPcs
<1>4. caller' = [caller EXCEPT ![p] = c]
  BY <1>1 DEF ObserveNow, TypeInv, TypeOK, CallerStates
<1>5. caller' \in [Callers -> CallerStates] /\ DetectionsAreNamed'
  <2> HIDE DEF c
  <2> QED BY <1>3, <1>4, CallerMoves
<1> QED
  BY <1>2, <1>5 DEF TypeInv, TypeOK, ObserveNow, authorityVars, AuthorityChange, Unaffected

(* A decided caller continues with a well-typed outcome.                   *)
LEMMA DecidedStep ==
    ASSUME TypeInv, NEW p \in Callers, NEW out \in Outcomes,
           caller' = [caller EXCEPT ![p] =
                MovedTo([caller[p] EXCEPT !.outcome = out], AfterDecision(caller[p].ask, out))]
    PROVE  caller' \in [Callers -> CallerStates] /\ DetectionsAreNamed'
<1> DEFINE c == [caller[p] EXCEPT !.outcome = out]
           pc == AfterDecision(caller[p].ask, out)
<1>1. caller[p] \in CallerStates
  BY CallerAsk DEF TypeInv
<1>2. c \in CallerStates /\ c.ask = caller[p].ask
  BY <1>1 DEF CallerStates
<1>3. pc \in CallerPcs \cup {"done"} /\ (pc = "detect" => caller[p].ask.label # NoLabel)
  BY AfterType
<1>4. /\ MovedTo(c, pc) \in CallerStates
      /\ MovedTo(c, pc).pc = "detect" => MovedTo(c, pc).ask.label # NoLabel
  <2> HIDE DEF c, pc
  <2> QED BY <1>2, <1>3, MovedType, MovedPc
<1> QED
  BY <1>4, CallerMoves

LEMMA ReadRiskStep ==
    ASSUME TypeInv, NEW p \in Callers, ReadRisk(p)
    PROVE  TypeInv' /\ AuthorityChange
<1> DEFINE ask  == caller[p].ask
           seen == risk[ask.session]
           out  == Apply(ask, seen, FALSE)
           c    == [caller[p] EXCEPT !.pc = "consume", !.risk = seen]
<1>1. caller[p] \in CallerStates /\ ask \in Asks /\ seen \in RiskStates
  BY CallerAsk DEF TypeInv, TypeOK
<1>2. out \in Outcomes
  BY <1>1, OutcomeType
<1>3. caller' \in [Callers -> CallerStates] /\ DetectionsAreNamed'
  <2>1. CASE caller' = [caller EXCEPT ![p] = c]
    <3>1. c \in CallerStates /\ c.pc # "detect"
      BY <1>1 DEF CallerStates, CallerPcs
    <3> HIDE DEF c
    <3> QED BY <2>1, <3>1, CallerMoves
  <2>2. CASE caller' = [caller EXCEPT ![p] =
                MovedTo([caller[p] EXCEPT !.outcome = out], AfterDecision(caller[p].ask, out))]
    BY <1>2, <2>2, DecidedStep
  <2> QED
    BY <2>1, <2>2 DEF ReadRisk
<1> QED
  BY <1>3 DEF TypeInv, TypeOK, ReadRisk, authorityVars, AuthorityChange, Unaffected

LEMMA ConsumeLeaseStep ==
    ASSUME TypeInv, NEW p \in Callers, ConsumeLease(p)
    PROVE  TypeInv' /\ AuthorityChange
<1> DEFINE ask == caller[p].ask
           out(l) == Apply(ask, caller[p].risk, l)
           Decided(l) == caller' = [caller EXCEPT ![p] =
                MovedTo([caller[p] EXCEPT !.outcome = out(l)], AfterDecision(caller[p].ask, out(l)))]
<1>1. caller[p] \in CallerStates /\ ask \in Asks /\ caller[p].risk \in RiskStates
  BY CallerAsk DEF TypeInv, TypeOK, CallerStates
<1>2. ASSUME NEW l \in BOOLEAN, Decided(l)
      PROVE  caller' \in [Callers -> CallerStates] /\ DetectionsAreNamed'
  BY <1>1, <1>2, OutcomeType, DecidedStep
<1>3. UNCHANGED <<wall, mark, scores, risk, status, approvals, operator, responder>>
  BY DEF ConsumeLease
<1>4. CASE Candidates(ask, caller[p].now) = {} /\ Decided(FALSE) /\ UNCHANGED <<leases, spent>>
  BY <1>2, <1>3, <1>4 DEF TypeInv, TypeOK, AuthorityChange, Unaffected
<1>5. CASE \E a \in Candidates(ask, caller[p].now) : Charge(a) /\ Decided(TRUE)
  <2>1. PICK a \in ApprovalIds : Usable(a, ask, caller[p].now) /\ Charge(a) /\ Decided(TRUE)
    BY <1>5 DEF Candidates
  <2>2. leases[a].status = "active" /\ leases[a].uses > 0
    BY <2>1 DEF Usable
  <2>3. leases' \in [ApprovalIds -> LeaseRows] /\ spent' \in [ApprovalIds -> Nat]
    <3>1. leases \in [ApprovalIds -> LeaseRows] /\ spent \in [ApprovalIds -> Nat]
      BY DEF TypeInv, TypeOK
    <3>2. leases[a].uses - 1 \in Nat
      BY <2>2, <3>1 DEF LeaseRows
    <3>3. Charge(a)
      BY <2>1
    <3>4. leases' \in [ApprovalIds -> LeaseRows]
      <4> DEFINE r == [leases[a] EXCEPT !.uses = @ - 1,
                                        !.status = IF leases[a].uses = 1 THEN "exhausted" ELSE "active"]
      <4>1. leases[a] \in LeaseRows
        BY <3>1
      <4>2. r \in LeaseRows
        BY <3>2, <4>1 DEF LeaseRows
      <4>3. leases' = [leases EXCEPT ![a] = r]
        BY <3>1, <3>3, <4>1 DEF Charge, LeaseRows
      <4> HIDE DEF r
      <4> QED BY <3>1, <4>2, <4>3
    <3>5. spent' \in [ApprovalIds -> Nat]
      BY <3>1, <3>3 DEF Charge
    <3> QED
      BY <3>4, <3>5
  <2>4. LeaseCharged(a)
    BY <1>3, <2>1, <2>2 DEF LeaseCharged
  <2> QED
    BY <1>2, <1>3, <2>1, <2>3, <2>4 DEF TypeInv, TypeOK, AuthorityChange
<1> QED
  BY <1>4, <1>5 DEF ConsumeLease

LEMMA CallerSignalSteps ==
    ASSUME TypeInv, NEW p \in Callers,
           ReportRegression(p) \/ TouchCanary(p) \/ FireDetection(p) \/ Probe(p) \/ Fatigue(p)
    PROVE  TypeInv' /\ AuthorityChange
<1>1. CASE ReportRegression(p)
  BY <1>1, SignalAndGoto DEF ReportRegression, FiredLabels, CallerPcs
<1>2. CASE TouchCanary(p)
  BY <1>2, AfterType, SignalAndGoto DEF TouchCanary, FiredLabels
<1>3. CASE FireDetection(p)
  <2>1. caller[p].ask.label \in FiredLabels
    BY <1>3, CallerAsk DEF FireDetection, TypeInv, DetectionsAreNamed, FiredLabels
  <2> QED
    BY <1>3, <2>1, AfterType, SignalAndGoto DEF FireDetection
<1>4. CASE Probe(p)
  BY <1>4, SignalAndGoto DEF Probe, FiredLabels
<1>5. CASE Fatigue(p)
  BY <1>5, SignalAndGoto DEF Fatigue, FiredLabels
<1> QED
  BY <1>1, <1>2, <1>3, <1>4, <1>5

LEMMA LookupSteps ==
    ASSUME TypeInv, NEW p \in Callers, FindDenied(p) \/ FindPending(p) \/ CallerDies(p)
    PROVE  TypeInv' /\ AuthorityChange
<1>1. caller' \in [Callers -> CallerStates] /\ DetectionsAreNamed'
  <2>1. CASE FindDenied(p)
    BY <2>1, GotoStep DEF FindDenied, CallerPcs
  <2>2. CASE FindPending(p)
    BY <2>2, GotoStep DEF FindPending, CallerPcs
  <2>3. CASE CallerDies(p)
    <3>1. IdleCaller \in CallerStates /\ IdleCaller.pc # "detect"
      BY IdleType DEF IdleCaller
    <3> QED BY <2>3, <3>1, CallerMoves DEF CallerDies
  <2> QED BY <2>1, <2>2, <2>3
<1> QED
  BY <1>1 DEF TypeInv, TypeOK, FindDenied, FindPending, CallerDies, authorityVars,
              AuthorityChange, Unaffected

LEMMA InsertRequestStep ==
    ASSUME TypeInv, NEW p \in Callers, InsertRequest(p)
    PROVE  TypeInv' /\ AuthorityChange
<1> DEFINE ask  == caller[p].ask
           now  == caller[p].now
           rows == Retired(ask, now)
<1>1. ask \in Asks /\ now \in Nat /\ approvals \in [ApprovalIds -> ApprovalRows]
  BY CallerAsk DEF TypeInv, TypeOK
<1>2. UNCHANGED <<wall, mark, scores, risk, status, leases, spent, operator, responder>>
  BY DEF InsertRequest
<1>3. CASE caller' = [caller EXCEPT ![p] = IdleCaller] /\ UNCHANGED approvals
  <2>1. IdleCaller \in CallerStates /\ IdleCaller.pc # "detect"
    BY IdleType DEF IdleCaller
  <2>2. caller' \in [Callers -> CallerStates] /\ DetectionsAreNamed'
    BY <1>3, <2>1, CallerMoves
  <2> QED
    BY <1>2, <1>3, <2>2 DEF TypeInv, TypeOK, AuthorityChange, Unaffected
<1>4. ASSUME NEW a \in ApprovalIds, approvals[a].status = "absent",
             approvals' = [rows EXCEPT ![a] = NewRequest(ask, now)],
             Goto(p, IF RecentRequests(approvals', ask.session, now) >= FatigueThreshold
                     THEN "fatigue" ELSE "done")
      PROVE  TypeInv' /\ AuthorityChange
  <2>1. caller' \in [Callers -> CallerStates] /\ DetectionsAreNamed'
    BY <1>4, GotoStep DEF CallerPcs
  <2>2. rows \in [ApprovalIds -> ApprovalRows]
    BY <1>1 DEF Retired, ApprovalRows
  <2>3. NewRequest(ask, now) \in ApprovalRows
    BY <1>1, BoundAssumption DEF NewRequest, ApprovalRows
  <2>4. approvals' \in [ApprovalIds -> ApprovalRows]
    BY <1>4, <2>2, <2>3
  <2>5. RequestsRewritten
    <3>1. ASSUME NEW b \in ApprovalIds, b # a
          PROVE  \/ approvals'[b] = approvals[b]
                 \/ approvals[b].status = "pending" /\ approvals'[b].status = "denied"
      <4>1. approvals'[b] = rows[b] /\ approvals[b] \in ApprovalRows
        BY <1>1, <1>4, <2>2, <3>1
      <4> QED
        BY <4>1 DEF Retired, HasStatus, ApprovalRows
    <3>2. approvals'[a].status = "pending"
      BY <1>4, <2>2 DEF NewRequest
    <3> QED
      BY <1>2, <1>4, <3>1, <3>2 DEF RequestsRewritten
  <2> QED
    BY <1>2, <2>1, <2>4, <2>5 DEF TypeInv, TypeOK, AuthorityChange
<1> QED
  BY <1>3, <1>4 DEF InsertRequest

(* The operator's commands.                                                *)
LEMMA OperatorSteps ==
    ASSUME TypeInv, OperatorStep
    PROVE  TypeInv' /\ AuthorityChange
<1>1. /\ wall \in Nat /\ mark \in Nat /\ operator \in Nat \cup {NoReading}
      /\ approvals \in [ApprovalIds -> ApprovalRows] /\ leases \in [ApprovalIds -> LeaseRows]
  BY DEF TypeInv, TypeOK
<1>2. CASE OperatorObserves
  <2>1. AdvancedMark(wall) \in Nat /\ EffectiveNow(wall) \in Nat
    BY <1>1 DEF AdvancedMark, EffectiveNow, MaxOf
  <2> QED
    BY <1>2, <2>1 DEF OperatorObserves, TypeInv, TypeOK, authorityVars, AuthorityChange,
                      Unaffected, DetectionsAreNamed, At
<1>3. CASE DaemonObserves \/ OperatorGivesUp
  BY <1>3 DEF DaemonObserves, OperatorGivesUp, TypeInv, TypeOK, authorityVars,
              AuthorityChange, Unaffected, DetectionsAreNamed, At
<1>4. ASSUME NEW a \in ApprovalIds, NEW uses \in 1..MaxLeaseUses, NEW ttl \in 1..MaxLeaseTtl,
             GrantApproval(a, uses, ttl)
      PROVE  TypeInv' /\ AuthorityChange
  <2>1. operator + ttl \in Nat /\ operator \in Nat
    BY <1>1, <1>4 DEF GrantApproval, NoReading
  <2>2. leases' \in [ApprovalIds -> LeaseRows]
    BY <1>1, <1>4, <2>1 DEF GrantApproval, LeaseRows
  <2>3. approvals' \in [ApprovalIds -> ApprovalRows]
    BY <1>1, <1>4 DEF GrantApproval, ApprovalRows
  <2>4. RequestGranted(a)
    BY <1>4, <2>1 DEF GrantApproval, Grantable, RequestGranted
  <2> QED
    BY <1>4, <2>2, <2>3, <2>4 DEF GrantApproval, TypeInv, TypeOK, AuthorityChange,
                                  DetectionsAreNamed, At
<1>5. ASSUME NEW a \in ApprovalIds, DenyApproval(a)
      PROVE  TypeInv' /\ AuthorityChange
  <2>1. approvals' \in [ApprovalIds -> ApprovalRows]
    BY <1>1, <1>5 DEF DenyApproval, ApprovalRows
  <2>2. RequestDecided(a)
    BY <1>5 DEF DenyApproval, RequestDecided
  <2> QED
    BY <1>5, <2>1, <2>2 DEF DenyApproval, TypeInv, TypeOK, AuthorityChange,
                            DetectionsAreNamed, At
<1> QED
  BY <1>2, <1>3, <1>4, <1>5 DEF OperatorStep

(* `vigil contain`.                                                        *)
LEMMA ResponderSteps ==
    ASSUME TypeInv, NEW o \in Responders, ResponderStep(o)
    PROVE  TypeInv' /\ AuthorityChange
<1>1. /\ responder \in [Responders -> ResponderStates] /\ responder[o] \in ResponderStates
      /\ responder[o].session \in Sessions /\ responder[o].target \in {Contained, Quarantined}
      /\ responder[o].risk \in RiskStates
      /\ risk \in [Sessions -> RiskStates] /\ status \in [Sessions -> {"running", "sealed"}]
      /\ leases \in [ApprovalIds -> LeaseRows] /\ TypeOK
  BY DEF TypeInv, TypeOK, ResponderStates
<1>2. ASSUME NEW pc \in ResponderPcs \cup {"done"}, RGoto(o, pc)
      PROVE  responder' \in [Responders -> ResponderStates]
  BY <1>1, <1>2, IdleType DEF RGoto, ResponderStates
<1>3. ASSUME NEW s \in Sessions, NEW target \in {Contained, Quarantined}, NEW seal \in BOOLEAN,
             Contain(o, s, target, seal)
      PROVE  TypeInv' /\ AuthorityChange
  <2> DEFINE r == [IdleResponder EXCEPT !.pc = "revoke", !.session = s, !.target = target,
                                        !.seal = seal]
  <2>1. r \in ResponderStates
    BY IdleType DEF ResponderStates, ResponderPcs
  <2>2. responder' = [responder EXCEPT ![o] = r]
    BY <1>3 DEF Contain
  <2>3. responder' \in [Responders -> ResponderStates]
    <3> HIDE DEF r
    <3> QED BY <1>1, <2>1, <2>2
  <2> QED
    BY <1>3, <2>3 DEF Contain, TypeInv, TypeOK, authorityVars, AuthorityChange, Unaffected,
                      DetectionsAreNamed, At
<1>4. CASE RevokeCapabilities(o)
  <2>1. responder' \in [Responders -> ResponderStates]
    BY <1>2, <1>4 DEF RevokeCapabilities, ResponderPcs
  <2>2. leases' \in [ApprovalIds -> LeaseRows] /\ LeasesRevoked(responder[o].session)
    BY <1>1, <1>4, RevokeType DEF RevokeCapabilities, LeasesRevoked
  <2> QED
    BY <1>1, <1>4, <2>1, <2>2 DEF RevokeCapabilities, TypeInv, TypeOK, AuthorityChange,
                                  DetectionsAreNamed, At
<1>5. CASE RaiseRisk(o)
  <2>1. responder' \in [Responders -> ResponderStates]
    BY <1>2, <1>5 DEF RaiseRisk, ResponderPcs
  <2>2. /\ RiskRises(responder[o].session)
        /\ risk' \in [Sessions -> RiskStates]
        /\ UNCHANGED <<scores, status>>
    BY <1>1, <1>5, EscalationStep DEF RaiseRisk
  <2>3. leases' \in [ApprovalIds -> LeaseRows] /\ approvals' = approvals /\ spent' = spent
    BY <1>1, <2>2, RevokeType DEF RiskRises
  <2> QED
    BY <1>1, <1>5, <2>1, <2>2, <2>3 DEF RaiseRisk, TypeInv, TypeOK, AuthorityChange,
                                        DetectionsAreNamed, At
<1>6. CASE SealChecks(o) \/ ResponderDies(o)
  <2>1. responder' \in [Responders -> ResponderStates]
    BY <1>2, <1>6 DEF SealChecks, ResponderDies, ResponderPcs
  <2> QED
    BY <1>6, <2>1 DEF SealChecks, ResponderDies, TypeInv, TypeOK, authorityVars,
                      AuthorityChange, Unaffected, DetectionsAreNamed, At
<1>7. CASE SealReads(o)
  <2>1. responder' \in [Responders -> ResponderStates]
    BY <1>1, <1>7 DEF SealReads, ResponderStates, ResponderPcs
  <2> QED
    BY <1>7, <2>1 DEF SealReads, TypeInv, TypeOK, authorityVars, AuthorityChange,
                      Unaffected, DetectionsAreNamed, At
<1>8. CASE SealSession(o)
  <2>1. responder' \in [Responders -> ResponderStates]
    BY <1>2, <1>8 DEF SealSession, ResponderPcs
  <2>2. risk' \in [Sessions -> RiskStates] /\ status' \in [Sessions -> {"running", "sealed"}]
    BY <1>1, <1>8 DEF SealSession
  <2>3. RiskWrittenBack(o)
    BY <1>8 DEF SealSession, RiskWrittenBack, RAt
  <2> QED
    BY <1>8, <2>1, <2>2, <2>3 DEF SealSession, TypeInv, TypeOK, AuthorityChange,
                                  DetectionsAreNamed, At
<1> QED
  BY <1>3, <1>4, <1>5, <1>6, <1>7, <1>8 DEF ResponderStep

(* Every step of the specification.                                        *)
LEMMA StepClassified ==
    ASSUME TypeInv, [Next]_vars
    PROVE  TypeInv' /\ AuthorityChange
<1>1. CASE ClockMoves
  <2>1. wall' \in Nat
    BY <1>1, BoundAssumption DEF ClockMoves, Times
  <2> QED
    BY <1>1, <2>1 DEF ClockMoves, TypeInv, TypeOK, authorityVars, AuthorityChange,
                      Unaffected, DetectionsAreNamed, At
<1>2. ASSUME NEW p \in Callers, CallerStep(p) PROVE TypeInv' /\ AuthorityChange
  BY <1>2, AuthorizeStep, ObserveNowStep, ReadRiskStep, ConsumeLeaseStep, CallerSignalSteps,
     LookupSteps, InsertRequestStep DEF CallerStep
<1>3. CASE OperatorStep
  BY <1>3, OperatorSteps
<1>4. ASSUME NEW o \in Responders, ResponderStep(o) PROVE TypeInv' /\ AuthorityChange
  BY <1>4, ResponderSteps
<1>5. CASE UNCHANGED vars
  BY <1>5 DEF vars, TypeInv, TypeOK, AuthorityChange, Unaffected, DetectionsAreNamed, At
<1> QED
  BY <1>1, <1>2, <1>3, <1>4, <1>5 DEF Next

LEMMA InitTypes == Init => TypeInv
<1> SUFFICES ASSUME Init PROVE TypeInv
  OBVIOUS
<1>1. AbsentApproval \in ApprovalRows /\ AbsentLease \in LeaseRows
  BY IdleType DEF AbsentApproval, AbsentLease, ApprovalRows, LeaseRows
<1>2. wall \in Nat /\ mark \in Nat
  BY BoundAssumption DEF Init, Times
<1>3. TypeOK
  BY <1>1, <1>2, IdleType DEF Init, TypeOK, RiskStates, Normal, Quarantined
<1>4. DetectionsAreNamed
  BY DEF Init, DetectionsAreNamed, At, IdleCaller
<1> QED
  BY <1>3, <1>4 DEF TypeInv

(* Every reachable state of the authority loop is well typed; in           *)
(* particular no interleaving drives the uses of a lease below zero        *)
(* (lease.rs: uses_remaining > 0 is part of the charging statement).       *)
THEOREM TypeCorrect == Spec => []TypeOK
<1>1. Init => TypeInv
  BY InitTypes
<1>2. TypeInv /\ [Next]_vars => TypeInv'
  BY StepClassified
<1>3. TypeInv => TypeOK
  BY DEF TypeInv
<1> QED
  BY <1>1, <1>2, <1>3, PTL DEF Spec

-----------------------------------------------------------------------------
(* Containment and the lease ledger.                                       *)

(* A responder that is about to seal has contained its session, and the    *)
(* risk state it holds was read after that: this is why the stale write    *)
(* can lower QUARANTINED to CONTAINED but cannot release a session.        *)
SealFollowsContainment ==
    \A o \in Responders :
        /\ responder[o].pc \in {"status?", "risk?", "seal"} => RevokesLeases(risk[responder[o].session])
        /\ responder[o].pc = "seal" => RevokesLeases(responder[o].risk)

IInv == TypeInv /\ SealFollowsContainment /\ LeaseLedger /\ ContainedHoldsNoLease

LEMMA RevokingStates ==
    ASSUME NEW r \in RiskStates PROVE RevokesLeases(r) <=> r >= Contained
  BY DEF RiskStates, RevokesLeases, Normal, Contained, Quarantined

(* No kind of change releases a contained session.                         *)
LEMMA ContainmentKept ==
    ASSUME TypeInv, TypeInv', SealFollowsContainment, AuthorityChange, NEW s \in Sessions,
           RevokesLeases(risk[s])
    PROVE  RevokesLeases(risk'[s])
<1>1. risk \in [Sessions -> RiskStates] /\ risk' \in [Sessions -> RiskStates]
  BY DEF TypeInv, TypeOK
<1>2. ASSUME NEW t \in Sessions, RiskRises(t) PROVE RevokesLeases(risk'[s])
  <2>1. risk'[s] >= risk[s]
    <3>1. CASE s = t
      BY <1>2, <3>1 DEF RiskRises
    <3>2. CASE s # t
      <4>1. risk'[s] = risk[s]
        BY <1>1, <1>2, <3>2 DEF RiskRises
      <4> QED BY <1>1, <4>1 DEF RiskStates, Normal, Quarantined
    <3> QED BY <3>1, <3>2
  <2>2. risk[s] >= Contained
    BY <1>1, RevokingStates
  <2> QED
    BY <1>1, <2>1, <2>2, RevokingStates DEF RiskStates, Normal, Quarantined, Contained
<1>3. ASSUME NEW o \in Responders, RiskWrittenBack(o) PROVE RevokesLeases(risk'[s])
  <2>1. RevokesLeases(responder[o].risk)
    BY <1>3 DEF SealFollowsContainment, RiskWrittenBack
  <2> QED
    BY <1>1, <1>3, <2>1 DEF RiskWrittenBack
<1> QED
  BY <1>2, <1>3 DEF AuthorityChange, Unaffected, LeasesRevoked, LeaseCharged, RequestDecided,
                    RequestGranted, RequestsRewritten

(* The ledger balances after every kind of change.                         *)
LEMMA LedgerKept ==
    ASSUME TypeInv, LeaseLedger, AuthorityChange
    PROVE  LeaseLedger'
<1>1. /\ approvals \in [ApprovalIds -> ApprovalRows] /\ leases \in [ApprovalIds -> LeaseRows]
      /\ spent \in [ApprovalIds -> Nat]
  BY DEF TypeInv, TypeOK
<1>2. CASE UNCHANGED <<approvals, leases, spent>>
  BY <1>2 DEF LeaseLedger
<1>3. ASSUME NEW s \in Sessions, leases' = RevokeSession(s), UNCHANGED <<approvals, spent>>
      PROVE  LeaseLedger'
  <2>1. ASSUME NEW a \in ApprovalIds
        PROVE  /\ leases'[a].uses = leases[a].uses /\ leases'[a].max = leases[a].max
               /\ \/ leases'[a].status = leases[a].status
                  \/ leases[a].status = "active" /\ leases'[a].status = "revoked"
    <3>1. leases[a] \in LeaseRows
      BY <1>1
    <3> QED
      BY <1>3, <3>1 DEF RevokeSession, LeaseRows
  <2> QED
    BY <1>3, <2>1 DEF LeaseLedger
<1>4. ASSUME NEW a \in ApprovalIds, LeaseCharged(a) PROVE LeaseLedger'
  <2>1. /\ leases'[a].uses = leases[a].uses - 1 /\ leases'[a].max = leases[a].max
        /\ leases'[a].status = IF leases[a].uses = 1 THEN "exhausted" ELSE "active"
        /\ spent'[a] = spent[a] + 1
    BY <1>1, <1>4 DEF LeaseCharged, Charge, LeaseRows
  <2>2. \A b \in ApprovalIds : b # a => leases'[b] = leases[b] /\ spent'[b] = spent[b]
    BY <1>1, <1>4 DEF LeaseCharged, Charge
  <2>3. approvals' = approvals /\ leases[a].status = "active" /\ leases[a].uses > 0
    BY <1>4 DEF LeaseCharged
  <2>4. leases[a].uses \in Nat /\ leases[a].max \in Nat /\ spent[a] \in Nat
    BY <1>1 DEF LeaseRows
  <2>5. ASSUME NEW b \in ApprovalIds, b # a
        PROVE  /\ leases'[b] = leases[b] /\ spent'[b] = spent[b] /\ approvals'[b] = approvals[b]
    BY <2>2, <2>3, <2>5
  <2> QED
    BY <2>1, <2>3, <2>4, <2>5 DEF LeaseLedger
<1>5. ASSUME NEW a \in ApprovalIds, RequestDecided(a) PROVE LeaseLedger'
  <2>1. /\ approvals'[a].status = "denied" /\ leases' = leases /\ spent' = spent
        /\ approvals[a].status = "pending"
        /\ \A b \in ApprovalIds : b # a => approvals'[b] = approvals[b]
    BY <1>1, <1>5 DEF RequestDecided, ApprovalRows
  <2> QED
    BY <2>1 DEF LeaseLedger
<1>6. ASSUME NEW a \in ApprovalIds, RequestGranted(a) PROVE LeaseLedger'
  <2>1. PICK uses \in 1..MaxLeaseUses, expires \in Nat :
            leases' = [leases EXCEPT ![a] = [status |-> "active", uses |-> uses, max |-> uses,
                                             expires |-> expires]]
    BY <1>6 DEF RequestGranted
  <2>2. /\ approvals[a].status = "pending" /\ spent' = spent
        /\ approvals'[a].status = "granted" /\ approvals'[a].human
        /\ \A b \in ApprovalIds : b # a => approvals'[b] = approvals[b] /\ leases'[b] = leases[b]
    BY <1>1, <1>6, <2>1 DEF RequestGranted, ApprovalRows
  <2>3. /\ leases'[a].status = "active" /\ leases'[a].uses = uses /\ leases'[a].max = uses
    BY <1>1, <2>1
  <2>4. leases[a].status = "absent" /\ leases[a].max = 0 /\ spent[a] + leases[a].uses = 0
    BY <2>2 DEF LeaseLedger
  <2>5. spent[a] = 0
    BY <1>1, <2>4 DEF LeaseRows
  <2> QED
    BY <1>1, <2>2, <2>3, <2>5 DEF LeaseLedger
<1>7. CASE RequestsRewritten
  BY <1>7 DEF RequestsRewritten, LeaseLedger
<1> QED
  BY <1>2, <1>3, <1>4, <1>5, <1>6, <1>7 DEF AuthorityChange, Unaffected, RiskRises,
     LeasesRevoked, RiskWrittenBack

(* A contained session holds no lease after any kind of change.            *)
LEMMA NoLeaseKept ==
    ASSUME IInv, TypeInv', AuthorityChange
    PROVE  ContainedHoldsNoLease'
<1>1. /\ approvals \in [ApprovalIds -> ApprovalRows] /\ leases \in [ApprovalIds -> LeaseRows]
      /\ risk \in [Sessions -> RiskStates] /\ risk' \in [Sessions -> RiskStates]
      /\ \A a \in ApprovalIds : LeaseSession(a) \in Sessions
  BY AskAssumption DEF IInv, TypeInv, TypeOK, LeaseSession, ApprovalRows, AskRecords
<1> SUFFICES ASSUME NEW a \in ApprovalIds, leases'[a].status = "active",
                    RevokesLeases(risk'[approvals'[a].ask.session])
             PROVE  FALSE
  BY DEF ContainedHoldsNoLease, LeaseSession
<1>2. ASSUME approvals'[a] = approvals[a], leases'[a] = leases[a] \/ leases[a].status = "active",
             risk' = risk
      PROVE  FALSE
  BY <1>2 DEF IInv, ContainedHoldsNoLease, LeaseSession
<1>3. ASSUME NEW s \in Sessions, RiskRises(s) PROVE FALSE
  <2>1. leases[a].status = "active" /\ approvals'[a] = approvals[a]
    BY <1>1, <1>3 DEF RiskRises, RevokeSession, LeaseRows
  <2>2. ~RevokesLeases(risk[LeaseSession(a)])
    BY <2>1 DEF IInv, ContainedHoldsNoLease
  <2>3. LeaseSession(a) = s
    BY <1>1, <1>3, <2>1, <2>2 DEF RiskRises, LeaseSession
  <2>4. risk'[s] # risk[s] /\ RevokesLeases(risk'[s])
    BY <2>1, <2>2, <2>3 DEF LeaseSession
  <2>5. leases'[a].status = "revoked"
    BY <1>1, <1>3, <2>1, <2>3, <2>4 DEF RiskRises, RevokeSession, LeaseRows
  <2> QED
    BY <2>5
<1>4. ASSUME NEW s \in Sessions, LeasesRevoked(s) PROVE FALSE
  <2>1. leases[a].status = "active"
    BY <1>1, <1>4 DEF LeasesRevoked, RevokeSession, LeaseRows
  <2> QED
    BY <1>2, <1>4, <2>1 DEF LeasesRevoked
<1>5. ASSUME NEW b \in ApprovalIds, LeaseCharged(b) PROVE FALSE
  <2>1. leases'[a] = leases[a] \/ leases[a].status = "active"
    BY <1>1, <1>5 DEF LeaseCharged, Charge
  <2> QED
    BY <1>2, <1>5, <2>1 DEF LeaseCharged
<1>6. ASSUME NEW b \in ApprovalIds, RequestDecided(b) PROVE FALSE
  <2>1. leases' = leases /\ risk' = risk /\ approvals'[a].ask = approvals[a].ask
    BY <1>1, <1>6 DEF RequestDecided, ApprovalRows
  <2> QED
    BY <2>1 DEF IInv, ContainedHoldsNoLease, LeaseSession
<1>7. ASSUME NEW b \in ApprovalIds, RequestGranted(b) PROVE FALSE
  <2>1. risk' = risk /\ approvals'[a].ask = approvals[a].ask
    BY <1>1, <1>7 DEF RequestGranted, ApprovalRows
  <2>2. CASE a = b
    BY <1>7, <2>1, <2>2 DEF RequestGranted, LeaseSession
  <2>3. CASE a # b
    <3>1. leases'[a] = leases[a]
      BY <1>1, <1>7, <2>3 DEF RequestGranted
    <3> QED
      BY <2>1, <3>1 DEF IInv, ContainedHoldsNoLease, LeaseSession
  <2> QED
    BY <2>2, <2>3
<1>8. ASSUME RequestsRewritten PROVE FALSE
  <2>1. approvals[a].status = "granted"
    BY <1>8 DEF RequestsRewritten, IInv, LeaseLedger
  <2>2. approvals'[a] = approvals[a]
    BY <1>8, <2>1 DEF RequestsRewritten
  <2> QED
    BY <1>2, <1>8, <2>2 DEF RequestsRewritten
<1>9. ASSUME NEW o \in Responders, RiskWrittenBack(o) PROVE FALSE
  <2>1. RevokesLeases(risk[responder[o].session]) /\ responder[o].session \in Sessions
    BY <1>9 DEF IInv, TypeInv, TypeOK, ResponderStates, SealFollowsContainment, RiskWrittenBack
  <2>2. RevokesLeases(risk[LeaseSession(a)])
    BY <1>1, <1>9, <2>1 DEF RiskWrittenBack, LeaseSession
  <2> QED
    BY <1>9, <2>2 DEF IInv, ContainedHoldsNoLease, RiskWrittenBack
<1>10. CASE Unaffected
  BY <1>2, <1>10 DEF Unaffected
<1> QED
  BY <1>3, <1>4, <1>5, <1>6, <1>7, <1>8, <1>9, <1>10 DEF AuthorityChange

(* Responders contain before they seal.                                    *)
LEMMA SealOrderKept ==
    ASSUME IInv, TypeInv', AuthorityChange, [Next]_vars
    PROVE  SealFollowsContainment'
<1>1. /\ responder \in [Responders -> ResponderStates]
      /\ \A o \in Responders : /\ responder[o].session \in Sessions
                               /\ responder[o].target \in {Contained, Quarantined}
      /\ TypeInv /\ TypeOK /\ SealFollowsContainment
  BY DEF IInv, TypeInv, TypeOK, ResponderStates
<1>2. \A s \in Sessions : RevokesLeases(risk[s]) => RevokesLeases(risk'[s])
  BY <1>1, ContainmentKept
<1>3. CASE UNCHANGED responder
  BY <1>1, <1>2, <1>3 DEF SealFollowsContainment
<1>4. ASSUME NEW o \in Responders, ResponderStep(o) PROVE SealFollowsContainment'
  <2>1. \A q \in Responders : q # o => responder'[q] = responder[q]
    BY <1>1, <1>4 DEF ResponderStep, Contain, RevokeCapabilities, RaiseRisk, SealChecks,
       SealReads, SealSession, ResponderDies, RGoto
  <2>2. /\ responder'[o].pc \in {"status?", "risk?", "seal"}
             => RevokesLeases(risk'[responder'[o].session])
        /\ responder'[o].pc = "seal" => RevokesLeases(responder'[o].risk)
    <3>1. ASSUME NEW pc, RGoto(o, pc)
          PROVE  /\ pc = "done" => responder'[o].pc = "idle"
                 /\ pc # "done" => /\ responder'[o].pc = pc
                                   /\ responder'[o].session = responder[o].session
                                   /\ responder'[o].risk = responder[o].risk
      BY <1>1, <3>1 DEF RGoto, IdleResponder, ResponderStates
    <3>2. CASE \E s \in Sessions, target \in {Contained, Quarantined}, seal \in BOOLEAN :
                  Contain(o, s, target, seal)
      <4>1. responder'[o].pc = "revoke"
        BY <1>1, <3>2 DEF Contain, IdleResponder
      <4> QED BY <4>1
    <3>3. CASE RevokeCapabilities(o)
      BY <3>1, <3>3 DEF RevokeCapabilities
    <3>4. CASE RaiseRisk(o)
      <4>1. RevokesLeases(risk'[responder[o].session])
        BY <1>1, <3>4, EscalationStep DEF RaiseRisk
      <4> QED
        BY <3>1, <3>4, <4>1 DEF RaiseRisk
    <3>5. CASE SealChecks(o)
      BY <1>1, <1>2, <3>1, <3>5 DEF SealChecks, SealFollowsContainment, RAt
    <3>6. CASE SealReads(o)
      <4>1. /\ responder'[o].session = responder[o].session
            /\ responder'[o].risk = risk[responder[o].session]
        BY <1>1, <3>6 DEF SealReads, ResponderStates
      <4>2. RevokesLeases(risk[responder[o].session])
        BY <1>1, <3>6 DEF SealReads, SealFollowsContainment, RAt
      <4> QED
        BY <1>1, <1>2, <4>1, <4>2
    <3>7. CASE SealSession(o) \/ ResponderDies(o)
      BY <3>1, <3>7 DEF SealSession, ResponderDies
    <3> QED
      BY <1>4, <3>2, <3>3, <3>4, <3>5, <3>6, <3>7 DEF ResponderStep
  <2>3. ASSUME NEW q \in Responders, q # o
        PROVE  /\ responder'[q].pc \in {"status?", "risk?", "seal"}
                    => RevokesLeases(risk'[responder'[q].session])
               /\ responder'[q].pc = "seal" => RevokesLeases(responder'[q].risk)
    BY <1>1, <1>2, <2>1, <2>3 DEF SealFollowsContainment
  <2> QED
    BY <2>2, <2>3 DEF SealFollowsContainment
<1>5. UNCHANGED responder \/ \E o \in Responders : ResponderStep(o)
  BY DEF Next, vars, ClockMoves, CallerStep, Authorize, ObserveNow, ReportRegression, ReadRisk,
     ConsumeLease, TouchCanary, FireDetection, FindDenied, Probe, FindPending, InsertRequest,
     Fatigue, CallerDies, OperatorStep, OperatorObserves, DaemonObserves, OperatorGivesUp,
     GrantApproval, DenyApproval
<1> QED
  BY <1>3, <1>4, <1>5

LEMMA InitInv == Init => IInv
<1> SUFFICES ASSUME Init PROVE IInv
  OBVIOUS
<1>1. TypeInv
  BY InitTypes
<1>2. SealFollowsContainment
  BY DEF Init, SealFollowsContainment, IdleResponder
<1>3. LeaseLedger /\ ContainedHoldsNoLease
  BY DEF Init, LeaseLedger, ContainedHoldsNoLease, AbsentLease, AbsentApproval
<1> QED
  BY <1>1, <1>2, <1>3 DEF IInv

LEMMA StepInv == IInv /\ [Next]_vars => IInv'
<1> SUFFICES ASSUME IInv, [Next]_vars PROVE IInv'
  OBVIOUS
<1>1. TypeInv' /\ AuthorityChange
  BY StepClassified DEF IInv
<1> QED
  BY <1>1, SealOrderKept, LedgerKept, NoLeaseKept DEF IInv

(* The inductive invariant of the authority loop.                          *)
THEOREM AuthorityInvariant == Spec => []IInv
  BY InitInv, StepInv, PTL DEF Spec

(* No lease of a contained session is active, in any reachable state       *)
(* (risk.rs, lease.rs, approval.rs).                                       *)
THEOREM ContainedSessionsHoldNothing == Spec => []ContainedHoldsNoLease
<1>1. IInv => ContainedHoldsNoLease
  BY DEF IInv
<1> QED
  BY <1>1, AuthorityInvariant, PTL

(* What was spent and what is left of every lease is what was granted, and *)
(* a lease stands behind exactly the requests a human granted (lease.rs    *)
(* consume_leases_atomically, approval.rs grant_approval).                 *)
THEOREM LedgerBalances == Spec => []LeaseLedger
<1>1. IInv => LeaseLedger
  BY DEF IInv
<1> QED
  BY <1>1, AuthorityInvariant, PTL

(* Containment is permanent, the seal's stale write notwithstanding        *)
(* (incident.rs apply_response, store.rs seal_session).                    *)
THEOREM ContainmentIsPermanent == Spec => ContainmentSticks
<1>1. IInv /\ [Next]_vars => [\A s \in Sessions : RevokesLeases(risk[s]) => RevokesLeases(risk'[s])]_vars
  BY StepClassified, ContainmentKept DEF IInv
<1> QED
  BY <1>1, AuthorityInvariant, PTL DEF Spec, ContainmentSticks

(* A use is only ever spent while its session is uncontained, however old  *)
(* the risk state the spending caller read (risk.rs record_risk_signal).   *)
THEOREM ContainmentStopsSpending == Spec => ContainedSpendsNothing
<1>1. ASSUME IInv, [Next]_vars, NEW a \in ApprovalIds, spent'[a] # spent[a]
      PROVE  ~RevokesLeases(risk[LeaseSession(a)])
  <2>1. AuthorityChange
    BY <1>1, StepClassified DEF IInv
  <2>2. PICK b \in ApprovalIds : LeaseCharged(b)
    BY <1>1, <2>1 DEF AuthorityChange, Unaffected, RiskRises, LeasesRevoked, RequestDecided,
       RequestGranted, RequestsRewritten, RiskWrittenBack
  <2>3. a = b
    BY <1>1, <2>2 DEF LeaseCharged, Charge, IInv, TypeInv, TypeOK
  <2> QED
    BY <1>1, <2>2, <2>3 DEF LeaseCharged, IInv, ContainedHoldsNoLease
<1>2. IInv /\ [Next]_vars => [\A a \in ApprovalIds :
          spent'[a] # spent[a] => ~RevokesLeases(risk[LeaseSession(a)])]_vars
  BY <1>1
<1> QED
  BY <1>2, AuthorityInvariant, PTL DEF Spec, ContainedSpendsNothing

-----------------------------------------------------------------------------
(* The refinement.                                                         *)

LEMMA InitRefines == Init => Human!Init
<1> SUFFICES ASSUME Init PROVE Human!Init
  OBVIOUS
<1>1. HolderOf = [g \in ApprovalIds |-> NoOne] /\ CreditOf = [g \in ApprovalIds |-> 0]
  BY DEF Init, HolderOf, CreditOf, AbsentApproval, AbsentLease
<1>2. ContainedSessions = {}
  BY DEF Init, ContainedSessions, RevokesLeases, Normal, Contained, Quarantined
<1> QED
  BY <1>1, <1>2 DEF Init, Human!Init

(* Emptying a session's credits is revoking its leases.                    *)
LEMMA RevokedCredit ==
    ASSUME IInv, NEW s \in Sessions, leases' = RevokeSession(s), approvals' = approvals
    PROVE  CreditOf' = Human!Emptied(s)
<1>1. approvals \in [ApprovalIds -> ApprovalRows] /\ leases \in [ApprovalIds -> LeaseRows]
  BY DEF IInv, TypeInv, TypeOK
<1>2. ASSUME NEW a \in ApprovalIds
      PROVE  (IF leases'[a].status = "active" THEN leases'[a].uses ELSE 0)
                = (IF HolderOf[a] = s THEN 0 ELSE CreditOf[a])
  <2>1. leases[a] \in LeaseRows /\ HolderOf[a] = (IF approvals[a].status = "granted" THEN LeaseSession(a) ELSE NoOne)
    BY <1>1 DEF HolderOf
  <2>2. CreditOf[a] = IF leases[a].status = "active" THEN leases[a].uses ELSE 0
    BY DEF CreditOf
  <2>3. leases'[a] = IF leases[a].status = "active" /\ LeaseSession(a) = s
                     THEN [leases[a] EXCEPT !.status = "revoked"] ELSE leases[a]
    BY DEF RevokeSession
  <2>4. leases[a].status = "active" => approvals[a].status = "granted"
    BY DEF IInv, LeaseLedger
  <2>5. CASE leases[a].status = "active" /\ LeaseSession(a) = s
    BY <2>1, <2>2, <2>3, <2>4, <2>5 DEF LeaseRows
  <2>6. CASE leases[a].status = "active" /\ LeaseSession(a) # s
    BY <2>1, <2>2, <2>3, <2>4, <2>6
  <2>7. CASE leases[a].status # "active"
    BY <2>1, <2>2, <2>3, <2>7
  <2> QED
    BY <2>5, <2>6, <2>7
<1> QED
  BY <1>2 DEF CreditOf, Human!Emptied

LEMMA StepRefines ==
    ASSUME IInv, TypeInv', AuthorityChange
    PROVE  [Human!Next]_(Human!vars)
<1>1. /\ approvals \in [ApprovalIds -> ApprovalRows] /\ leases \in [ApprovalIds -> LeaseRows]
      /\ spent \in [ApprovalIds -> Nat]
      /\ risk \in [Sessions -> RiskStates] /\ risk' \in [Sessions -> RiskStates]
      /\ \A a \in ApprovalIds : LeaseSession(a) \in Sessions
  BY AskAssumption DEF IInv, TypeInv, TypeOK, LeaseSession, ApprovalRows, AskRecords
<1>2. ASSUME HolderOf' = HolderOf, CreditOf' = CreditOf, ContainedSessions' = ContainedSessions,
             spent' = spent
      PROVE  [Human!Next]_(Human!vars)
  BY <1>2 DEF Human!vars
<1>3. CASE Unaffected
  BY <1>2, <1>3 DEF Unaffected, HolderOf, CreditOf, ContainedSessions, LeaseSession
<1>4. ASSUME NEW s \in Sessions, RiskRises(s) PROVE [Human!Next]_(Human!vars)
  <2>1. HolderOf' = HolderOf /\ spent' = spent /\ approvals' = approvals
    BY <1>4 DEF RiskRises, HolderOf, LeaseSession
  <2>2. \A t \in Sessions : t # s => risk'[t] = risk[t]
    BY <1>1, <1>4 DEF RiskRises
  <2>3. CASE risk'[s] # risk[s] /\ RevokesLeases(risk'[s])
    <3>1. CreditOf' = Human!Emptied(s)
      BY <1>4, <2>3, RevokedCredit DEF RiskRises
    <3>2. ContainedSessions' = ContainedSessions \cup {s}
      BY <2>2, <2>3 DEF ContainedSessions
    <3> QED
      BY <2>1, <3>1, <3>2 DEF Human!Next, Human!Contain
  <2>4. CASE risk'[s] = risk[s] \/ ~RevokesLeases(risk'[s])
    <3>1. leases' = leases
      BY <1>4, <2>4 DEF RiskRises
    <3>2. RevokesLeases(risk'[s]) <=> RevokesLeases(risk[s])
      <4>1. risk'[s] >= risk[s]
        BY <1>4 DEF RiskRises
      <4>2. /\ RevokesLeases(risk'[s]) <=> risk'[s] >= Contained
            /\ RevokesLeases(risk[s]) <=> risk[s] >= Contained
        BY <1>1, RevokingStates
      <4> QED
        BY <1>1, <2>4, <4>1, <4>2 DEF RiskStates, Normal, Quarantined, Contained
    <3>3. ContainedSessions' = ContainedSessions
      BY <2>2, <3>2 DEF ContainedSessions
    <3>4. CreditOf' = CreditOf
      BY <3>1 DEF CreditOf
    <3> QED
      BY <1>2, <2>1, <3>3, <3>4
  <2> QED
    BY <2>3, <2>4
<1>5. ASSUME NEW s \in Sessions, LeasesRevoked(s) PROVE [Human!Next]_(Human!vars)
  <2>1. CreditOf' = Human!Emptied(s)
    BY <1>5, RevokedCredit DEF LeasesRevoked
  <2>2. HolderOf' = HolderOf /\ ContainedSessions' = ContainedSessions /\ spent' = spent
    BY <1>5 DEF LeasesRevoked, HolderOf, ContainedSessions, LeaseSession
  <2> QED
    BY <2>1, <2>2 DEF Human!Next, Human!Withdraw
<1>6. ASSUME NEW a \in ApprovalIds, LeaseCharged(a) PROVE [Human!Next]_(Human!vars)
  <2>1. leases[a].status = "active" /\ leases[a].uses > 0 /\ leases[a].uses \in Nat
    BY <1>1, <1>6 DEF LeaseCharged, LeaseRows
  <2>2. HolderOf' = HolderOf /\ ContainedSessions' = ContainedSessions
    BY <1>6 DEF LeaseCharged, HolderOf, ContainedSessions, LeaseSession
  <2>3. CreditOf[a] > 0
    BY <2>1 DEF CreditOf
  <2>4. HolderOf[a] \notin ContainedSessions
    <3>1. HolderOf[a] = LeaseSession(a)
      BY <2>1 DEF HolderOf, IInv, LeaseLedger
    <3> QED
      BY <2>1, <3>1 DEF ContainedSessions, IInv, ContainedHoldsNoLease
  <2>5. /\ leases'[a].uses = leases[a].uses - 1
        /\ leases'[a].status = IF leases[a].uses = 1 THEN "exhausted" ELSE "active"
        /\ \A b \in ApprovalIds : b # a => leases'[b] = leases[b]
        /\ spent' = [spent EXCEPT ![a] = spent[a] + 1]
    BY <1>1, <1>6 DEF LeaseCharged, Charge, LeaseRows
  <2>6. CreditOf' = [CreditOf EXCEPT ![a] = CreditOf[a] - 1]
    <3>1. ASSUME NEW b \in ApprovalIds, b # a
          PROVE  (IF leases'[b].status = "active" THEN leases'[b].uses ELSE 0) = CreditOf[b]
      BY <2>5, <3>1 DEF CreditOf
    <3>2. (IF leases'[a].status = "active" THEN leases'[a].uses ELSE 0) = CreditOf[a] - 1
      <4>1. CreditOf[a] = leases[a].uses
        BY <2>1 DEF CreditOf
      <4> QED
        BY <2>1, <2>5, <4>1
    <3> QED
      BY <3>1, <3>2 DEF CreditOf
  <2>7. Human!Spend(a)
    BY <2>2, <2>3, <2>4, <2>5, <2>6 DEF Human!Spend
  <2> QED
    BY <2>7 DEF Human!Next
<1>7. ASSUME NEW a \in ApprovalIds, RequestDecided(a) PROVE [Human!Next]_(Human!vars)
  <2>1. /\ approvals[a].status = "pending" /\ approvals'[a].status = "denied"
        /\ \A b \in ApprovalIds : b # a => approvals'[b] = approvals[b]
    BY <1>1, <1>7 DEF RequestDecided, ApprovalRows
  <2>2. HolderOf' = HolderOf
    BY <2>1 DEF HolderOf, LeaseSession
  <2> QED
    BY <1>2, <1>7, <2>2 DEF RequestDecided, CreditOf, ContainedSessions
<1>8. ASSUME NEW a \in ApprovalIds, RequestGranted(a) PROVE [Human!Next]_(Human!vars)
  <2>1. PICK uses \in 1..MaxLeaseUses, expires \in Nat :
            leases' = [leases EXCEPT ![a] = [status |-> "active", uses |-> uses, max |-> uses,
                                             expires |-> expires]]
    BY <1>8 DEF RequestGranted
  <2>2. /\ approvals[a].status = "pending" /\ spent' = spent /\ risk' = risk
        /\ ~RevokesLeases(risk[LeaseSession(a)])
        /\ approvals'[a].status = "granted" /\ approvals'[a].ask = approvals[a].ask
        /\ \A b \in ApprovalIds : b # a => approvals'[b] = approvals[b] /\ leases'[b] = leases[b]
    BY <1>1, <1>8, <2>1 DEF RequestGranted, ApprovalRows
  <2>3. leases'[a].status = "active" /\ leases'[a].uses = uses
    BY <1>1, <2>1
  <2>4. HolderOf[a] = NoOne /\ LeaseSession(a) \notin ContainedSessions
    BY <2>2 DEF HolderOf, ContainedSessions
  <2>5. HolderOf' = [HolderOf EXCEPT ![a] = LeaseSession(a)]
    BY <2>2 DEF HolderOf, LeaseSession
  <2>6. CreditOf' = [CreditOf EXCEPT ![a] = uses]
    BY <2>2, <2>3 DEF CreditOf
  <2>7. ContainedSessions' = ContainedSessions
    BY <2>2 DEF ContainedSessions
  <2>8. Human!Grant(a, LeaseSession(a), uses)
    BY <2>2, <2>4, <2>5, <2>6, <2>7 DEF Human!Grant
  <2> QED
    BY <1>1, <2>8 DEF Human!Next
<1>9. CASE RequestsRewritten
  <2>1. HolderOf' = HolderOf
    <3>1. ASSUME NEW a \in ApprovalIds
          PROVE  (IF approvals'[a].status = "granted" THEN approvals'[a].ask.session ELSE NoOne)
                    = (IF approvals[a].status = "granted" THEN approvals[a].ask.session ELSE NoOne)
      BY <1>9 DEF RequestsRewritten
    <3> QED
      BY <3>1 DEF HolderOf, LeaseSession
  <2> QED
    BY <1>2, <1>9, <2>1 DEF RequestsRewritten, CreditOf, ContainedSessions
<1>10. ASSUME NEW o \in Responders, RiskWrittenBack(o) PROVE [Human!Next]_(Human!vars)
  <2>1. /\ RevokesLeases(risk[responder[o].session]) /\ RevokesLeases(responder[o].risk)
        /\ responder[o].session \in Sessions
    BY <1>10 DEF IInv, TypeInv, TypeOK, ResponderStates, SealFollowsContainment, RiskWrittenBack
  <2>2. \A t \in Sessions : RevokesLeases(risk'[t]) <=> RevokesLeases(risk[t])
    BY <1>1, <1>10, <2>1 DEF RiskWrittenBack
  <2>3. ContainedSessions' = ContainedSessions
    BY <2>2 DEF ContainedSessions
  <2> QED
    BY <1>2, <1>10, <2>3 DEF RiskWrittenBack, HolderOf, CreditOf, LeaseSession
<1> QED
  BY <1>3, <1>4, <1>5, <1>6, <1>7, <1>8, <1>9, <1>10 DEF AuthorityChange

(* The local authority loop implements HumanAuthority: authority comes     *)
(* only from a human's grant, is spent once per use, and is lost for good  *)
(* by containment (authorize.rs, lease.rs, approval.rs, risk.rs,           *)
(* incident.rs).                                                           *)
THEOREM ImplementsHuman == Spec => ImplementsHumanAuthority
<1>1. Init => Human!Init
  BY InitRefines
<1>2. IInv /\ [Next]_vars => [Human!Next]_(Human!vars)
  BY StepClassified, StepRefines DEF IInv
<1> QED
  BY <1>1, <1>2, AuthorityInvariant, PTL DEF Spec, ImplementsHumanAuthority, Human!Spec

-----------------------------------------------------------------------------
(***************************************************************************)
(* Proofs about the requests of a session: what the interleaved            *)
(* lookups and inserts of request_approval may do to the questions put to  *)
(* a human, and what the monotone clock guarantees a caller that spends.   *)
(*                                                                         *)
(* The argument.  Requests change in three ways only (RequestChange): an   *)
(* operator decides a pending one, a caller inserts one after retiring the *)
(* expired, or nothing happens.  In none of them is a refusal undone, so a *)
(* caller that began under a refusal still finds it in FindDenied and is   *)
(* never seen beyond (AskersKnowOfNoRefusal).  The mark only advances, so  *)
(* the reading a caller spends by is at least the mark it began under      *)
(* (ReadingsReachFloor).                                                   *)
(***************************************************************************)

(* A caller that began after its ask was refused finds that refusal still  *)
(* standing.                                                               *)
RefusalsStand ==
    \A p \in Callers : caller[p].refused => FindByFingerprint(caller[p].ask, "denied")

(* No caller past the lookup of refusals began under one.                  *)
AskersKnowOfNoRefusal ==
    \A p \in Callers : caller[p].pc \in {"pending?", "insert"} => ~caller[p].refused

(* The reading of a caller past observe_now is no earlier than the mark it *)
(* began under, and until then that mark has not been overtaken.           *)
ReadingsReachFloor ==
    \A p \in Callers :
        /\ caller[p].floor <= mark
        /\ caller[p].pc \notin {"idle", "clock"} => caller[p].floor <= caller[p].now

RInv ==
    /\ TypeInv
    /\ OneLiveRequest
    /\ RefusalsStand
    /\ AskersKnowOfNoRefusal
    /\ ReadingsReachFloor

-----------------------------------------------------------------------------
(* What a step may do to the requests, the mark and the callers.           *)

Decided(a, verdict) ==
    /\ approvals[a].status = "pending"
    /\ approvals' = [approvals EXCEPT ![a].status = verdict, ![a].human = TRUE]

Inserted(p, a) ==
    /\ ~LiveRow(Retired(caller[p].ask, caller[p].now), caller[p].ask)
    /\ approvals[a].status = "absent"
    /\ approvals' = [Retired(caller[p].ask, caller[p].now) EXCEPT
                        ![a] = NewRequest(caller[p].ask, caller[p].now)]

RequestChange ==
    \/ approvals' = approvals
    \/ \E a \in ApprovalIds : Decided(a, "granted") \/ Decided(a, "denied")
    \/ \E p \in Callers, a \in ApprovalIds : Inserted(p, a)

(* Only a caller's own step moves it, and only its lease step spends.      *)
LEMMA CallersOwnStep ==
    ASSUME [Next]_vars
    PROVE  \/ \E p \in Callers : CallerStep(p)
           \/ caller' = caller /\ spent' = spent
<1>1. CASE ClockMoves
  BY <1>1 DEF ClockMoves, authorityVars
<1>2. CASE OperatorStep
  BY <1>2 DEF OperatorStep, OperatorObserves, DaemonObserves, OperatorGivesUp, GrantApproval,
     DenyApproval, authorityVars
<1>3. ASSUME NEW o \in Responders, ResponderStep(o) PROVE caller' = caller /\ spent' = spent
  BY <1>3 DEF ResponderStep, Contain, RevokeCapabilities, RaiseRisk, SealChecks, SealReads,
     SealSession, ResponderDies, EscalateRiskTo, authorityVars
<1>4. CASE UNCHANGED vars
  BY <1>4 DEF vars
<1> QED
  BY <1>1, <1>2, <1>3, <1>4 DEF Next

(* The mark never goes back (clock.rs observe_now).                        *)
LEMMA MarkAdvances ==
    ASSUME TypeOK, [Next]_vars
    PROVE  mark \in Nat /\ mark' \in Nat /\ mark' >= mark
<1>1. ASSUME NEW w \in Nat PROVE AdvancedMark(w) \in Nat /\ AdvancedMark(w) >= mark
  BY <1>1, BoundAssumption DEF AdvancedMark, TypeOK
<1>2. ASSUME NEW p \in Callers, CallerStep(p)
      PROVE  mark' = mark \/ mark' = AdvancedMark(caller[p].now)
  BY <1>2 DEF CallerStep, Authorize, ObserveNow, ReportRegression, ReadRisk, ConsumeLease,
     TouchCanary, FireDetection, FindDenied, Probe, FindPending, InsertRequest, Fatigue, CallerDies
<1>3. CASE OperatorStep
  <2>1. mark' = mark \/ mark' = AdvancedMark(wall)
    BY <1>3 DEF OperatorStep, OperatorObserves, DaemonObserves, OperatorGivesUp, GrantApproval,
       DenyApproval
  <2> QED
    BY <1>1, <2>1 DEF TypeOK
<1>4. ASSUME NEW o \in Responders, ResponderStep(o) PROVE mark' = mark
  BY <1>4 DEF ResponderStep, Contain, RevokeCapabilities, RaiseRisk, SealChecks, SealReads,
     SealSession, ResponderDies
<1>5. ClockMoves \/ UNCHANGED vars => mark' = mark
  BY DEF ClockMoves, vars
<1>6. mark \in Nat
  BY DEF TypeOK
<1>7. ASSUME NEW p \in Callers, CallerStep(p) PROVE mark' \in Nat /\ mark' >= mark
  BY <1>1, <1>2, <1>6, <1>7, CallerAsk
<1> QED
  BY <1>3, <1>4, <1>5, <1>6, <1>7 DEF Next

(* A step decides a request, inserts one, or leaves them all alone.        *)
LEMMA RequestStep ==
    ASSUME [Next]_vars PROVE RequestChange
<1>1. ASSUME NEW p \in Callers, CallerStep(p), ~InsertRequest(p) PROVE approvals' = approvals
  BY <1>1 DEF CallerStep, Authorize, ObserveNow, ReportRegression, ReadRisk, ConsumeLease,
     TouchCanary, FireDetection, FindDenied, Probe, FindPending, Fatigue, CallerDies,
     RecordRiskSignal, authorityVars
<1>2. ASSUME NEW p \in Callers, InsertRequest(p) PROVE RequestChange
  BY <1>2 DEF InsertRequest, RequestChange, Inserted
<1>3. CASE OperatorStep
  BY <1>3 DEF OperatorStep, OperatorObserves, DaemonObserves, OperatorGivesUp, GrantApproval,
     DenyApproval, Grantable, RequestChange, Decided, authorityVars
<1>4. ASSUME NEW o \in Responders, ResponderStep(o) PROVE approvals' = approvals
  BY <1>4 DEF ResponderStep, Contain, RevokeCapabilities, RaiseRisk, SealChecks, SealReads,
     SealSession, ResponderDies, EscalateRiskTo, authorityVars
<1>5. ClockMoves \/ UNCHANGED vars => approvals' = approvals
  BY DEF ClockMoves, vars, authorityVars
<1> QED
  BY <1>1, <1>2, <1>3, <1>4, <1>5 DEF Next, RequestChange

-----------------------------------------------------------------------------
(* Refusals are final, and live requests are single.                       *)

(* What an insert leaves of the other rows.                                *)
LEMMA InsertedRows ==
    ASSUME TypeOK, NEW p \in Callers, NEW a \in ApprovalIds, Inserted(p, a)
    PROVE  /\ approvals'[a] = NewRequest(caller[p].ask, caller[p].now)
           /\ \A b \in ApprovalIds \ {a} :
                 /\ approvals'[b] = Retired(caller[p].ask, caller[p].now)[b]
                 /\ approvals'[b].ask = approvals[b].ask
                 /\ approvals'[b].status = "pending" => approvals[b].status = "pending"
                 /\ approvals[b].status = "denied" => approvals'[b].status = "denied"
<1> DEFINE rows == Retired(caller[p].ask, caller[p].now)
<1>1. rows = [b \in ApprovalIds |->
                IF HasStatus(b, caller[p].ask, "pending") /\ approvals[b].expires <= caller[p].now
                THEN [approvals[b] EXCEPT !.status = "denied"] ELSE approvals[b]]
  BY DEF Retired
<1>2. approvals' = [rows EXCEPT ![a] = NewRequest(caller[p].ask, caller[p].now)]
  BY DEF Inserted
<1>3. \A b \in ApprovalIds : approvals[b] \in ApprovalRows
  BY DEF TypeOK
<1>4. ASSUME NEW b \in ApprovalIds
      PROVE  /\ rows[b].ask = approvals[b].ask
             /\ rows[b].status = "pending" => approvals[b].status = "pending"
             /\ approvals[b].status = "denied" => rows[b].status = "denied"
  BY <1>1, <1>3 DEF ApprovalRows
<1> HIDE DEF rows
<1>5. approvals'[a] = NewRequest(caller[p].ask, caller[p].now)
  BY <1>1, <1>2
<1>6. \A b \in ApprovalIds \ {a} : approvals'[b] = rows[b]
  BY <1>1, <1>2
<1> QED
  BY <1>4, <1>5, <1>6 DEF rows

(* A request once refused, by a human or by expiry, stays refused.         *)
LEMMA RefusalsAreFinal ==
    ASSUME TypeOK, [Next]_vars, NEW a \in ApprovalIds, approvals[a].status = "denied"
    PROVE  approvals'[a].status = "denied" /\ approvals'[a].ask = approvals[a].ask
<1>1. CASE approvals' = approvals
  BY <1>1
<1>2. ASSUME NEW b \in ApprovalIds, NEW v, Decided(b, v)
      PROVE  approvals'[a] = approvals[a]
  BY <1>2 DEF Decided, TypeOK
<1>3. ASSUME NEW p \in Callers, NEW b \in ApprovalIds, Inserted(p, b)
      PROVE  approvals'[a].status = "denied" /\ approvals'[a].ask = approvals[a].ask
  <2>1. a # b
    BY <1>3 DEF Inserted
  <2> QED
    BY <1>3, <2>1, InsertedRows
<1> QED
  BY <1>1, <1>2, <1>3, RequestStep DEF RequestChange

LEMMA LiveRequestsStaySingle ==
    ASSUME TypeOK, OneLiveRequest, [Next]_vars
    PROVE  OneLiveRequest'
<1>0. \A a \in ApprovalIds : approvals[a] \in ApprovalRows
  BY DEF TypeOK
<1>1. CASE approvals' = approvals
  BY <1>1 DEF OneLiveRequest
<1>2. ASSUME NEW c \in ApprovalIds, NEW v \in {"granted", "denied"}, Decided(c, v)
      PROVE  OneLiveRequest'
  <2>1. \A a \in ApprovalIds : /\ approvals'[a].status = "pending" => approvals[a].status = "pending"
                               /\ approvals'[a].ask = approvals[a].ask
    BY <1>0, <1>2 DEF Decided, TypeOK, ApprovalRows
  <2> QED
    BY <2>1 DEF OneLiveRequest
<1>3. ASSUME NEW p \in Callers, NEW c \in ApprovalIds, Inserted(p, c)
      PROVE  OneLiveRequest'
  <2> DEFINE rows == Retired(caller[p].ask, caller[p].now)
  <2>1. /\ approvals'[c].ask = caller[p].ask
        /\ \A b \in ApprovalIds \ {c} :
              /\ approvals'[b] = rows[b] /\ approvals'[b].ask = approvals[b].ask
              /\ approvals'[b].status = "pending" => approvals[b].status = "pending"
    <3>1. approvals'[c] = NewRequest(caller[p].ask, caller[p].now)
      BY <1>3, InsertedRows
    <3>2. approvals'[c].ask = caller[p].ask
      BY <3>1 DEF NewRequest
    <3> QED
      BY <1>3, <3>2, InsertedRows
  <2>2. \A b \in ApprovalIds \ {c} : approvals'[b].status = "pending" => approvals'[b].ask # caller[p].ask
    <3>1. ~LiveRow(rows, caller[p].ask)
      BY <1>3 DEF Inserted
    <3> QED
      BY <2>1, <3>1 DEF LiveRow
  <2> HIDE DEF rows
  <2>3. ASSUME NEW a \in ApprovalIds, NEW b \in ApprovalIds,
               approvals'[a].status = "pending", approvals'[b].status = "pending",
               approvals'[a].ask = approvals'[b].ask
        PROVE  a = b
    <3>1. CASE a = c \/ b = c
      BY <2>1, <2>2, <2>3, <3>1
    <3>2. CASE a # c /\ b # c
      <4>1. approvals[a].status = "pending" /\ approvals[b].status = "pending"
            /\ approvals[a].ask = approvals[b].ask
        BY <2>1, <2>3, <3>2
      <4> QED
        BY <4>1 DEF OneLiveRequest
    <3> QED
      BY <3>1, <3>2
  <2> QED
    BY <2>3 DEF OneLiveRequest
<1> QED
  BY <1>1, <1>2, <1>3, RequestStep DEF RequestChange

-----------------------------------------------------------------------------
(* How a caller moves: it returns, it begins, or it goes on with its ask.  *)

Begins(p) ==
    /\ caller'[p].pc = "clock" /\ caller'[p].floor = mark
    /\ caller'[p].refused => FindByFingerprint(caller'[p].ask, "denied")
    /\ approvals' = approvals

GoesOn(p) ==
    /\ caller'[p].ask = caller[p].ask
    /\ caller'[p].refused = caller[p].refused
    /\ caller'[p].floor = caller[p].floor
    /\ caller[p].pc # "idle"
    /\ caller'[p].pc = "pending?" => ~FindByFingerprint(caller[p].ask, "denied")
    /\ caller'[p].pc = "insert" => caller[p].pc = "pending?"
    /\ \/ caller[p].pc # "clock" /\ caller'[p].now = caller[p].now
       \/ caller'[p].now = EffectiveNow(caller[p].now)

LEMMA GotoMoves ==
    ASSUME TypeOK, NEW p \in Callers, NEW pc, Goto(p, pc), caller[p].pc \notin {"idle", "clock"},
           pc \notin {"pending?", "insert"}
    PROVE  /\ \A q \in Callers \ {p} : caller'[q] = caller[q]
           /\ caller'[p] = IdleCaller \/ GoesOn(p)
<1>1. caller \in [Callers -> CallerStates]
  BY DEF TypeOK
<1>2. caller' = [caller EXCEPT ![p] = MovedTo(caller[p], pc)]
  BY DEF Goto
<1>3. MovedTo(caller[p], pc) = IdleCaller \/ MovedTo(caller[p], pc) = [caller[p] EXCEPT !.pc = pc]
  BY DEF MovedTo
<1>4. CASE MovedTo(caller[p], pc) = [caller[p] EXCEPT !.pc = pc]
  <2>1. caller'[p] = [caller[p] EXCEPT !.pc = pc]
    BY <1>1, <1>2, <1>4
  <2>2. caller[p] \in CallerStates
    BY <1>1
  <2>3. /\ caller'[p].ask = caller[p].ask /\ caller'[p].refused = caller[p].refused
        /\ caller'[p].floor = caller[p].floor /\ caller'[p].now = caller[p].now
        /\ caller'[p].pc = pc
    BY <2>1, <2>2 DEF CallerStates
  <2> QED
    BY <1>1, <1>2, <2>3 DEF GoesOn
<1> QED
  BY <1>1, <1>2, <1>3, <1>4

(* A decision sends the caller on, never past the lookup of refusals.      *)
LEMMA DecisionMoves ==
    ASSUME TypeOK, NEW p \in Callers, NEW out, caller[p].pc \in {"risk", "consume"},
           caller' = [caller EXCEPT ![p] =
                MovedTo([caller[p] EXCEPT !.outcome = out], AfterDecision(caller[p].ask, out))]
    PROVE  /\ \A q \in Callers \ {p} : caller'[q] = caller[q]
           /\ caller'[p] = IdleCaller \/ GoesOn(p)
<1> DEFINE d == [caller[p] EXCEPT !.outcome = out]
           pc == AfterDecision(caller[p].ask, out)
<1>0. caller \in [Callers -> CallerStates] /\ caller[p] \in CallerStates
  BY DEF TypeOK
<1>1. caller'[p] = MovedTo(d, pc) /\ \A q \in Callers \ {p} : caller'[q] = caller[q]
  BY <1>0
<1>2. pc \notin {"pending?", "insert"}
  BY DEF AfterDecision, AfterCanary, AfterDetection
<1>3. MovedTo(d, pc) = IdleCaller \/ MovedTo(d, pc) = [d EXCEPT !.pc = pc]
  BY DEF MovedTo
<1> HIDE DEF pc
<1>4. /\ [d EXCEPT !.pc = pc].ask = caller[p].ask /\ [d EXCEPT !.pc = pc].refused = caller[p].refused
      /\ [d EXCEPT !.pc = pc].floor = caller[p].floor /\ [d EXCEPT !.pc = pc].now = caller[p].now
      /\ [d EXCEPT !.pc = pc].pc = pc
  BY <1>0 DEF CallerStates
<1> HIDE DEF d
<1>5. caller'[p] = IdleCaller \/ GoesOn(p)
  BY <1>1, <1>2, <1>3, <1>4 DEF GoesOn
<1> QED
  BY <1>1, <1>5

LEMMA CallerMovesOn ==
    ASSUME TypeOK, NEW p \in Callers, CallerStep(p)
    PROVE  /\ \A q \in Callers \ {p} : caller'[q] = caller[q]
           /\ caller'[p] = IdleCaller \/ Begins(p) \/ GoesOn(p)
<1>1. caller \in [Callers -> CallerStates] /\ caller[p] \in CallerStates
  BY DEF TypeOK
<1> DEFINE Goal == /\ \A q \in Callers \ {p} : caller'[q] = caller[q]
                   /\ caller'[p] = IdleCaller \/ Begins(p) \/ GoesOn(p)
<1>2. ASSUME NEW ask \in Asks, Authorize(p, ask) PROVE Goal
  <2> DEFINE c == [IdleCaller EXCEPT !.pc = "clock", !.ask = ask, !.now = wall, !.floor = mark,
                                    !.refused = FindByFingerprint(ask, "denied")]
  <2>1. caller' = [caller EXCEPT ![p] = c] /\ approvals' = approvals
    BY <1>2 DEF Authorize, authorityVars
  <2>2. caller'[p] = c
    BY <1>1, <2>1
  <2>3. c.pc = "clock" /\ c.floor = mark /\ c.ask = ask /\ c.refused = FindByFingerprint(ask, "denied")
    BY DEF IdleCaller
  <2> HIDE DEF c
  <2>4. Begins(p)
    BY <2>1, <2>2, <2>3 DEF Begins
  <2> QED
    BY <1>1, <2>1, <2>4
<1>3. CASE ObserveNow(p)
  <2> DEFINE pc == IF Regressed(caller[p].now) THEN "regressed" ELSE "risk"
  <2>1. caller' = [caller EXCEPT ![p] = [caller[p] EXCEPT !.pc = pc, !.now = EffectiveNow(caller[p].now)]]
    BY <1>1, <1>3 DEF ObserveNow
  <2>2. caller'[p] = [caller[p] EXCEPT !.pc = pc, !.now = EffectiveNow(caller[p].now)]
    BY <1>1, <2>1
  <2>3. /\ caller'[p].ask = caller[p].ask /\ caller'[p].refused = caller[p].refused
        /\ caller'[p].floor = caller[p].floor
        /\ caller'[p].pc = pc /\ caller'[p].now = EffectiveNow(caller[p].now)
    BY <1>1, <2>2 DEF CallerStates
  <2>4. GoesOn(p)
    BY <1>3, <2>3 DEF GoesOn, ObserveNow, At
  <2> QED
    BY <1>1, <2>1, <2>4
<1>5. CASE ReadRisk(p)
  <2> DEFINE seen == risk[caller[p].ask.session]
             out  == Apply(caller[p].ask, seen, FALSE)
  <2>1. caller[p].pc = "risk"
    BY <1>5 DEF ReadRisk, At
  <2>2. \/ caller' = [caller EXCEPT ![p] = [caller[p] EXCEPT !.pc = "consume", !.risk = seen]]
        \/ caller' = [caller EXCEPT ![p] =
                MovedTo([caller[p] EXCEPT !.outcome = out], AfterDecision(caller[p].ask, out))]
    BY <1>1, <1>5 DEF ReadRisk
  <2> HIDE DEF seen, out
  <2>3. CASE caller' = [caller EXCEPT ![p] = [caller[p] EXCEPT !.pc = "consume", !.risk = seen]]
    <3>1. /\ caller'[p] = [caller[p] EXCEPT !.pc = "consume", !.risk = seen]
          /\ \A q \in Callers \ {p} : caller'[q] = caller[q]
      BY <1>1, <2>3
    <3>2. /\ caller'[p].ask = caller[p].ask /\ caller'[p].refused = caller[p].refused
          /\ caller'[p].floor = caller[p].floor /\ caller'[p].now = caller[p].now
          /\ caller'[p].pc = "consume"
      BY <1>1, <3>1 DEF CallerStates
    <3> QED
      BY <2>1, <3>1, <3>2 DEF GoesOn
  <2> QED
    BY <2>1, <2>2, <2>3, DecisionMoves
<1>6. CASE ConsumeLease(p)
  <2>1. caller[p].pc = "consume"
    BY <1>6 DEF ConsumeLease, At
  <2> DEFINE spending == Apply(caller[p].ask, caller[p].risk, TRUE)
             plain == Apply(caller[p].ask, caller[p].risk, FALSE)
  <2>2. \/ caller' = [caller EXCEPT ![p] = MovedTo([caller[p] EXCEPT !.outcome = spending],
                                                 AfterDecision(caller[p].ask, spending))]
        \/ caller' = [caller EXCEPT ![p] = MovedTo([caller[p] EXCEPT !.outcome = plain],
                                                 AfterDecision(caller[p].ask, plain))]
    BY <1>1, <1>6 DEF ConsumeLease
  <2> HIDE DEF spending, plain
  <2> QED
    BY <2>1, <2>2, DecisionMoves
<1>7. CASE ReportRegression(p) \/ TouchCanary(p) \/ FireDetection(p) \/ Probe(p) \/ Fatigue(p)
  <2>1. caller[p].pc \notin {"idle", "clock"}
    BY <1>7 DEF ReportRegression, TouchCanary, FireDetection, Probe, Fatigue, At
  <2>2. \E pc : Goto(p, pc) /\ pc \notin {"pending?", "insert"}
    <3>1. /\ AfterCanary(caller[p].ask, caller[p].outcome) \notin {"pending?", "insert"}
          /\ AfterDetection(caller[p].ask, caller[p].outcome) \notin {"pending?", "insert"}
      BY DEF AfterCanary, AfterDetection
    <3> QED
      BY <1>7, <3>1 DEF ReportRegression, TouchCanary, FireDetection, Probe, Fatigue
  <2> QED
    BY <2>1, <2>2, GotoMoves
<1>8. ASSUME NEW pc, Goto(p, pc), caller[p].pc \in {"denied?", "pending?", "insert"},
             pc = "pending?" => ~FindByFingerprint(caller[p].ask, "denied"),
             pc = "insert" => caller[p].pc = "pending?"
      PROVE  Goal
  <2>1. caller'[p] = MovedTo(caller[p], pc) /\ \A q \in Callers \ {p} : caller'[q] = caller[q]
    BY <1>1, <1>8 DEF Goto
  <2>2. caller'[p] = IdleCaller \/ caller'[p] = [caller[p] EXCEPT !.pc = pc]
    BY <2>1 DEF MovedTo
  <2>3. CASE caller'[p] = [caller[p] EXCEPT !.pc = pc]
    <3>1. /\ caller'[p].ask = caller[p].ask /\ caller'[p].refused = caller[p].refused
          /\ caller'[p].floor = caller[p].floor /\ caller'[p].now = caller[p].now
          /\ caller'[p].pc = pc
      BY <1>1, <2>3 DEF CallerStates
    <3> QED
      BY <1>8, <2>1, <3>1 DEF GoesOn
  <2> QED
    BY <2>1, <2>2, <2>3
<1>9. CASE FindDenied(p) \/ FindPending(p)
  BY <1>8, <1>9 DEF FindDenied, FindPending, At
<1>10. CASE InsertRequest(p)
  BY <1>1, <1>8, <1>10 DEF InsertRequest, At
<1>11. CASE CallerDies(p)
  BY <1>1, <1>11 DEF CallerDies
<1> QED
  BY <1>2, <1>3, <1>5, <1>6, <1>7, <1>9, <1>10, <1>11 DEF CallerStep

-----------------------------------------------------------------------------
(* The invariant is kept.                                                  *)

LEMMA RefusalsStandKept ==
    ASSUME RInv, [Next]_vars PROVE RefusalsStand'
<1>1. TypeOK
  BY DEF RInv, TypeInv
<1>3. ASSUME NEW q \in Callers, caller'[q].ask = caller[q].ask,
             caller'[q].refused = caller[q].refused, caller'[q].refused
      PROVE  FindByFingerprint(caller[q].ask, "denied")'
  <2>1. FindByFingerprint(caller[q].ask, "denied")
    BY <1>3 DEF RInv, RefusalsStand
  <2>2. PICK a \in ApprovalIds : HasStatus(a, caller[q].ask, "denied")
    BY <2>1 DEF FindByFingerprint
  <2>3. approvals'[a].status = "denied" /\ approvals'[a].ask = caller'[q].ask
    BY <1>1, <1>3, <2>2, RefusalsAreFinal DEF HasStatus
  <2> QED
    BY <2>3 DEF FindByFingerprint, HasStatus
<1>4. ASSUME NEW p \in Callers, CallerStep(p), NEW q \in Callers, caller'[q].refused
      PROVE  FindByFingerprint(caller[q].ask, "denied")'
  <2>1. CASE q # p
    BY <1>1, <1>3, <1>4, <2>1, CallerMovesOn
  <2>2. CASE q = p /\ caller'[p] = IdleCaller
    BY <1>4, <2>2 DEF IdleCaller
  <2>3. CASE q = p /\ Begins(p)
    BY <1>4, <2>3 DEF Begins, FindByFingerprint, HasStatus
  <2>4. CASE q = p /\ GoesOn(p)
    BY <1>3, <1>4, <2>4 DEF GoesOn
  <2> QED
    BY <1>1, <1>4, <2>1, <2>2, <2>3, <2>4, CallerMovesOn
<1> QED
  BY <1>3, <1>4, CallersOwnStep DEF RefusalsStand

LEMMA AskersKept ==
    ASSUME RInv, [Next]_vars PROVE AskersKnowOfNoRefusal'
<1>1. TypeOK
  BY DEF RInv, TypeInv
<1>2. ASSUME NEW p \in Callers, CallerStep(p), NEW q \in Callers,
             caller'[q].pc \in {"pending?", "insert"}
      PROVE  ~caller'[q].refused
  <2>1. CASE q # p
    BY <1>1, <1>2, <2>1, CallerMovesOn DEF RInv, AskersKnowOfNoRefusal
  <2>2. CASE q = p /\ GoesOn(p)
    BY <1>2, <2>2 DEF GoesOn, RInv, AskersKnowOfNoRefusal, RefusalsStand
  <2>3. (caller'[p] # IdleCaller /\ ~Begins(p)) \/ q # p
    BY <1>2 DEF IdleCaller, Begins
  <2> QED
    BY <1>1, <1>2, <2>1, <2>2, <2>3, CallerMovesOn
<1> QED
  BY <1>2, CallersOwnStep DEF RInv, AskersKnowOfNoRefusal

LEMMA ReadingsKept ==
    ASSUME RInv, TypeOK', [Next]_vars PROVE ReadingsReachFloor'
<1>1. TypeOK /\ mark \in Nat /\ mark' \in Nat /\ mark' >= mark
  BY MarkAdvances DEF RInv, TypeInv
<1>2. \A q \in Callers :
         /\ caller[q].floor \in Nat /\ caller[q].now \in Nat
         /\ caller'[q].floor \in Nat /\ caller'[q].now \in Nat
  BY <1>1 DEF TypeOK, CallerStates
<1> DEFINE Reaches(c, m) == c.floor <= m /\ (c.pc \notin {"idle", "clock"} => c.floor <= c.now)
<1>3. \A q \in Callers : Reaches(caller[q], mark)
  BY DEF RInv, ReadingsReachFloor
<1>4. ASSUME NEW q \in Callers, caller'[q] = caller[q] PROVE Reaches(caller'[q], mark')
  BY <1>1, <1>2, <1>3, <1>4
<1>5. ASSUME NEW p \in Callers, CallerStep(p) PROVE Reaches(caller'[p], mark')
  <2>1. CASE caller'[p] = IdleCaller
    BY <1>1, <2>1 DEF IdleCaller
  <2>2. CASE Begins(p)
    BY <1>1, <2>2 DEF Begins
  <2>3. CASE GoesOn(p)
    <3>1. caller[p].floor <= mark /\ caller'[p].floor = caller[p].floor
      BY <1>3, <2>3 DEF GoesOn
    <3>2. caller[p].floor <= caller'[p].now
      <4>1. EffectiveNow(caller[p].now) >= mark
        BY <1>1, <1>2 DEF EffectiveNow, MaxOf
      <4>2. CASE caller'[p].now = EffectiveNow(caller[p].now)
        BY <1>1, <1>2, <3>1, <4>1, <4>2
      <4>3. CASE caller[p].pc # "clock" /\ caller'[p].now = caller[p].now
        BY <1>3, <2>3, <4>3 DEF GoesOn
      <4> QED
        BY <2>3, <4>2, <4>3 DEF GoesOn
    <3> QED
      BY <1>1, <1>2, <3>1, <3>2
  <2> QED
    BY <1>1, <1>5, <2>1, <2>2, <2>3, CallerMovesOn
<1>6. \A q \in Callers : Reaches(caller'[q], mark')
  <2>1. ASSUME NEW p \in Callers, CallerStep(p), NEW q \in Callers PROVE Reaches(caller'[q], mark')
    BY <1>1, <1>4, <1>5, <2>1, CallerMovesOn
  <2> QED
    BY <1>4, <2>1, CallersOwnStep
<1> QED
  BY <1>6 DEF ReadingsReachFloor

LEMMA RInit == Init => RInv
<1> SUFFICES ASSUME Init PROVE RInv
  OBVIOUS
<1>1. TypeInv
  BY InitTypes
<1>2. mark \in Nat
  BY <1>1 DEF TypeInv, TypeOK
<1> QED
  BY <1>1, <1>2 DEF Init, RInv, OneLiveRequest, RefusalsStand, AskersKnowOfNoRefusal,
     ReadingsReachFloor, AbsentApproval, IdleCaller

LEMMA RStep == RInv /\ [Next]_vars => RInv'
<1> SUFFICES ASSUME RInv, [Next]_vars PROVE RInv'
  OBVIOUS
<1>1. TypeInv /\ TypeInv' /\ TypeOK /\ TypeOK'
  BY StepClassified DEF RInv, TypeInv
<1> QED
  BY <1>1, LiveRequestsStaySingle, RefusalsStandKept, AskersKept, ReadingsKept DEF RInv

-----------------------------------------------------------------------------
(* The inductive invariant of the requests.                                *)
THEOREM RequestInvariant == Spec => []RInv
  BY RInit, RStep, PTL DEF Spec

(* However the lookups and inserts of concurrent authorizations and the    *)
(* operators' decisions interleave, one request per fingerprint is live    *)
(* (approval.rs request_approval, the unique index of store.rs).           *)
THEOREM LiveRequestsAreSingle == Spec => []OneLiveRequest
<1>1. RInv => OneLiveRequest
  BY DEF RInv
<1> QED
  BY <1>1, RequestInvariant, PTL

(* An authorization that began after the refusal of its ask never puts the *)
(* question to a human again (approval.rs find_denied before find_pending).*)
THEOREM RefusalsAreRespected == Spec => RefusedIsNotAskedAgain
<1>1. RInv => [\A p \in Callers, a \in ApprovalIds :
                  At(p, "insert") /\ approvals[a].status = "absent" /\ approvals'[a].status = "pending"
                    /\ caller'[p] # caller[p]
                    => ~caller[p].refused]_vars
  BY DEF RInv, AskersKnowOfNoRefusal, At
<1> QED
  BY <1>1, RequestInvariant, PTL DEF RefusedIsNotAskedAgain

(* No authorization spends a lease that had expired, by the mark, when it  *)
(* began, whatever the system clock does (clock.rs observe_now, lease.rs   *)
(* consume_leases_atomically).                                             *)
THEOREM ExpiredLeasesStayExpired == Spec => ExpiredBeforeAskNeverSpent
<1>1. ASSUME RInv, [Next]_vars, NEW p \in Callers, NEW a \in ApprovalIds,
             At(p, "consume"), caller'[p] # caller[p], spent'[a] # spent[a]
      PROVE  leases[a].expires > caller[p].floor
  <2>1. TypeOK /\ caller[p].pc = "consume"
    BY <1>1 DEF RInv, TypeInv, At
  <2>2. PICK q \in Callers : CallerStep(q)
    BY <1>1, CallersOwnStep
  <2>3. q = p
    BY <1>1, <2>1, <2>2, CallerMovesOn
  <2>4. ConsumeLease(p) \/ CallerDies(p)
    BY <2>1, <2>2, <2>3 DEF CallerStep, Authorize, ObserveNow, ReportRegression, ReadRisk,
       TouchCanary, FireDetection, FindDenied, Probe, FindPending, InsertRequest, Fatigue, At
  <2>5. ConsumeLease(p)
    BY <1>1, <2>4 DEF CallerDies, authorityVars
  <2>6. PICK b \in Candidates(caller[p].ask, caller[p].now) : Charge(b)
    BY <1>1, <2>5 DEF ConsumeLease
  <2>7. a = b
    BY <1>1, <2>1, <2>6 DEF Charge, TypeOK, Candidates
  <2>8. leases[a].expires > caller[p].now
    BY <2>6, <2>7 DEF Candidates, Usable
  <2>9. caller[p].floor <= caller[p].now
    BY <1>1, <2>1 DEF RInv, ReadingsReachFloor
  <2> QED
    BY <2>1, <2>8, <2>9 DEF TypeOK, CallerStates, LeaseRows
<1>2. RInv /\ [Next]_vars => [\A p \in Callers, a \in ApprovalIds :
          At(p, "consume") /\ caller'[p] # caller[p] /\ spent'[a] # spent[a]
            => leases[a].expires > caller[p].floor]_vars
  BY <1>1
<1> QED
  BY <1>2, RequestInvariant, PTL DEF Spec, ExpiredBeforeAskNeverSpent

=============================================================================
