---------------------------- MODULE LocalAuthority ----------------------------
(***************************************************************************)
(* The local authority loop of crates/vigil-local: authorize_decision      *)
(* (authorize.rs) over the shared SQLite store of risk signals (risk.rs),  *)
(* approval requests (approval.rs) and capability leases (lease.rs), read  *)
(* through the monotone clock (clock.rs), while operators grant, deny and  *)
(* contain (incident.rs, the vigil command line).                          *)
(*                                                                         *)
(* Every broker process and every command line invocation is a process of  *)
(* its own on the same database.  What is atomic is exactly one SQL        *)
(* transaction (or one autocommitted statement); authorize_decision is a   *)
(* chain of them, so each is a step of its own and anything may happen in  *)
(* between, the death of the caller included.                              *)
(*                                                                         *)
(* Abstractions.  A fingerprint is an ask: one session, action and         *)
(* resolved resource, with the base decision the profile ladder gives it.  *)
(* Time is counted in whole seconds.  Scores saturate at the highest       *)
(* threshold, above which no rule tells them apart.  Detections, incidents *)
(* and event rows are left to other modules: nothing here reads them.      *)
(***************************************************************************)
EXTENDS LocalPolicy

CONSTANTS
    Sessions,           \* session identifiers
    Asks,               \* what may be asked for (see AskAssumption)
    Callers,            \* processes running authorize_decision
    Responders,         \* operators running `vigil contain`
    ApprovalIds,        \* identifiers of approval rows: a bound on their number
    MaxTime,            \* bound on the wall clock
    ApprovalTtl,        \* APPROVAL_TTL_SECONDS
    MaxLeaseTtl,        \* MAX_LEASE_TTL_SECONDS
    MaxLeaseUses,       \* MAX_LEASE_USES
    FatigueWindow,      \* FATIGUE_WINDOW_SECONDS
    FatigueThreshold,   \* FATIGUE_THRESHOLD
    Granularity,        \* ADVANCE_GRANULARITY_SECONDS
    Tolerance,          \* CLOCK_REGRESSION_TOLERANCE_SECONDS
    NoOne               \* no session (the holder of a lease never issued)

Times == 0..MaxTime

(* An ask: the fingerprint triple, the ladder's base outcome and label,    *)
(* whether a resource key exists, and whether the resource is a canary.    *)
Labels == {NoLabel, "credential_access", "credential_utility_invocation",
           "persistence_attempt", "security_control_modification",
           "unexpected_interpreter", "unexpected_executable", "local_ipc_escalation",
           "privilege_attempt", "unmediated_network_utility", "git_history_rewrite",
           "git_control_surface_change"}
AskRecords == [session: Sessions, action: Actions, resource: STRING, base: Outcomes,
               label: Labels, resolved: BOOLEAN, canary: BOOLEAN]

ASSUME AskAssumption == Asks \subseteq AskRecords /\ Asks # {}

ASSUME BoundAssumption ==
    /\ MaxTime \in Nat /\ ApprovalTtl \in Nat \ {0} /\ MaxLeaseTtl \in Nat \ {0}
    /\ MaxLeaseUses \in Nat \ {0} /\ FatigueWindow \in Nat /\ FatigueThreshold \in Nat
    /\ Granularity \in Nat \ {0} /\ Tolerance \in Nat
    /\ NoOne \notin Sessions

VARIABLES
    wall,       \* the system clock
    mark,       \* clock_state.high_water
    scores,     \* summed signal weights per session and dimension
    risk,       \* sessions.risk_state
    status,     \* sessions.status, as far as sealing goes
    approvals,  \* approval_requests
    leases,     \* capability_leases, keyed by the approval that minted them
    spent,      \* uses of each lease that permitted a request (history)
    caller,     \* where each authorize_decision is
    operator,   \* the clock reading a grant or deny command holds
    responder   \* where each `vigil contain` is

authorityVars == <<scores, risk, status, approvals, leases, spent>>
vars == <<wall, mark, scores, risk, status, approvals, leases, spent,
          caller, operator, responder>>

DefaultAsk == CHOOSE a \in Asks : TRUE

AbsentApproval == [status |-> "absent", ask |-> DefaultAsk, at |-> 0,
                   expires |-> 0, human |-> FALSE]
AbsentLease    == [status |-> "absent", uses |-> 0, max |-> 0, expires |-> 0]
IdleCaller     == [pc |-> "idle", ask |-> DefaultAsk, now |-> 0, risk |-> Normal,
                   outcome |-> "deny", floor |-> 0, refused |-> FALSE]
IdleResponder  == [pc |-> "idle", session |-> DefaultAsk.session, target |-> Contained,
                   seal |-> FALSE, risk |-> Normal]
NoReading      == -1

Init ==
    /\ wall \in Times
    /\ mark = wall
    /\ scores = [s \in Sessions |-> [d \in RiskDimensions |-> 0]]
    /\ risk = [s \in Sessions |-> Normal]
    /\ status = [s \in Sessions |-> "running"]
    /\ approvals = [a \in ApprovalIds |-> AbsentApproval]
    /\ leases = [a \in ApprovalIds |-> AbsentLease]
    /\ spent = [a \in ApprovalIds |-> 0]
    /\ caller = [p \in Callers |-> IdleCaller]
    /\ operator = NoReading
    /\ responder = [o \in Responders |-> IdleResponder]

-----------------------------------------------------------------------------
(* The clock.  observe_now reads the system clock, then the stored mark,   *)
(* and moves the mark forward.  The two statements on the mark are one     *)
(* step here: the update is guarded, so it never walks back a mark that    *)
(* moved in between, and a reading takes effect where it reads the mark.   *)

MaxOf(a, b) == IF a >= b THEN a ELSE b
(* Mutant: expiry is judged by the system clock alone.                     *)
EffectiveNowRaw(w) == w

EffectiveNow(w) == MaxOf(w, mark)
AdvancedMark(w) == IF w >= mark + Granularity THEN w ELSE mark
Regressed(w)    == mark - w > Tolerance

(* NTP, a user, or a restored snapshot moves the system clock either way.  *)
ClockMoves ==
    /\ wall' \in Times \ {wall}
    /\ UNCHANGED <<mark, authorityVars, caller, operator, responder>>

-----------------------------------------------------------------------------
(* Risk: record_risk_signal and escalate_risk_to, each one transaction.    *)

LeaseSession(a) == approvals[a].ask.session

RevokeSession(s) ==
    [a \in ApprovalIds |->
        IF leases[a].status = "active" /\ LeaseSession(a) = s
        THEN [leases[a] EXCEPT !.status = "revoked"] ELSE leases[a]]

Saturate(n) == IF n > QuarantinedAt THEN QuarantinedAt ELSE n

LoadedScores(s, label) ==
    LET rule == RuleForLabel(label)
    IN  [d \in RiskDimensions |->
            IF d = rule.dimension THEN Saturate(scores[s][d] + rule.weight)
                                  ELSE scores[s][d]]

(* Mutant: the transition does not revoke.                                 *)
SetRiskKeepingLeases(s, new) ==
    /\ risk' = [risk EXCEPT ![s] = new]
    /\ leases' = leases

SetRisk(s, new) ==
    /\ risk' = [risk EXCEPT ![s] = new]
    /\ leases' = IF new # risk[s] /\ RevokesLeases(new) THEN RevokeSession(s) ELSE leases

(* Mutant: the derived state replaces the stored one.                      *)
RecordRiskSignalDerived(s, label) ==
    /\ scores' = [scores EXCEPT ![s] = LoadedScores(s, label)]
    /\ SetRisk(s, AggregateState(LoadedScores(s, label)))
    /\ UNCHANGED <<status, approvals, spent>>

RecordRiskSignal(s, label) ==
    /\ scores' = [scores EXCEPT ![s] = LoadedScores(s, label)]
    /\ SetRisk(s, MaxRisk(AggregateState(LoadedScores(s, label)), risk[s]))
    /\ UNCHANGED <<status, approvals, spent>>

EscalateRiskTo(s, target) ==
    /\ SetRisk(s, MaxRisk(target, risk[s]))
    /\ UNCHANGED <<scores, status, approvals, spent>>

-----------------------------------------------------------------------------
(* authorize_decision, one step per statement or transaction.  A caller    *)
(* that moves to "done" has returned its answer and is idle again.         *)

At(p, pc) == caller[p].pc = pc
MovedTo(state, pc) == IF pc = "done" THEN IdleCaller ELSE [state EXCEPT !.pc = pc]
Goto(p, pc) == caller' = [caller EXCEPT ![p] = MovedTo(@, pc)]

HasStatus(a, ask, st) == approvals[a].status = st /\ approvals[a].ask = ask
FindByFingerprint(ask, st) == \E a \in ApprovalIds : HasStatus(a, ask, st)

(* The call begins, and reads the system clock.  For the properties below  *)
(* it also remembers (floor) the mark it started under and (refused)       *)
(* whether the ask stood refused by then.                                  *)
Authorize(p, ask) ==
    /\ At(p, "idle")
    /\ caller' = [caller EXCEPT ![p] = [IdleCaller EXCEPT
                        !.pc = "clock", !.ask = ask, !.now = wall, !.floor = mark,
                        !.refused = FindByFingerprint(ask, "denied")]]
    /\ UNCHANGED <<wall, mark, authorityVars, operator, responder>>

ObserveNow(p) ==
    /\ At(p, "clock")
    /\ mark' = AdvancedMark(caller[p].now)
    /\ caller' = [caller EXCEPT ![p].pc = IF Regressed(caller[p].now) THEN "regressed" ELSE "risk",
                                ![p].now = EffectiveNow(@)]
    /\ UNCHANGED <<wall, authorityVars, operator, responder>>

(* observe_now_reporting: a material regression loads risk.                *)
ReportRegression(p) ==
    /\ At(p, "regressed")
    /\ RecordRiskSignal(caller[p].ask.session, "clock_regression")
    /\ Goto(p, "risk")
    /\ UNCHANGED <<wall, mark, operator, responder>>

Apply(ask, r, leasePresent) ==
    DegradeForRisk(ask.action, LeaseUpgrade(ask.base, leasePresent), r)

(* What follows a decision: bait first, then a labelled denial, then the   *)
(* request to a human.  A request without a resource key has neither bait  *)
(* nor an approval.                                                        *)
AfterDetection(ask, outcome) ==
    IF ask.resolved /\ outcome = "require_approval" THEN "denied?" ELSE "done"
AfterCanary(ask, outcome) ==
    IF outcome = "deny" /\ ask.label # NoLabel THEN "detect" ELSE AfterDetection(ask, outcome)
AfterDecision(ask, outcome) ==
    IF ask.resolved /\ ask.canary THEN "canary" ELSE AfterCanary(ask, outcome)

(* session_risk_state, and whether spending a lease could change the       *)
(* answer.                                                                 *)
ReadRisk(p) ==
    LET ask  == caller[p].ask
        seen == risk[ask.session]
        out  == Apply(ask, seen, FALSE)
        try  == ask.resolved /\ ask.base = "require_approval" /\ Apply(ask, seen, TRUE) = "allow"
    IN  /\ At(p, "risk")
        /\ caller' = [caller EXCEPT ![p] =
                IF try THEN [@ EXCEPT !.pc = "consume", !.risk = seen]
                       ELSE MovedTo([@ EXCEPT !.outcome = out], AfterDecision(ask, out))]
        /\ UNCHANGED <<wall, mark, authorityVars, operator, responder>>

(* consume_leases_atomically for one use.  The earliest expiry is spent    *)
(* first; equal expiries are ordered by a random identifier.               *)
Usable(a, ask, now) ==
    /\ leases[a].status = "active" /\ leases[a].uses > 0 /\ leases[a].expires > now
    /\ approvals[a].ask = ask
Candidates(ask, now) ==
    {a \in ApprovalIds : /\ Usable(a, ask, now)
                         /\ \A b \in ApprovalIds : Usable(b, ask, now) => leases[a].expires <= leases[b].expires}

(* Mutant: the last use leaves the lease active.                           *)
ChargeNotExhausting(a) ==
    /\ leases' = [leases EXCEPT ![a].uses = @ - 1]
    /\ spent' = [spent EXCEPT ![a] = @ + 1]

Charge(a) ==
    /\ leases' = [leases EXCEPT ![a].uses = @ - 1,
                                ![a].status = IF leases[a].uses = 1 THEN "exhausted" ELSE "active"]
    /\ spent' = [spent EXCEPT ![a] = @ + 1]

ConsumeLease(p) ==
    LET ask == caller[p].ask
        Decide(leasePresent) ==
            LET out == Apply(ask, caller[p].risk, leasePresent)
            IN  caller' = [caller EXCEPT ![p] =
                    MovedTo([@ EXCEPT !.outcome = out], AfterDecision(ask, out))]
    IN  /\ At(p, "consume")
        /\ \/ \E a \in Candidates(ask, caller[p].now) : Charge(a) /\ Decide(TRUE)
           \/ /\ Candidates(ask, caller[p].now) = {}
              /\ Decide(FALSE)
              /\ UNCHANGED <<leases, spent>>
        /\ UNCHANGED <<wall, mark, scores, risk, status, approvals, operator, responder>>

TouchCanary(p) ==
    /\ At(p, "canary")
    /\ RecordRiskSignal(caller[p].ask.session, "deception_resource_access")
    /\ Goto(p, AfterCanary(caller[p].ask, caller[p].outcome))
    /\ UNCHANGED <<wall, mark, operator, responder>>

FireDetection(p) ==
    /\ At(p, "detect")
    /\ RecordRiskSignal(caller[p].ask.session, caller[p].ask.label)
    /\ Goto(p, AfterDetection(caller[p].ask, caller[p].outcome))
    /\ UNCHANGED <<wall, mark, operator, responder>>

-----------------------------------------------------------------------------
(* request_approval: two lookups, then one transaction, then the signals.  *)

(* Mutant: earlier refusals are not looked up.                             *)
FindDeniedSkipped(p) ==
    /\ At(p, "denied?")
    /\ Goto(p, "pending?")
    /\ UNCHANGED <<wall, mark, authorityVars, operator, responder>>

FindDenied(p) ==
    /\ At(p, "denied?")
    /\ Goto(p, IF FindByFingerprint(caller[p].ask, "denied") THEN "probe" ELSE "pending?")
    /\ UNCHANGED <<wall, mark, authorityVars, operator, responder>>

(* PreviouslyDenied: re-asking for what was refused loads risk.            *)
Probe(p) ==
    /\ At(p, "probe")
    /\ RecordRiskSignal(caller[p].ask.session, "capability_escalation_probing")
    /\ Goto(p, "done")
    /\ UNCHANGED <<wall, mark, operator, responder>>

(* AlreadyPending: an identical live request is returned, not duplicated.  *)
FindPending(p) ==
    /\ At(p, "pending?")
    /\ Goto(p, IF \E a \in ApprovalIds : /\ HasStatus(a, caller[p].ask, "pending")
                                        /\ approvals[a].expires > caller[p].now
               THEN "done" ELSE "insert")
    /\ UNCHANGED <<wall, mark, authorityVars, operator, responder>>

(* An expired pending row is retired first, as denied with no human named. *)
Retired(ask, now) ==
    [a \in ApprovalIds |->
        IF HasStatus(a, ask, "pending") /\ approvals[a].expires <= now
        THEN [approvals[a] EXCEPT !.status = "denied"] ELSE approvals[a]]

NewRequest(ask, now) ==
    [status |-> "pending", ask |-> ask, at |-> now, expires |-> now + ApprovalTtl, human |-> FALSE]

RecentRequests(rows, s, now) ==
    Cardinality({a \in ApprovalIds : /\ rows[a].status # "absent" /\ rows[a].ask.session = s
                                     /\ rows[a].at > now - FatigueWindow})

(* Mutant: no unique index over live requests.                             *)
NoLiveRow(rows, ask) == FALSE
LiveRow(rows, ask) == \E a \in ApprovalIds : rows[a].status = "pending" /\ rows[a].ask = ask

(* The unique index on live requests refuses a second pending row: the     *)
(* transaction rolls back and the whole authorization returns an error.    *)
InsertRequest(p) ==
    LET ask  == caller[p].ask
        now  == caller[p].now
        rows == Retired(ask, now)
    IN  /\ At(p, "insert")
        /\ \/ /\ LiveRow(rows, ask)
              /\ caller' = [caller EXCEPT ![p] = IdleCaller]
              /\ UNCHANGED approvals
           \/ /\ ~LiveRow(rows, ask)
              /\ \E a \in ApprovalIds :
                    /\ approvals[a].status = "absent"
                    /\ approvals' = [rows EXCEPT ![a] = NewRequest(ask, now)]
              /\ Goto(p, IF RecentRequests(approvals', ask.session, now) >= FatigueThreshold
                         THEN "fatigue" ELSE "done")
        /\ UNCHANGED <<wall, mark, scores, risk, status, leases, spent, operator, responder>>

Fatigue(p) ==
    /\ At(p, "fatigue")
    /\ RecordRiskSignal(caller[p].ask.session, "approval_fatigue")
    /\ Goto(p, "done")
    /\ UNCHANGED <<wall, mark, operator, responder>>

(* The caller dies between two of its transactions.                        *)
CallerDies(p) ==
    /\ ~At(p, "idle")
    /\ caller' = [caller EXCEPT ![p] = IdleCaller]
    /\ UNCHANGED <<wall, mark, authorityVars, operator, responder>>

-----------------------------------------------------------------------------
(* The operator: `vigil approvals grant | deny` reads the clock, then runs *)
(* one transaction with that reading.                                      *)

OperatorObserves ==
    /\ operator = NoReading
    /\ operator' = EffectiveNow(wall)
    /\ mark' = AdvancedMark(wall)
    /\ UNCHANGED <<wall, authorityVars, caller, responder>>

(* The daemon's grant and deny requests take the system clock as it is.    *)
DaemonObserves ==
    /\ operator = NoReading
    /\ operator' = wall
    /\ UNCHANGED <<wall, mark, authorityVars, caller, responder>>

(* Mutants: the session's risk, or what became of the request, is not      *)
(* looked at.                                                              *)
GrantableContained(a) == approvals[a].status = "pending" /\ approvals[a].expires > operator
GrantableDecided(a) ==
    /\ approvals[a].status # "absent" /\ approvals[a].expires > operator
    /\ ~RevokesLeases(risk[LeaseSession(a)])

Grantable(a) ==
    /\ approvals[a].status = "pending" /\ approvals[a].expires > operator
    /\ ~RevokesLeases(risk[LeaseSession(a)])

GrantApproval(a, uses, ttl) ==
    /\ operator # NoReading
    /\ operator' = NoReading
    /\ Grantable(a)
    /\ leases' = [leases EXCEPT ![a] = [status |-> "active", uses |-> uses, max |-> uses,
                                        expires |-> operator + ttl]]
    /\ approvals' = [approvals EXCEPT ![a].status = "granted", ![a].human = TRUE]
    /\ UNCHANGED <<wall, mark, scores, risk, status, spent, caller, responder>>

DenyApproval(a) ==
    /\ operator # NoReading
    /\ operator' = NoReading
    /\ approvals[a].status = "pending"
    /\ approvals' = [approvals EXCEPT ![a].status = "denied", ![a].human = TRUE]
    /\ UNCHANGED <<wall, mark, scores, risk, status, leases, spent, caller, responder>>

(* The command is refused (nothing pending, expired, contained) or dies.   *)
OperatorGivesUp ==
    /\ operator # NoReading
    /\ operator' = NoReading
    /\ UNCHANGED <<wall, mark, authorityVars, caller, responder>>

-----------------------------------------------------------------------------
(* `vigil contain`: revoke, then raise the risk, then perhaps seal.  The   *)
(* seal writes back a risk state it read in an earlier statement.          *)

RAt(o, pc) == responder[o].pc = pc
RGoto(o, pc) ==
    responder' = [responder EXCEPT ![o] = IF pc = "done" THEN IdleResponder
                                                         ELSE [@ EXCEPT !.pc = pc]]

Contain(o, s, target, seal) ==
    /\ RAt(o, "idle")
    /\ responder' = [responder EXCEPT ![o] = [IdleResponder EXCEPT
                        !.pc = "revoke", !.session = s, !.target = target, !.seal = seal]]
    /\ UNCHANGED <<wall, mark, authorityVars, caller, operator>>

RevokeCapabilities(o) ==
    /\ RAt(o, "revoke")
    /\ leases' = RevokeSession(responder[o].session)
    /\ RGoto(o, "raise")
    /\ UNCHANGED <<wall, mark, scores, risk, status, approvals, spent, caller, operator>>

RaiseRisk(o) ==
    /\ RAt(o, "raise")
    /\ EscalateRiskTo(responder[o].session, responder[o].target)
    /\ RGoto(o, IF responder[o].seal THEN "status?" ELSE "done")
    /\ UNCHANGED <<wall, mark, caller, operator>>

(* SealSession on an already sealed session changes nothing.               *)
SealChecks(o) ==
    /\ RAt(o, "status?")
    /\ RGoto(o, IF status[responder[o].session] = "sealed" THEN "done" ELSE "risk?")
    /\ UNCHANGED <<wall, mark, authorityVars, caller, operator>>

SealReads(o) ==
    /\ RAt(o, "risk?")
    /\ responder' = [responder EXCEPT ![o].risk = risk[responder[o].session], ![o].pc = "seal"]
    /\ UNCHANGED <<wall, mark, authorityVars, caller, operator>>

SealSession(o) ==
    /\ RAt(o, "seal")
    /\ status' = [status EXCEPT ![responder[o].session] = "sealed"]
    /\ risk' = [risk EXCEPT ![responder[o].session] = responder[o].risk]
    /\ RGoto(o, "done")
    /\ UNCHANGED <<wall, mark, scores, approvals, leases, spent, caller, operator>>

ResponderDies(o) ==
    /\ ~RAt(o, "idle")
    /\ RGoto(o, "done")
    /\ UNCHANGED <<wall, mark, authorityVars, caller, operator>>

-----------------------------------------------------------------------------
CallerStep(p) ==
    \/ \E ask \in Asks : Authorize(p, ask)
    \/ ObserveNow(p) \/ ReportRegression(p) \/ ReadRisk(p) \/ ConsumeLease(p)
    \/ TouchCanary(p) \/ FireDetection(p)
    \/ FindDenied(p) \/ Probe(p) \/ FindPending(p) \/ InsertRequest(p) \/ Fatigue(p)
    \/ CallerDies(p)

OperatorStep ==
    \/ OperatorObserves \/ DaemonObserves \/ OperatorGivesUp
    \/ \E a \in ApprovalIds, uses \in 1..MaxLeaseUses, ttl \in 1..MaxLeaseTtl :
          GrantApproval(a, uses, ttl)
    \/ \E a \in ApprovalIds : DenyApproval(a)

ResponderStep(o) ==
    \/ \E s \in Sessions, target \in {Contained, Quarantined}, seal \in BOOLEAN :
          Contain(o, s, target, seal)
    \/ RevokeCapabilities(o) \/ RaiseRisk(o) \/ SealChecks(o) \/ SealReads(o) \/ SealSession(o)
    \/ ResponderDies(o)

Next ==
    \/ ClockMoves
    \/ \E p \in Callers : CallerStep(p)
    \/ OperatorStep
    \/ \E o \in Responders : ResponderStep(o)

Spec == Init /\ [][Next]_vars

-----------------------------------------------------------------------------
(* The state is well typed.                                                *)
CallerPcs == {"idle", "clock", "regressed", "risk", "consume", "canary", "detect",
              "denied?", "probe", "pending?", "insert", "fatigue"}
ResponderPcs == {"idle", "revoke", "raise", "status?", "risk?", "seal"}

ApprovalRows == [status: {"absent", "pending", "granted", "denied"}, ask: Asks, at: Nat,
                 expires: Nat, human: BOOLEAN]
LeaseRows == [status: {"absent", "active", "exhausted", "revoked"}, uses: Nat, max: Nat,
              expires: Nat]
CallerStates == [pc: CallerPcs, ask: Asks, now: Nat, risk: RiskStates, outcome: Outcomes,
                 floor: Nat, refused: BOOLEAN]
ResponderStates == [pc: ResponderPcs, session: Sessions, target: {Contained, Quarantined},
                    seal: BOOLEAN, risk: RiskStates]

TypeOK ==
    /\ wall \in Nat /\ mark \in Nat
    /\ scores \in [Sessions -> [RiskDimensions -> Nat]]
    /\ risk \in [Sessions -> RiskStates]
    /\ status \in [Sessions -> {"running", "sealed"}]
    /\ approvals \in [ApprovalIds -> ApprovalRows]
    /\ leases \in [ApprovalIds -> LeaseRows]
    /\ spent \in [ApprovalIds -> Nat]
    /\ caller \in [Callers -> CallerStates]
    /\ operator \in Nat \cup {NoReading}
    /\ responder \in [Responders -> ResponderStates]

(* A session that reached CONTAINED holds no usable lease, whichever of    *)
(* the signal, the escalation, the grant and the stale seal came last      *)
(* (risk.rs record_risk_signal and escalate_risk_to revoke in the same     *)
(* transaction; approval.rs grant_approval re-reads the risk in its own).  *)
ContainedHoldsNoLease ==
    \A a \in ApprovalIds :
        RevokesLeases(risk[LeaseSession(a)]) => leases[a].status # "active"

(* No use is lost or minted: what callers spent of a lease and what is     *)
(* left of it add up to what a human granted, a lease exists exactly where *)
(* a request was granted by a human, and the last use exhausts it however  *)
(* the spending callers interleave (lease.rs consume_leases_atomically,    *)
(* approval.rs grant_approval).                                            *)
LeaseLedger ==
    \A a \in ApprovalIds :
        /\ spent[a] + leases[a].uses = leases[a].max
        /\ leases[a].status # "absent" <=> approvals[a].status = "granted"
        /\ leases[a].status = "absent" => leases[a].max = 0
        /\ leases[a].status # "absent" => approvals[a].human /\ leases[a].max \in 1..MaxLeaseUses
        /\ leases[a].status = "active" => leases[a].uses > 0
        /\ leases[a].status = "exhausted" => leases[a].uses = 0

(* One live request per fingerprint, although the lookup and the insert    *)
(* are separate transactions (approval.rs request_approval; the partial    *)
(* unique index of store.rs).                                              *)
OneLiveRequest ==
    \A a, b \in ApprovalIds :
        /\ approvals[a].status = "pending" /\ approvals[b].status = "pending"
        /\ approvals[a].ask = approvals[b].ask
        => a = b

(* A caller that read the risk before the session was contained still      *)
(* spends nothing after it (risk.rs: a contained session "cannot be raced  *)
(* by a lease consumed a moment later").                                   *)
ContainedSpendsNothing ==
    [][\A a \in ApprovalIds :
          spent'[a] # spent[a] => ~RevokesLeases(risk[LeaseSession(a)])]_vars

(* Containment is never undone, not by the seal that writes back a risk    *)
(* state it read earlier (incident.rs apply_response, store.rs             *)
(* seal_session).                                                          *)
ContainmentSticks ==
    [][\A s \in Sessions : RevokesLeases(risk[s]) => RevokesLeases(risk'[s])]_vars

(* A lease that had expired, by the mark, when an authorization began is   *)
(* not spent by it, whatever the system clock did before or since          *)
(* (clock.rs; authorize.rs "an expired lease must stay expired even if the *)
(* system clock moves backwards").                                         *)
ExpiredBeforeAskNeverSpent ==
    [][\A p \in Callers, a \in ApprovalIds :
          At(p, "consume") /\ caller'[p] # caller[p] /\ spent'[a] # spent[a]
            => leases[a].expires > caller[p].floor]_vars

(* Once a request has been refused, no later authorization puts the same   *)
(* question to a human again (approval.rs: a prior refusal outranks a      *)
(* prior pending request).                                                 *)
RefusedIsNotAskedAgain ==
    [][\A p \in Callers, a \in ApprovalIds :
          At(p, "insert") /\ approvals[a].status = "absent" /\ approvals'[a].status = "pending"
            /\ caller'[p] # caller[p]
            => ~caller[p].refused]_vars

(* The machinery implements HumanAuthority: seen through the mapping       *)
(* below, every step of every process is a grant by a human, the spending  *)
(* of one granted use by an uncontained session, a withdrawal, a           *)
(* containment, or nothing (authorize.rs, lease.rs, approval.rs, risk.rs   *)
(* and incident.rs together).                                              *)
HolderOf == [a \in ApprovalIds |-> IF approvals[a].status = "granted" THEN LeaseSession(a) ELSE NoOne]
CreditOf == [a \in ApprovalIds |-> IF leases[a].status = "active" THEN leases[a].uses ELSE 0]
ContainedSessions == {s \in Sessions : RevokesLeases(risk[s])}

Human == INSTANCE HumanAuthority
            WITH Grants <- ApprovalIds, MaxUses <- MaxLeaseUses, NoOne <- NoOne,
                 holder <- HolderOf, credit <- CreditOf, used <- spent,
                 contained <- ContainedSessions

ImplementsHumanAuthority == Human!Spec
=============================================================================
