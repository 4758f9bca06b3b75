---------------------------- MODULE BrokersProofs ----------------------------
(***************************************************************************)
(* Proofs about Brokers for every set of calls, operations and             *)
(* destinations and every profile's limits: no counter ever passes its     *)
(* limit, a side effect is refunded only where EffectIsHeld says so, and a *)
(* session that has ended obtains no reservation more.                     *)
(*                                                                         *)
(* The argument.  What a call has reserved and done is determined by the   *)
(* stage it stands at (StageHolds), and every step moves one call from one *)
(* stage to the next.  The stage is what makes EffectIsHeld inductive: a   *)
(* refund starts only at "refund", which a call whose effect was reported  *)
(* to it as done never reaches.                                            *)
(***************************************************************************)
EXTENDS Brokers, CountingTheorems

(* Stages before a reservation, and with one held.                         *)
Unreserved(c) ==
    \/ call[c].pc \in {"idle", "permit", "reserve"}
    \/ call[c].pc = "capture" /\ call[c].op.kind = "delete"
    \/ call[c].pc = "perform" /\ call[c].op.kind \in FreeKinds

Holding(c) ==
    \/ call[c].pc \in {"verify", "commit", "refund"}
    \/ call[c].pc = "capture" /\ call[c].op.kind # "delete"
    \/ call[c].pc = "perform" /\ call[c].op.kind \notin FreeKinds

(* What a call has reserved and done, by its stage.                        *)
StageHolds ==
    \A c \in Calls :
        /\ call[c].pc # "idle" => call[c].op \in Operations
        /\ Unreserved(c) => reservation[c].status = "none" /\ effect[c] = "none"
        /\ Holding(c) => reservation[c].status = "pending"
        /\ call[c].pc \in {"capture", "verify", "perform"} => effect[c] = "none"
        /\ call[c].pc = "refund" => effect[c] # "done"
        /\ effect[c] = "late" => call[c].op.kind \in GitKinds \cup {"secret"}
        /\ effect[c] = "astray" => call[c].op.kind = "connect"
        /\ call[c].pc \in {"capture", "reserve", "verify", "commit", "refund"}
              => call[c].op.kind \notin FreeKinds

IInv == TypeOK /\ StageHolds /\ EffectIsHeld

-----------------------------------------------------------------------------
(* What the orders of the brokers' methods come to, stage by stage.        *)
LEMMA FollowingStages ==
    ASSUME NEW kind
    PROVE  /\ Following(kind, "permit") = IF kind \in FreeKinds THEN "perform"
                                          ELSE IF kind = "delete" THEN "capture" ELSE "reserve"
           /\ Following(kind, "capture") = IF kind = "delete" THEN "reserve" ELSE "perform"
           /\ Following(kind, "reserve") =
                 IF kind \in {"create", "write", "rename"} THEN "capture"
                 ELSE IF kind = "exec" THEN "verify" ELSE "perform"
           /\ Following(kind, "verify") = "perform"
           /\ Following(kind, "perform") = IF kind \in FreeKinds THEN "done" ELSE "commit"
<1> USE DEF FreeKinds, GitKinds
<1>1. CASE kind \in {"create", "write", "rename"}
  BY <1>1 DEF Following, WriteOrder, ReadOrder
<1>2. CASE kind = "delete"
  BY <1>2 DEF Following, DeleteOrder, ReadOrder
<1>3. CASE kind = "exec"
  BY <1>3 DEF Following, ExecuteOrder, ReadOrder
<1>4. CASE kind = "stage"
  BY <1>4 DEF Following, GitOrder
<1>5. CASE kind \in {"commit", "push"}
  BY <1>5 DEF Following, GitOrder, ReadOrder
<1>6. CASE kind \notin {"create", "write", "rename", "delete", "exec"} \cup GitKinds
  BY <1>6 DEF Following, ReadOrder
<1> QED
  BY <1>1, <1>2, <1>3, <1>4, <1>5, <1>6

(* A stage is followed by a stage.                                         *)
LEMMA FollowingType ==
    ASSUME NEW kind, NEW stage \in {"permit", "capture", "reserve", "verify", "perform"}
    PROVE  Following(kind, stage) \in Stages
  BY FollowingStages DEF Stages

(* The charges of an operation are amounts.                                *)
LEMMA ChargesType ==
    ASSUME NEW op \in Operations PROVE Charges(op) \in [Dimensions -> Nat]
<1>1. op.size \in Nat
  BY BrokerAssumption DEF OperationRecords
<1> QED
  BY <1>1 DEF Charges

(* A signal leaves scores and risk well typed, and risk never falls.       *)
LEMMA SignalType ==
    ASSUME TypeOK, NEW label \in {"budget_exhaustion", "executable_identity_changed"},
           Signal(label)
    PROVE  /\ scores' \in [{"destructive_behavior", "process_anomaly"} -> 0..QuarantinedAt]
           /\ risk' \in RiskStates
<1>1. RuleForLabel(label).weight \in Nat
  BY DEF RuleForLabel, Rule
<1>2. AggregateState(scores') \in RiskStates
  BY DEF AggregateState, RiskStates, Normal, Elevated, Restricted, Contained, Quarantined
<1>3. risk' \in RiskStates
  BY <1>2 DEF Signal, MaxRisk, TypeOK
<1>4. ASSUME NEW d \in {"destructive_behavior", "process_anomaly"}
      PROVE  (IF scores[d] + RuleForLabel(label).weight < QuarantinedAt
              THEN scores[d] + RuleForLabel(label).weight ELSE QuarantinedAt) \in 0..QuarantinedAt
  <2>1. scores[d] \in 0..QuarantinedAt
    BY DEF TypeOK
  <2> QED
    BY <1>1, <2>1 DEF QuarantinedAt
<1>5. scores \in [{"destructive_behavior", "process_anomaly"} -> 0..QuarantinedAt]
  BY DEF TypeOK
<1>6. scores' \in [{"destructive_behavior", "process_anomaly"} -> 0..QuarantinedAt]
  BY <1>4, <1>5 DEF Signal
<1> QED
  BY <1>3, <1>6

(* A refused reservation leaves scores and risk well typed.                *)
LEMMA DenialType ==
    ASSUME TypeOK, NEW kind, RecordBudgetDenial(kind)
    PROVE  /\ scores' \in [{"destructive_behavior", "process_anomaly"} -> 0..QuarantinedAt]
           /\ risk' \in RiskStates
<1>1. CASE kind \in FilesystemKinds
  BY <1>1, SignalType DEF RecordBudgetDenial
<1>2. CASE kind \notin FilesystemKinds
  BY <1>2 DEF RecordBudgetDenial, TypeOK, danger
<1> QED
  BY <1>1, <1>2

-----------------------------------------------------------------------------
(* The initial states satisfy the invariant.                               *)
LEMMA InitIInv == Init => IInv
<1> SUFFICES ASSUME Init PROVE IInv
  OBVIOUS
<1>1. TypeOK
  BY BrokerAssumption DEF Init, TypeOK, RiskStates, Normal, Quarantined, QuarantinedAt, NoCharge,
     Stages, Effects
<1>2. StageHolds /\ EffectIsHeld
  BY DEF Init, StageHolds, EffectIsHeld, Unreserved, Holding
<1> QED
  BY <1>1, <1>2 DEF IInv

(* A step that moves one call and leaves the budget alone keeps the parts  *)
(* of the type invariant that are about the budget.                        *)
BudgetType ==
    /\ counter \in [Dimensions -> [consumed: Nat, reserved: Nat]]
    /\ \A d \in Dimensions : counter[d].consumed + counter[d].reserved <= Limit[d]
    /\ reservation \in [Calls -> [status: {"none", "pending", "committed", "refunded"},
                                 charges: [Dimensions -> Nat]]]
    /\ claim \in [Destinations -> [status: {"none", "pending", "committed"}, by: SUBSET Calls]]

SessionType ==
    /\ status \in {"running", "ended"}
    /\ risk \in RiskStates
    /\ scores \in [{"destructive_behavior", "process_anomaly"} -> 0..QuarantinedAt]

CallType ==
    /\ call \in [Calls -> [pc: Stages, op: Operations \cup {NoOperation}]]
    /\ effect \in [Calls -> Effects]

LEMMA TypeParts == TypeOK <=> BudgetType /\ SessionType /\ CallType
  BY DEF TypeOK, BudgetType, SessionType, CallType

(* A reservation keeps every counter within its limit.                     *)
LEMMA ReserveBudget ==
    ASSUME IInv, NEW c \in Calls, Reserve(c) PROVE BudgetType'
<1> DEFINE charges == Charges(call[c].op)
<1>1. call[c].op \in Operations
  BY DEF IInv, StageHolds, Reserve, At
<1>2. charges \in [Dimensions -> Nat]
  BY <1>1, ChargesType
<1>3. Room(charges)
  BY DEF Reserve, Reservable
<1>4. BudgetType
  BY TypeParts DEF IInv
<1>5. counter' = [d \in Dimensions |-> [counter[d] EXCEPT !.reserved = @ + charges[d]]]
  BY DEF Reserve
<1>6. reservation' = [reservation EXCEPT ![c] = [status |-> "pending", charges |-> charges]]
  BY DEF Reserve
<1>7. claim' \in [Destinations -> [status: {"none", "pending", "committed"}, by: SUBSET Calls]]
  BY <1>4 DEF Reserve, BudgetType
<1> HIDE DEF charges
<1>8. ASSUME NEW d \in Dimensions
      PROVE  /\ counter'[d] \in [consumed: Nat, reserved: Nat]
             /\ counter'[d].consumed + counter'[d].reserved <= Limit[d]
  BY <1>2, <1>3, <1>4, <1>5, BrokerAssumption DEF BudgetType, Room
<1>9. counter' \in [Dimensions -> [consumed: Nat, reserved: Nat]]
  BY <1>5, <1>8
<1>10. reservation' \in [Calls -> [status: {"none", "pending", "committed", "refunded"},
                                   charges: [Dimensions -> Nat]]]
  BY <1>2, <1>4, <1>6 DEF BudgetType
<1> QED
  BY <1>7, <1>8, <1>9, <1>10 DEF BudgetType

(* So does a commit or a refund.                                           *)
LEMMA ReconcileBudget ==
    ASSUME TypeOK, NEW c \in Calls, NEW verdict \in {"committed", "refunded"},
           Reconciled(c, verdict)
    PROVE  BudgetType'
<1> DEFINE charges == reservation[c].charges
<1>1. BudgetType
  BY TypeParts
<1>2. charges \in [Dimensions -> Nat]
  BY <1>1 DEF BudgetType
<1>3. \A d \in Dimensions : counter[d].reserved >= charges[d]
  BY DEF Reconciled
<1>4. counter' = [d \in Dimensions |->
              [consumed |-> counter[d].consumed + (IF verdict = "committed" THEN charges[d] ELSE 0),
               reserved |-> counter[d].reserved - charges[d]]]
  BY DEF Reconciled
<1>5. reservation' = [reservation EXCEPT ![c].status = verdict]
  BY DEF Reconciled
<1>6. claim' \in [Destinations -> [status: {"none", "pending", "committed"}, by: SUBSET Calls]]
  BY <1>1 DEF Reconciled, BudgetType
<1> HIDE DEF charges
<1>7. ASSUME NEW d \in Dimensions
      PROVE  /\ counter'[d] \in [consumed: Nat, reserved: Nat]
             /\ counter'[d].consumed + counter'[d].reserved <= Limit[d]
  BY <1>1, <1>2, <1>3, <1>4, BrokerAssumption DEF BudgetType
<1>8. counter' \in [Dimensions -> [consumed: Nat, reserved: Nat]]
  BY <1>4, <1>7
<1>9. reservation' \in [Calls -> [status: {"none", "pending", "committed", "refunded"},
                                   charges: [Dimensions -> Nat]]]
  BY <1>1, <1>5 DEF BudgetType
<1> QED
  BY <1>6, <1>7, <1>8, <1>9 DEF BudgetType

(* Moving a call changes its stage and nothing else.                       *)
LEMMA GotoMoves ==
    ASSUME TypeOK, NEW c \in Calls, NEW stage \in Stages, Goto(c, stage)
    PROVE  /\ call' \in [Calls -> [pc: Stages, op: Operations \cup {NoOperation}]]
           /\ call'[c].pc = stage
           /\ call'[c].op = call[c].op
           /\ \A x \in Calls \ {c} : call'[x] = call[x]
  BY DEF TypeOK, Goto

LEMMA AdvanceMoves ==
    ASSUME TypeOK, NEW c \in Calls, Advance(c),
           call[c].pc \in {"permit", "capture", "reserve", "verify", "perform"}
    PROVE  /\ call' \in [Calls -> [pc: Stages, op: Operations \cup {NoOperation}]]
           /\ call'[c].pc = Following(call[c].op.kind, call[c].pc)
           /\ call'[c].op = call[c].op
           /\ \A x \in Calls \ {c} : call'[x] = call[x]
  BY FollowingType, GotoMoves DEF Advance

(* StageHolds and EffectIsHeld of one call, so that a step is checked for  *)
(* the call it moves only.                                                 *)
HoldsFor(c) ==
    /\ call[c].pc # "idle" => call[c].op \in Operations
    /\ Unreserved(c) => reservation[c].status = "none" /\ effect[c] = "none"
    /\ Holding(c) => reservation[c].status = "pending"
    /\ call[c].pc \in {"capture", "verify", "perform"} => effect[c] = "none"
    /\ call[c].pc = "refund" => effect[c] # "done"
    /\ effect[c] = "late" => call[c].op.kind \in GitKinds \cup {"secret"}
    /\ effect[c] = "astray" => call[c].op.kind = "connect"
    /\ call[c].pc \in {"capture", "reserve", "verify", "commit", "refund"}
          => call[c].op.kind \notin FreeKinds
    /\ effect[c] # "none" =>
          \/ reservation[c].status \in {"pending", "committed"}
          \/ call[c].op.kind \in FreeKinds
          \/ effect[c] = "late" /\ call[c].op.kind \in GitKinds \cup {"secret"}
          \/ effect[c] = "astray" /\ call[c].op.kind = "connect"

LEMMA HoldsForAll == StageHolds /\ EffectIsHeld <=> \A c \in Calls : HoldsFor(c)
  BY DEF StageHolds, EffectIsHeld, HoldsFor

(* A step of one call leaves what the others have reserved and done.       *)
LEMMA OthersKeep ==
    ASSUME NEW c \in Calls, \A x \in Calls : HoldsFor(x), HoldsFor(c)',
           \A x \in Calls \ {c} : /\ call'[x] = call[x]
                                  /\ reservation'[x].status = reservation[x].status
                                  /\ effect'[x] = effect[x]
    PROVE  (StageHolds /\ EffectIsHeld)'
<1>1. ASSUME NEW x \in Calls \ {c} PROVE HoldsFor(x)'
  BY DEF HoldsFor, Unreserved, Holding
<1>2. \A x \in Calls : HoldsFor(x)'
  BY <1>1
<1> QED
  BY <1>2 DEF StageHolds, EffectIsHeld, HoldsFor

(* A step that touches no call keeps the invariant if it keeps the types.  *)
LEMMA EnvironmentKeeps ==
    ASSUME IInv, SessionType', UNCHANGED <<budget, call, effect>>
    PROVE  IInv'
<1>1. TypeOK'
  BY TypeParts DEF IInv, TypeOK, SessionType, budget
<1>2. StageHolds'
  BY DEF IInv, StageHolds, Unreserved, Holding, budget
<1>3. EffectIsHeld'
  BY DEF IInv, EffectIsHeld, budget
<1> QED
  BY <1>1, <1>2, <1>3 DEF IInv

(* A step of one call that keeps the types and what that call holds keeps  *)
(* the invariant.                                                          *)
LEMMA CallKeeps ==
    ASSUME IInv, NEW c \in Calls, HoldsFor(c)', SessionType', BudgetType',
           call' \in [Calls -> [pc: Stages, op: Operations \cup {NoOperation}]],
           effect' \in [Calls -> Effects],
           \A x \in Calls \ {c} : /\ call'[x] = call[x]
                                  /\ reservation'[x].status = reservation[x].status
                                  /\ effect'[x] = effect[x]
    PROVE  IInv'
<1>1. TypeOK'
  BY DEF TypeOK, SessionType, BudgetType
<1>2. \A x \in Calls : HoldsFor(x)
  BY HoldsForAll DEF IInv
<1>3. (StageHolds /\ EffectIsHeld)'
  BY <1>2, OthersKeep
<1> QED
  BY <1>1, <1>3 DEF IInv

-----------------------------------------------------------------------------
(* Every step of a call preserves the invariant.                           *)
LEMMA CallStepIInv ==
    ASSUME IInv, NEW c \in Calls,
           CallStep(c) \/ BrokerDies(c) \/ \E op \in Operations : Begin(c, op)
    PROVE  IInv'
<1> USE DEF At
<1>1. TypeOK /\ HoldsFor(c)
  BY HoldsForAll DEF IInv
<1>2. BudgetType /\ SessionType /\ CallType
  BY <1>1, TypeParts
<1>3. ASSUME UNCHANGED budget PROVE BudgetType'
  BY <1>2, <1>3 DEF budget, BudgetType
<1>4. ASSUME UNCHANGED <<status, danger>> PROVE SessionType'
  BY <1>2, <1>4 DEF danger, SessionType
<1>5. ASSUME UNCHANGED effect PROVE effect' \in [Calls -> Effects]
  BY <1>2, <1>5 DEF CallType
<1> USE DEF budget
<1>6. CASE \E op \in Operations : Begin(c, op)
  <2>1. PICK op \in Operations : Begin(c, op)
    BY <1>6
  <2>2. /\ call' \in [Calls -> [pc: Stages, op: Operations \cup {NoOperation}]]
        /\ call'[c] = [pc |-> "permit", op |-> op]
        /\ \A x \in Calls \ {c} : call'[x] = call[x]
    BY <1>2, <2>1 DEF Begin, CallType, Stages
  <2>3. HoldsFor(c)'
    BY <1>1, <2>1, <2>2 DEF Begin, HoldsFor, Unreserved, Holding
  <2> QED
    BY <1>3, <1>4, <1>5, <2>1, <2>2, <2>3, CallKeeps DEF Begin
<1>7. CASE Permit(c)
  <2>1. /\ call' \in [Calls -> [pc: Stages, op: Operations \cup {NoOperation}]]
        /\ call'[c].pc \in {"done", Following(call[c].op.kind, "permit")}
        /\ call'[c].op = call[c].op
        /\ \A x \in Calls \ {c} : call'[x] = call[x]
    BY <1>1, <1>7, AdvanceMoves, GotoMoves DEF Permit, Stages
  <2>2. HoldsFor(c)'
    BY <1>1, <1>7, <2>1, FollowingStages DEF Permit, HoldsFor, Unreserved, Holding
  <2> QED
    BY <1>3, <1>4, <1>5, <1>7, <2>1, <2>2, CallKeeps DEF Permit
<1>8. CASE Capture(c)
  <2>1. /\ call' \in [Calls -> [pc: Stages, op: Operations \cup {NoOperation}]]
        /\ call'[c].pc = Following(call[c].op.kind, "capture")
        /\ call'[c].op = call[c].op
        /\ \A x \in Calls \ {c} : call'[x] = call[x]
    BY <1>1, <1>8, AdvanceMoves DEF Capture
  <2>2. HoldsFor(c)'
    BY <1>1, <1>8, <2>1, FollowingStages DEF Capture, HoldsFor, Unreserved, Holding
  <2> QED
    BY <1>3, <1>4, <1>5, <1>8, <2>1, <2>2, CallKeeps DEF Capture
<1>9. CASE CaptureFails(c)
  <2>1. /\ call' \in [Calls -> [pc: Stages, op: Operations \cup {NoOperation}]]
        /\ call'[c].pc = IF call[c].op.kind = "delete" THEN "done"
                         ELSE IF call[c].op.kind = "rename" THEN "gone" ELSE "refund"
        /\ call'[c].op = call[c].op
        /\ \A x \in Calls \ {c} : call'[x] = call[x]
    BY <1>1, <1>9, GotoMoves DEF CaptureFails, Stages
  <2>2. HoldsFor(c)'
    BY <1>1, <1>9, <2>1 DEF CaptureFails, HoldsFor, Unreserved, Holding
  <2>3. SessionType'
    <3>1. CASE call[c].op.kind = "delete"
      BY <1>1, <1>2, <1>9, <3>1, DenialType DEF CaptureFails, SessionType
    <3>2. CASE call[c].op.kind # "delete"
      BY <1>4, <1>9, <3>2 DEF CaptureFails
    <3> QED
      BY <3>1, <3>2
  <2> QED
    BY <1>3, <1>5, <1>9, <2>1, <2>2, <2>3, CallKeeps DEF CaptureFails
<1>10. CASE Reserve(c)
  <2>1. /\ call' \in [Calls -> [pc: Stages, op: Operations \cup {NoOperation}]]
        /\ call'[c].pc = Following(call[c].op.kind, "reserve")
        /\ call'[c].op = call[c].op
        /\ \A x \in Calls \ {c} : call'[x] = call[x]
    BY <1>1, <1>10, AdvanceMoves DEF Reserve
  <2>2. /\ reservation'[c].status = "pending"
        /\ \A x \in Calls \ {c} : reservation'[x] = reservation[x]
    BY <1>2, <1>10 DEF Reserve, BudgetType
  <2>3. HoldsFor(c)'
    BY <1>1, <1>10, <2>1, <2>2, FollowingStages DEF Reserve, HoldsFor, Unreserved, Holding
  <2>4. BudgetType'
    BY <1>10, ReserveBudget
  <2> QED
    BY <1>4, <1>5, <1>10, <2>1, <2>2, <2>3, <2>4, CallKeeps DEF Reserve
<1>11. CASE ReserveRefused(c)
  <2>1. /\ call' \in [Calls -> [pc: Stages, op: Operations \cup {NoOperation}]]
        /\ call'[c].pc = "done"
        /\ call'[c].op = call[c].op
        /\ \A x \in Calls \ {c} : call'[x] = call[x]
    BY <1>1, <1>11, GotoMoves DEF ReserveRefused, Stages
  <2>2. HoldsFor(c)'
    BY <1>1, <1>11, <2>1 DEF ReserveRefused, HoldsFor, Unreserved, Holding
  <2>3. SessionType'
    BY <1>1, <1>2, <1>11, DenialType DEF ReserveRefused, SessionType
  <2> QED
    BY <1>3, <1>5, <1>11, <2>1, <2>2, <2>3, CallKeeps DEF ReserveRefused
<1>12. CASE Verify(c)
  <2>1. /\ call' \in [Calls -> [pc: Stages, op: Operations \cup {NoOperation}]]
        /\ call'[c].pc \in {"perform", "gone"}
        /\ call'[c].op = call[c].op
        /\ \A x \in Calls \ {c} : call'[x] = call[x]
    BY <1>1, <1>12, AdvanceMoves, GotoMoves, FollowingStages DEF Verify, Stages
  <2>2. HoldsFor(c)'
    BY <1>1, <1>12, <2>1 DEF Verify, HoldsFor, Unreserved, Holding
  <2>3. SessionType'
    <3>1. CASE UNCHANGED danger
      BY <1>4, <1>12, <3>1 DEF Verify
    <3>2. CASE Signal("executable_identity_changed")
      BY <1>1, <1>2, <1>12, <3>2, SignalType DEF Verify, SessionType
    <3> QED
      BY <1>12, <3>1, <3>2 DEF Verify
  <2> QED
    BY <1>3, <1>5, <1>12, <2>1, <2>2, <2>3, CallKeeps DEF Verify
<1>13. CASE Perform(c)
  <2>1. /\ call' \in [Calls -> [pc: Stages, op: Operations \cup {NoOperation}]]
        /\ call'[c].pc = IF call[c].op.kind \in FreeKinds THEN "done" ELSE "commit"
        /\ call'[c].op = call[c].op
        /\ \A x \in Calls \ {c} : call'[x] = call[x]
    BY <1>1, <1>13, AdvanceMoves, FollowingStages DEF Perform
  <2>2. /\ effect' \in [Calls -> Effects]
        /\ effect'[c] = "done"
        /\ \A x \in Calls \ {c} : effect'[x] = effect[x]
    BY <1>2, <1>13 DEF Perform, CallType, Effects
  <2>3. HoldsFor(c)'
    BY <1>1, <1>13, <2>1, <2>2 DEF Perform, HoldsFor, Unreserved, Holding
  <2> QED
    BY <1>3, <1>4, <1>13, <2>1, <2>2, <2>3, CallKeeps DEF Perform
<1>14. CASE PerformFails(c) \/ PerformOverdue(c) \/ PerformAstray(c)
  <2>1. /\ call' \in [Calls -> [pc: Stages, op: Operations \cup {NoOperation}]]
        /\ call'[c].pc = IF call[c].op.kind \in FreeKinds THEN "done" ELSE "refund"
        /\ call'[c].op = call[c].op
        /\ \A x \in Calls \ {c} : call'[x] = call[x]
    BY <1>1, <1>14, GotoMoves DEF PerformFails, PerformOverdue, PerformAstray, GiveBack, Stages
  <2>2. /\ effect' \in [Calls -> Effects]
        /\ \/ effect'[c] = "none"
           \/ effect'[c] = "late" /\ call[c].op.kind \in GitKinds \cup {"secret"}
           \/ effect'[c] = "astray" /\ call[c].op.kind = "connect"
        /\ \A x \in Calls \ {c} : effect'[x] = effect[x]
    BY <1>1, <1>2, <1>14
    DEF PerformFails, PerformOverdue, PerformAstray, CallType, HoldsFor, Effects
  <2>3. UNCHANGED <<status, danger, budget>> /\ call[c].pc = "perform"
    BY <1>14 DEF PerformFails, PerformOverdue, PerformAstray
  <2>4. HoldsFor(c)'
    BY <1>1, <2>1, <2>2, <2>3 DEF HoldsFor, Unreserved, Holding
  <2> QED
    BY <1>3, <1>4, <2>1, <2>2, <2>3, <2>4, CallKeeps
<1>15. CASE Commit(c) \/ Refund(c)
  <2>1. PICK verdict \in {"committed", "refunded"} :
            /\ Reconciled(c, verdict)
            /\ verdict = "refunded" => call[c].pc = "refund"
    BY <1>15 DEF Commit, Refund
  <2>2. /\ call' \in [Calls -> [pc: Stages, op: Operations \cup {NoOperation}]]
        /\ call'[c].pc = "done"
        /\ call'[c].op = call[c].op
        /\ \A x \in Calls \ {c} : call'[x] = call[x]
    BY <1>1, <1>15, GotoMoves DEF Commit, Refund, Stages
  <2>3. /\ reservation'[c].status = verdict
        /\ \A x \in Calls \ {c} : reservation'[x] = reservation[x]
    BY <1>2, <2>1 DEF Reconciled, BudgetType
  <2>4. HoldsFor(c)'
    <3>1. /\ call[c].pc \in {"commit", "refund"} /\ effect'[c] = effect[c]
          /\ verdict = "committed" \/ effect[c] # "done"
          /\ call[c].op \in Operations
      BY <1>1, <1>15, <2>1 DEF Commit, Refund, HoldsFor
    <3>2. effect[c] \in Effects
      BY <1>2 DEF CallType
    <3>3. effect[c] \notin {"none", "done"} /\ verdict = "refunded" =>
             \/ effect[c] = "late" /\ call[c].op.kind \in GitKinds \cup {"secret"}
             \/ effect[c] = "astray" /\ call[c].op.kind = "connect"
      BY <1>1, <3>1, <3>2 DEF HoldsFor, Effects
    <3>4. /\ effect[c] = "late" => call[c].op.kind \in GitKinds \cup {"secret"}
          /\ effect[c] = "astray" => call[c].op.kind = "connect"
      BY <1>1 DEF HoldsFor
    <3> QED
      BY <2>2, <2>3, <3>1, <3>2, <3>3, <3>4 DEF HoldsFor, Unreserved, Holding
  <2>5. BudgetType'
    BY <1>1, <2>1, ReconcileBudget
  <2> QED
    BY <1>4, <1>5, <1>15, <2>2, <2>3, <2>4, <2>5, CallKeeps DEF Commit, Refund
<1>16. CASE ReconcileFails(c) \/ BrokerDies(c)
  <2>1. /\ call' \in [Calls -> [pc: Stages, op: Operations \cup {NoOperation}]]
        /\ call'[c].pc = "gone"
        /\ call'[c].op = call[c].op
        /\ \A x \in Calls \ {c} : call'[x] = call[x]
    BY <1>1, <1>16, GotoMoves DEF ReconcileFails, BrokerDies, Stages
  <2>2. HoldsFor(c)'
    BY <1>1, <1>16, <2>1 DEF ReconcileFails, BrokerDies, HoldsFor, Unreserved, Holding
  <2> QED
    BY <1>3, <1>4, <1>5, <1>16, <2>1, <2>2, CallKeeps DEF ReconcileFails, BrokerDies
<1> QED
  BY <1>6, <1>7, <1>8, <1>9, <1>10, <1>11, <1>12, <1>13, <1>14, <1>15, <1>16 DEF CallStep

(* The invariant is inductive.                                             *)
LEMMA NextIInv == IInv /\ [Next]_vars => IInv'
<1> SUFFICES ASSUME IInv, [Next]_vars PROVE IInv'
  OBVIOUS
<1>1. SessionType
  BY TypeParts DEF IInv
<1>2. CASE \E c \in Calls : CallStep(c) \/ BrokerDies(c) \/ \E op \in Operations : Begin(c, op)
  BY <1>2, CallStepIInv
<1>3. CASE SessionEnds
  <2>1. SessionType'
    BY <1>1, <1>3 DEF SessionEnds, SessionType, danger
  <2> QED
    BY <1>3, <2>1, EnvironmentKeeps DEF SessionEnds
<1>4. CASE RiskRises
  <2>1. SessionType'
    BY <1>1, <1>4 DEF RiskRises, SessionType
  <2> QED
    BY <1>4, <2>1, EnvironmentKeeps DEF RiskRises
<1>5. CASE UNCHANGED vars
  <2>1. SessionType'
    BY <1>1, <1>5 DEF vars, SessionType
  <2> QED
    BY <1>5, <2>1, EnvironmentKeeps DEF vars, budget
<1> QED
  BY <1>2, <1>3, <1>4, <1>5 DEF Next

(* In every reachable state each call has reserved and done what its stage *)
(* says, and the types hold.                                               *)
THEOREM BrokerInvariant == Spec => []IInv
  BY InitIInv, NextIInv, PTL DEF Spec

(* No counter of a session's budget ever passes its profile's limit, for   *)
(* any number of concurrent broker calls (budget.rs                        *)
(* reserve_in_transaction, reconcile_budget).                              *)
THEOREM CountersStayWithinLimit == Spec => []TypeOK
<1>1. IInv => TypeOK
  BY DEF IInv
<1> QED
  BY <1>1, BrokerInvariant, PTL

(* A side effect is never refunded, whatever fails or dies afterwards      *)
(* (broker.rs, the commit after every operation), but for the free git     *)
(* stage, the effects their broker was told had failed and the connections *)
(* outside their validated resolution.                                     *)
THEOREM EffectsStayHeld == Spec => []EffectIsHeld
<1>1. IInv => EffectIsHeld
  BY DEF IInv
<1> QED
  BY <1>1, BrokerInvariant, PTL

(* A session that has ended begins no call and obtains no reservation, and *)
(* only calls that held one before still act (budget.rs                    *)
(* require_active_semantic_session), or a git stage that had begun.        *)
THEOREM EndedSessionsDrain == Spec => EndedSessionDrains
<1> DEFINE Drains ==
      status = "ended" =>
          /\ WithStatus("pending")' \subseteq WithStatus("pending")
          /\ \A c \in Calls : At(c, "idle") => call'[c] = call[c]
          /\ \A c \in Calls : effect'[c] # effect[c] =>
                 c \in WithStatus("pending") \/ call[c].op.kind \in FreeKinds
<1>1. ASSUME IInv, [Next]_vars PROVE [Drains]_vars
  <2> SUFFICES ASSUME status = "ended" PROVE Drains
    BY DEF Drains
  <2>1. ASSUME UNCHANGED <<reservation, effect, call>> PROVE Drains
    BY <2>1 DEF WithStatus
  <2>2. ASSUME NEW c \in Calls,
               CallStep(c) \/ BrokerDies(c) \/ \E op \in Operations : Begin(c, op)
        PROVE  Drains
    <3>1. ~Reserve(c) /\ ~\E op \in Operations : Begin(c, op)
      BY DEF Reserve, Reservable, Begin
    <3>2. call[c].pc # "idle" /\ \E stage : Goto(c, stage)
      BY <2>2, <3>1 DEF CallStep, Permit, Capture, CaptureFails, ReserveRefused, Verify, Perform,
         PerformFails, PerformOverdue, PerformAstray, Commit, Refund, ReconcileFails, BrokerDies,
         Advance, GiveBack, At
    <3>3. \A x \in Calls : At(x, "idle") => call'[x] = call[x]
      BY <1>1, <3>2 DEF Goto, At, IInv, TypeOK
    <3>4. CASE Perform(c) \/ PerformOverdue(c) \/ PerformAstray(c)
      <4>1. c \in WithStatus("pending") \/ call[c].op.kind \in FreeKinds
        BY <1>1, <3>4 DEF IInv, StageHolds, Holding, Perform, PerformOverdue, PerformAstray, At,
           WithStatus
      <4>2. /\ UNCHANGED reservation
            /\ \A x \in Calls \ {c} : effect'[x] = effect[x]
        BY <1>1, <3>4 DEF Perform, PerformOverdue, PerformAstray, budget, IInv, TypeOK
      <4> QED
        BY <3>3, <4>1, <4>2 DEF WithStatus
    <3>5. CASE Commit(c) \/ Refund(c)
      <4>1. PICK verdict \in {"committed", "refunded"} : Reconciled(c, verdict)
        BY <3>5 DEF Commit, Refund
      <4>2. \A x \in Calls : reservation'[x].status = "pending" => reservation[x].status = "pending"
        BY <1>1, <4>1 DEF Reconciled, IInv, TypeOK
      <4>3. UNCHANGED effect
        BY <3>5 DEF Commit, Refund
      <4> QED
        BY <3>3, <4>2, <4>3 DEF WithStatus
    <3>6. CASE \/ Permit(c) \/ Capture(c) \/ CaptureFails(c) \/ ReserveRefused(c) \/ Verify(c)
               \/ PerformFails(c) \/ ReconcileFails(c) \/ BrokerDies(c)
      <4>1. UNCHANGED <<reservation, effect>>
        BY <3>6 DEF Permit, Capture, CaptureFails, ReserveRefused, Verify, PerformFails,
           ReconcileFails, BrokerDies, budget
      <4> QED
        BY <3>3, <4>1 DEF WithStatus
    <3> QED
      BY <2>2, <3>1, <3>4, <3>5, <3>6 DEF CallStep
  <2>3. CASE SessionEnds \/ RiskRises \/ UNCHANGED vars
    BY <2>1, <2>3 DEF SessionEnds, RiskRises, vars, budget
  <2> QED
    BY <1>1, <2>2, <2>3 DEF Next
<1> QED
  BY <1>1, BrokerInvariant, PTL DEF Spec, EndedSessionDrains

-----------------------------------------------------------------------------
(* What a step does to the budget: one call reserves, one reservation is   *)
(* reconciled, or nothing.                                                 *)
LEMMA BudgetSteps ==
    ASSUME IInv, [Next]_vars
    PROVE  \/ UNCHANGED budget
           \/ \E c \in Calls : Reserve(c)
           \/ \E c \in Calls : Commit(c) \/ Refund(c)
<1>1. ASSUME NEW c \in Calls,
             CallStep(c) \/ BrokerDies(c) \/ \E op \in Operations : Begin(c, op)
      PROVE  UNCHANGED budget \/ Reserve(c) \/ Commit(c) \/ Refund(c)
  BY <1>1 DEF CallStep, Permit, Capture, CaptureFails, ReserveRefused, Verify, Perform,
     PerformFails, PerformOverdue, PerformAstray, ReconcileFails, BrokerDies, Begin
<1>2. CASE SessionEnds \/ RiskRises \/ UNCHANGED vars
  BY <1>2 DEF SessionEnds, RiskRises, vars, budget
<1> QED
  BY <1>1, <1>2 DEF Next

(* Amounts of one dimension, by call.                                      *)
Amounts(d) == [c \in Calls |-> reservation[c].charges[d]]

LEMMA AmountsType ==
    ASSUME TypeOK, NEW d \in Dimensions, NEW s
    PROVE  /\ IsFiniteSet(WithStatus(s))
           /\ \A c \in Calls : Amounts(d)[c] \in Int /\ Amounts(d)[c] = reservation[c].charges[d]
           /\ \A c \in WithStatus(s) : c \in Calls /\ Amounts(d)[c] \in Int
<1>1. WithStatus(s) \subseteq Calls
  BY DEF WithStatus
<1>2. IsFiniteSet(WithStatus(s))
  BY <1>1, BrokerAssumption, FS_Subset
<1>3. \A c \in Calls : reservation[c].charges[d] \in Int
  BY DEF TypeOK
<1> QED
  BY <1>1, <1>2, <1>3 DEF Amounts

LEMMA ReserveBalances ==
    ASSUME IInv, IInv', LedgerBalances, NEW c \in Calls, Reserve(c)
    PROVE  LedgerBalances'
<1> DEFINE charges == Charges(call[c].op)
<1>1. TypeOK /\ TypeOK' /\ reservation[c].status = "none"
  BY DEF IInv, StageHolds, Unreserved, Reserve, At
<1>2. reservation' = [reservation EXCEPT ![c] = [status |-> "pending", charges |-> charges]]
  BY DEF Reserve
<1>3. counter' = [d \in Dimensions |-> [counter[d] EXCEPT !.reserved = @ + charges[d]]]
  BY DEF Reserve
<1> HIDE DEF charges
<1>4. /\ reservation'[c] = [status |-> "pending", charges |-> charges]
      /\ \A x \in Calls \ {c} : reservation'[x] = reservation[x]
  BY <1>1, <1>2 DEF TypeOK
<1>5. /\ WithStatus("pending")' = WithStatus("pending") \cup {c} /\ c \notin WithStatus("pending")
      /\ WithStatus("committed")' = WithStatus("committed") /\ c \notin WithStatus("committed")
  BY <1>1, <1>4 DEF WithStatus
<1>6. SUFFICES ASSUME NEW d \in Dimensions
               PROVE  /\ counter'[d].reserved = Charged(d, WithStatus("pending"))'
                      /\ counter'[d].consumed = Charged(d, WithStatus("committed"))'
  BY DEF LedgerBalances
<1>7. /\ counter'[d].reserved = counter[d].reserved + charges[d]
      /\ counter'[d].consumed = counter[d].consumed
  BY <1>1, <1>3 DEF TypeOK
<1> DEFINE f == Amounts(d)
           g == Amounts(d)'
           P == WithStatus("pending")
           C == WithStatus("committed")
<1>8. /\ IsFiniteSet(P) /\ IsFiniteSet(C)
      /\ \A x \in P : x \in Calls /\ f[x] \in Int
      /\ \A x \in C : x \in Calls /\ f[x] \in Int
  BY <1>1, AmountsType
<1>9. /\ \A x \in Calls : g[x] = reservation'[x].charges[d] /\ g[x] \in Int
      /\ \A x \in Calls : f[x] = reservation[x].charges[d]
  BY <1>1 DEF Amounts, TypeOK
<1>10. g[c] = charges[d] /\ g[c] \in Int /\ \A x \in Calls \ {c} : g[x] = f[x]
  BY <1>4, <1>9
<1>11. /\ Charged(d, WithStatus("pending"))' = SumFunctionOnSet(g, P \cup {c})
       /\ Charged(d, WithStatus("committed"))' = SumFunctionOnSet(g, C)
       /\ counter[d].reserved = SumFunctionOnSet(f, P)
       /\ counter[d].consumed = SumFunctionOnSet(f, C)
  BY <1>5 DEF Charged, Amounts, LedgerBalances
<1>12. c \notin P /\ c \notin C
  BY <1>5
<1> HIDE DEF f, g, P, C
<1>13. SumFunctionOnSet(g, P \cup {c}) = SumFunctionOnSet(f, P) + g[c]
  <2>1. IsFiniteSet(P) /\ (\A x \in P : f[x] \in Int /\ g[x] = f[x]) /\ g[c] \in Int
    BY <1>8, <1>10, <1>12
  <2> QED
    BY <1>12, <2>1, SumGains
<1>14. SumFunctionOnSet(g, C) = SumFunctionOnSet(f, C)
  BY <1>8, <1>10, <1>12, SumSame
<1> QED
  BY <1>7, <1>10, <1>11, <1>13, <1>14

LEMMA ReconcileBalances ==
    ASSUME IInv, IInv', LedgerBalances, NEW c \in Calls, NEW verdict \in {"committed", "refunded"},
           Reconciled(c, verdict)
    PROVE  LedgerBalances'
<1> DEFINE charges == reservation[c].charges
<1>1. TypeOK /\ TypeOK' /\ reservation[c].status = "pending"
  BY DEF IInv, Reconciled
<1>2. reservation' = [reservation EXCEPT ![c].status = verdict]
  BY DEF Reconciled
<1>3. counter' = [d \in Dimensions |->
              [consumed |-> counter[d].consumed + (IF verdict = "committed" THEN charges[d] ELSE 0),
               reserved |-> counter[d].reserved - charges[d]]]
  BY DEF Reconciled
<1>4. /\ reservation'[c].status = verdict /\ reservation'[c].charges = charges
      /\ \A x \in Calls \ {c} : reservation'[x] = reservation[x]
  BY <1>1, <1>2 DEF TypeOK
<1>5. /\ WithStatus("pending")' = WithStatus("pending") \ {c} /\ c \in WithStatus("pending")
      /\ c \notin WithStatus("committed")
      /\ WithStatus("committed")' = IF verdict = "committed" THEN WithStatus("committed") \cup {c}
                                    ELSE WithStatus("committed")
  <2>1. WithStatus("pending")' = WithStatus("pending") \ {c} /\ c \in WithStatus("pending")
    BY <1>1, <1>4 DEF WithStatus
  <2>2. c \notin WithStatus("committed")
    BY <1>1 DEF WithStatus
  <2>3. CASE verdict = "committed"
    BY <1>1, <1>4, <2>1, <2>2, <2>3 DEF WithStatus
  <2>4. CASE verdict # "committed"
    BY <1>1, <1>4, <2>1, <2>2, <2>4 DEF WithStatus
  <2> QED
    BY <2>1, <2>2, <2>3, <2>4
<1>6. SUFFICES ASSUME NEW d \in Dimensions
               PROVE  /\ counter'[d].reserved = Charged(d, WithStatus("pending"))'
                      /\ counter'[d].consumed = Charged(d, WithStatus("committed"))'
  BY DEF LedgerBalances
<1>7. /\ counter'[d].reserved = counter[d].reserved - charges[d]
      /\ counter'[d].consumed = counter[d].consumed + (IF verdict = "committed" THEN charges[d] ELSE 0)
      /\ counter[d].consumed \in Nat /\ counter[d].reserved \in Nat
  BY <1>1, <1>3 DEF TypeOK
<1> DEFINE f == Amounts(d)
           g == Amounts(d)'
           P == WithStatus("pending")
           C == WithStatus("committed")
<1>8. /\ IsFiniteSet(P) /\ IsFiniteSet(C)
      /\ \A x \in P : x \in Calls /\ f[x] \in Int
      /\ \A x \in C : x \in Calls /\ f[x] \in Int
  BY <1>1, AmountsType
<1>9. /\ \A x \in Calls : g[x] = reservation'[x].charges[d] /\ g[x] \in Int
      /\ \A x \in Calls : f[x] = reservation[x].charges[d]
  BY <1>1 DEF Amounts, TypeOK
<1>10. g[c] = charges[d] /\ g[c] \in Int /\ \A x \in Calls : g[x] = f[x]
  BY <1>4, <1>9
<1>11. /\ Charged(d, WithStatus("pending"))' = SumFunctionOnSet(g, WithStatus("pending")')
       /\ Charged(d, WithStatus("committed"))' = SumFunctionOnSet(g, WithStatus("committed")')
       /\ counter[d].reserved = SumFunctionOnSet(f, P)
       /\ counter[d].consumed = SumFunctionOnSet(f, C)
  BY DEF Charged, Amounts, LedgerBalances
<1>12. c \in P /\ c \notin C
  BY <1>5
<1> HIDE DEF f, g, P, C, charges
<1>13. SumFunctionOnSet(g, P \ {c}) = SumFunctionOnSet(f, P) - f[c]
  BY <1>8, <1>10, <1>12, SumLoses
<1>14. SumFunctionOnSet(g, C) = SumFunctionOnSet(f, C)
  BY <1>8, <1>10, SumSame
<1>15. SumFunctionOnSet(g, C \cup {c}) = SumFunctionOnSet(f, C) + g[c]
  BY <1>8, <1>10, <1>12, SumGains
<1>16. counter'[d].reserved = Charged(d, WithStatus("pending"))'
  BY <1>5, <1>7, <1>10, <1>11, <1>13 DEF P
<1>17. CASE verdict = "committed"
  BY <1>5, <1>7, <1>10, <1>11, <1>15, <1>16, <1>17 DEF C
<1>18. CASE verdict # "committed"
  BY <1>5, <1>7, <1>10, <1>11, <1>14, <1>16, <1>18 DEF C
<1> QED
  BY <1>17, <1>18

(* The counters are the reservations in every reachable state: what is     *)
(* reserved is what the pending reservations hold and what is consumed is  *)
(* what the committed ones spent, however many calls run, fail and die     *)
(* (budget.rs reserve_in_transaction, reconcile_budget).                   *)
THEOREM CountersAreTheReservations == Spec => []LedgerBalances
<1>1. ASSUME Init PROVE LedgerBalances
  <2>1. WithStatus("pending") = {} /\ WithStatus("committed") = {}
    BY <1>1 DEF Init, WithStatus
  <2>2. \A d \in Dimensions : counter[d].reserved = 0 /\ counter[d].consumed = 0
    BY <1>1 DEF Init
  <2> QED
    BY <2>1, <2>2, SumEmpty DEF LedgerBalances, Charged
<1>2. ASSUME LedgerBalances, IInv, IInv', [Next]_vars PROVE LedgerBalances'
  <2>1. CASE UNCHANGED budget
    BY <1>2, <2>1 DEF LedgerBalances, Charged, WithStatus, budget
  <2>2. CASE \E c \in Calls : Reserve(c)
    BY <1>2, <2>2, ReserveBalances
  <2>3. CASE \E c \in Calls : Commit(c) \/ Refund(c)
    BY <1>2, <2>3, ReconcileBalances DEF Commit, Refund
  <2> QED
    BY <1>2, <2>1, <2>2, <2>3, BudgetSteps
<1> QED
  BY <1>1, <1>2, BrokerInvariant, PTL DEF Spec

-----------------------------------------------------------------------------
(* The destinations a session has claimed.                                 *)
Claimed == {k \in Destinations : claim[k].status # "none"}

Claims(c) == [status |-> "pending", by |-> {c}]

(* What a call has to do with claims: a connection that holds or has spent *)
(* a reservation has its destination claimed, for good or by itself, and a *)
(* pending reservation pays for the one claim its call has made, if any.   *)
Owns(c) ==
    /\ call[c].op.kind = "connect" /\ reservation[c].status \in {"pending", "committed"}
          => \/ claim[call[c].op.dest].status = "committed"
             \/ claim[call[c].op.dest] = Claims(c) /\ reservation[c].status = "pending"
    /\ reservation[c].status = "pending" =>
          \/ reservation[c].charges["network_destinations"] = 0
          \/ /\ reservation[c].charges["network_destinations"] = 1
             /\ call[c].op.dest \in Destinations /\ claim[call[c].op.dest] = Claims(c)
    /\ \A k \in Destinations : claim[k] = Claims(c) => k = call[c].op.dest

(* A claim is backed by the reservation that paid for it.                  *)
BackedBy(k, c) ==
    /\ claim[k].by = {c} /\ reservation[c].status = claim[k].status
    /\ reservation[c].charges["network_destinations"] = 1

Counted ==
    /\ IsFiniteSet(Claimed)
    /\ Cardinality(Claimed) = counter["network_destinations"].consumed
                                + counter["network_destinations"].reserved

ClaimInv ==
    /\ \A c \in Calls : Owns(c)
    /\ \A k \in Claimed : \E c \in Calls : BackedBy(k, c)
    /\ Counted

(* Only connections are charged a destination, and only for one that is    *)
(* not claimed.                                                            *)
LEMMA DestinationCharge ==
    ASSUME NEW op \in Operations
    PROVE  /\ op.kind \in Kinds /\ op.dest \in Destinations
           /\ Charges(op)["network_destinations"] =
                 IF op.kind = "connect" /\ claim[op.dest].status = "none" THEN 1 ELSE 0
<1>1. op.kind \in Kinds /\ op.dest \in Destinations
  BY BrokerAssumption DEF OperationRecords
<1>2. op.kind \notin FreeKinds => UnitDimension(op.kind) # "network_destinations"
  BY <1>1 DEF UnitDimension, Kinds, FilesystemKinds, GitKinds, FreeKinds
<1> QED
  BY <1>1, <1>2 DEF Charges, Dimensions

(* A step that leaves the budget alone changes no operation of a call that *)
(* has reserved.                                                           *)
LEMMA IdleBudgetClaims ==
    ASSUME IInv, ClaimInv, [Next]_vars, UNCHANGED budget
    PROVE  ClaimInv'
<1>1. TypeOK /\ StageHolds
  BY DEF IInv
<1>2. ASSUME NEW c \in Calls
      PROVE  \/ call'[c].op = call[c].op
             \/ reservation[c].status = "none" /\ effect[c] = "none"
  <2>1. ASSUME NEW x \in Calls, NEW op \in Operations, Begin(x, op)
        PROVE  \/ call'[c].op = call[c].op
               \/ reservation[c].status = "none" /\ effect[c] = "none"
    BY <1>1, <2>1 DEF Begin, At, StageHolds, Unreserved, TypeOK
  <2>2. ASSUME NEW x \in Calls, NEW stage, Goto(x, stage)
        PROVE  call'[c].op = call[c].op
    BY <1>1, <2>2 DEF Goto, TypeOK
  <2>3. ASSUME NEW x \in Calls, CallStep(x) \/ BrokerDies(x)
        PROVE  UNCHANGED call \/ \E stage : Goto(x, stage)
    BY <2>3 DEF CallStep, Permit, Capture, CaptureFails, Reserve, ReserveRefused, Verify, Perform,
       PerformFails, PerformOverdue, PerformAstray, Commit, Refund, ReconcileFails, BrokerDies,
       Advance, GiveBack
  <2>4. CASE SessionEnds \/ RiskRises \/ UNCHANGED vars
    BY <2>4 DEF SessionEnds, RiskRises, vars
  <2> QED
    BY <2>1, <2>2, <2>3, <2>4 DEF Next
<1>4. counter' = counter /\ reservation' = reservation /\ claim' = claim
  BY DEF budget
<1>5. ASSUME NEW c \in Calls PROVE Owns(c)'
  <2>1. Owns(c)
    BY DEF ClaimInv
  <2>3. CASE call'[c].op = call[c].op
    BY <1>4, <2>1, <2>3 DEF Owns, Claims
  <2>4. CASE reservation[c].status = "none"
    <3>1. ASSUME NEW k \in Destinations PROVE claim[k] # Claims(c)
      <4>1. SUFFICES ASSUME claim[k] = Claims(c) PROVE FALSE
        OBVIOUS
      <4>2. k \in Claimed /\ claim[k].by = {c} /\ claim[k].status = "pending"
        BY <4>1 DEF Claimed, Claims
      <4>3. PICK x \in Calls : BackedBy(k, x)
        BY <4>2 DEF ClaimInv
      <4> QED
        BY <2>4, <4>2, <4>3 DEF BackedBy
    <3> QED
      BY <1>4, <2>4, <3>1 DEF Owns, Claims
  <2> QED
    BY <1>2, <2>3, <2>4
<1> QED
  BY <1>4, <1>5 DEF ClaimInv, Claimed, Counted, BackedBy

(* No claim is a call's own before it reserves.                            *)
LEMMA NoneClaimsNothing ==
    ASSUME ClaimInv, NEW c \in Calls, reservation[c].status = "none", NEW k \in Claimed
    PROVE  /\ claim[k].by # {c}
           /\ \E x \in Calls \ {c} : BackedBy(k, x)
<1>1. PICK x \in Calls : BackedBy(k, x)
  BY DEF ClaimInv
<1>2. x # c
  BY <1>1 DEF BackedBy, Claimed
<1>3. claim[k].by # {c}
  BY <1>1, <1>2 DEF BackedBy
<1> QED
  BY <1>1, <1>2, <1>3

LEMMA ReserveClaims ==
    ASSUME IInv, IInv', ClaimInv, NEW c \in Calls, Reserve(c)
    PROVE  ClaimInv'
<1> DEFINE op == call[c].op
           charges == Charges(op)
           n == charges["network_destinations"]
<1>1. /\ TypeOK /\ TypeOK' /\ op \in Operations
      /\ reservation[c].status = "none" /\ effect[c] = "none"
  BY DEF IInv, StageHolds, Unreserved, Reserve, At
<1>2. /\ op.dest \in Destinations
      /\ n = IF op.kind = "connect" /\ claim[op.dest].status = "none" THEN 1 ELSE 0
  BY <1>1, DestinationCharge
<1>3. op.kind = "connect" => claim[op.dest].status # "pending"
  BY DEF Reserve, Reservable
<1>4. /\ reservation'[c].status = "pending" /\ reservation'[c].charges = charges
      /\ \A x \in Calls \ {c} : reservation'[x] = reservation[x]
  BY <1>1 DEF Reserve, TypeOK
<1>5. call'[c].op = op /\ \A x \in Calls \ {c} : call'[x] = call[x]
  BY <1>1 DEF Reserve, Advance, Goto, TypeOK
<1>6. claim' = IF n = 1 THEN [claim EXCEPT ![op.dest] = Claims(c)] ELSE claim
  BY DEF Reserve, Claims
<1>7. effect' = effect
  BY DEF Reserve
<1>8. /\ counter'["network_destinations"].reserved = counter["network_destinations"].reserved + n
      /\ counter'["network_destinations"].consumed = counter["network_destinations"].consumed
      /\ counter["network_destinations"].reserved \in Nat
      /\ counter["network_destinations"].consumed \in Nat
  BY <1>1 DEF Reserve, TypeOK, Dimensions
<1> HIDE DEF n, charges
<1>9. CASE n = 1
  <2>1. op.kind = "connect" /\ claim[op.dest].status = "none"
    BY <1>2, <1>9
  <2>2. claim'[op.dest] = Claims(c) /\ \A k \in Destinations \ {op.dest} : claim'[k] = claim[k]
    BY <1>1, <1>2, <1>6, <1>9 DEF TypeOK
  <2>3. Claimed' = Claimed \cup {op.dest} /\ op.dest \notin Claimed
    BY <1>2, <2>1, <2>2 DEF Claimed, Claims
  <2>4. Owns(c)'
    <3>1. ASSUME NEW k \in Destinations, claim'[k] = Claims(c) PROVE k = op.dest
      <4>1. SUFFICES ASSUME k # op.dest PROVE FALSE
        OBVIOUS
      <4>2. claim[k] = Claims(c)
        BY <2>2, <3>1, <4>1
      <4>3. k \in Claimed /\ claim[k].by = {c}
        BY <4>2 DEF Claimed, Claims
      <4> QED
        BY <1>1, <4>3, NoneClaimsNothing
    <3> QED
      BY <1>1, <1>2, <1>4, <1>5, <1>7, <1>9, <2>2, <3>1 DEF Owns, Claims, n
  <2>5. ASSUME NEW x \in Calls \ {c} PROVE Owns(x)'
    <3>1. Owns(x) /\ Claims(x) # Claims(c)
      BY DEF ClaimInv, Claims
    <3>2. \A k \in Destinations : claim'[k] = Claims(x) => claim[k] = Claims(x)
      BY <2>2, <3>1
    <3>3. \A k \in Destinations : claim[k].status # "none" => claim'[k] = claim[k]
      BY <2>1, <2>2
    <3>4. call[x].op.kind = "connect" /\ reservation[x].status \in {"pending", "committed"}
             => call[x].op.dest \in Destinations
      <4>1. reservation[x].status # "none" => call[x].pc # "idle"
        BY DEF IInv, StageHolds, Unreserved
      <4>2. call[x].op \in Operations => call[x].op.dest \in Destinations
        BY DestinationCharge
      <4> QED
        BY <4>1, <4>2 DEF IInv, StageHolds
    <3>5. /\ reservation'[x] = reservation[x] /\ call'[x] = call[x] /\ effect'[x] = effect[x]
          /\ Claims(x).status = "pending"
      BY <1>4, <1>5, <1>7 DEF Claims
    <3>6. call[x].op.kind = "connect" /\ reservation[x].status \in {"pending", "committed"}
             => claim'[call[x].op.dest] = claim[call[x].op.dest]
      BY <3>1, <3>3, <3>4, <3>5 DEF Owns
    <3>7. reservation[x].status = "pending" /\ reservation[x].charges["network_destinations"] = 1
             => call[x].op.dest \in Destinations /\ claim'[call[x].op.dest] = Claims(x)
      BY <3>1, <3>3, <3>5 DEF Owns
    <3> QED
      BY <3>1, <3>2, <3>5, <3>6, <3>7 DEF Owns, Claims
  <2>6. ASSUME NEW k \in Claimed' PROVE \E x \in Calls : BackedBy(k, x)'
    <3>1. CASE k = op.dest
      <4>1. BackedBy(k, c)'
        BY <1>4, <1>9, <2>2, <3>1 DEF BackedBy, Claims, n
      <4> QED
        BY <4>1
    <3>2. CASE k # op.dest
      <4>1. k \in Claimed
        BY <2>3, <3>2
      <4>2. PICK x \in Calls \ {c} : BackedBy(k, x)
        BY <1>1, <4>1, NoneClaimsNothing
      <4>3. claim'[k] = claim[k]
        BY <2>2, <3>2, <4>1 DEF Claimed
      <4>4. BackedBy(k, x)'
        BY <1>4, <4>2, <4>3 DEF BackedBy
      <4> QED
        BY <4>4
    <3> QED
      BY <3>1, <3>2
  <2>7. Counted'
    <3>1. /\ IsFiniteSet(Claimed \cup {op.dest})
          /\ Cardinality(Claimed \cup {op.dest}) = Cardinality(Claimed) + 1
      BY <2>3, FS_AddElement DEF ClaimInv, Counted
    <3> QED
      BY <1>8, <1>9, <2>3, <3>1 DEF ClaimInv, Counted
  <2> QED
    BY <2>4, <2>5, <2>6, <2>7 DEF ClaimInv
<1>10. CASE n # 1
  <2>1. n = 0 /\ claim' = claim /\ (op.kind = "connect" => claim[op.dest].status # "none")
    BY <1>2, <1>6, <1>10
  <2>2. Claimed' = Claimed
    BY <2>1 DEF Claimed
  <2>3. Owns(c)'
    <3>1. ASSUME NEW k \in Destinations PROVE claim[k] # Claims(c)
      BY <1>1, NoneClaimsNothing DEF Claimed, Claims
    <3>2. op.kind = "connect" => claim[op.dest].status = "committed"
      BY <1>1, <1>2, <1>3, <2>1 DEF TypeOK
    <3> QED
      BY <1>1, <1>4, <1>5, <1>7, <2>1, <3>1, <3>2 DEF Owns, Claims, n
  <2>4. ASSUME NEW x \in Calls \ {c} PROVE Owns(x)'
    BY <1>4, <1>5, <1>7, <2>1 DEF ClaimInv, Owns, Claims
  <2>5. ASSUME NEW k \in Claimed' PROVE \E x \in Calls : BackedBy(k, x)'
    <3>1. PICK x \in Calls \ {c} : BackedBy(k, x)
      BY <1>1, <2>2, NoneClaimsNothing
    <3>2. BackedBy(k, x)'
      BY <1>4, <2>1, <3>1 DEF BackedBy
    <3> QED
      BY <3>2
  <2>6. Counted'
    BY <1>8, <2>1, <2>2 DEF ClaimInv, Counted
  <2> QED
    BY <2>3, <2>4, <2>5, <2>6 DEF ClaimInv
<1> QED
  BY <1>9, <1>10

LEMMA ReconcileClaims ==
    ASSUME IInv, IInv', ClaimInv, NEW c \in Calls, Commit(c) \/ Refund(c)
    PROVE  ClaimInv'
<1> DEFINE n == reservation[c].charges["network_destinations"]
           home == call[c].op.dest
<1>1. PICK verdict \in {"committed", "refunded"} :
          /\ Reconciled(c, verdict)
          /\ verdict = "refunded" => call[c].pc = "refund"
  BY DEF Commit, Refund, At
<1>2. TypeOK /\ TypeOK' /\ reservation[c].status = "pending" /\ Owns(c)
  BY <1>1 DEF IInv, Reconciled, ClaimInv
<1>3. /\ reservation'[c].status = verdict /\ reservation'[c].charges = reservation[c].charges
      /\ \A x \in Calls \ {c} : reservation'[x] = reservation[x]
  BY <1>1, <1>2 DEF Reconciled, TypeOK
<1>4. \A x \in Calls : call'[x].op = call[x].op
  <2>1. call' = [call EXCEPT ![c].pc = "done"]
    BY DEF Commit, Refund, Goto
  <2> QED
    BY <1>2, <2>1 DEF TypeOK
<1>5. effect' = effect
  BY DEF Commit, Refund
<1>6. \A k \in Destinations : claim[k] = Claims(c) <=> claim[k].status = "pending" /\ claim[k].by = {c}
  <2>1. \A k \in Destinations : claim[k] = [status |-> claim[k].status, by |-> claim[k].by]
    BY <1>2 DEF TypeOK
  <2>2. ASSUME NEW k \in Destinations
        PROVE  claim[k] = Claims(c) <=> claim[k].status = "pending" /\ claim[k].by = {c}
    <3>1. CASE claim[k] = Claims(c)
      BY <3>1 DEF Claims
    <3>2. CASE claim[k].status = "pending" /\ claim[k].by = {c}
      BY <2>1, <3>2 DEF Claims
    <3> QED
      BY <3>1, <3>2
  <2> QED
    BY <2>2
<1>7. /\ \A k \in Destinations : claim[k] # Claims(c) => claim'[k] = claim[k]
      /\ \A k \in Destinations : claim[k] = Claims(c) =>
             IF verdict = "committed" THEN claim'[k] = [status |-> "committed", by |-> {c}]
             ELSE claim'[k] = [status |-> "none", by |-> {}]
  <2>1. \A k \in Destinations : claim[k] # Claims(c) => claim'[k] = claim[k]
    BY <1>1, <1>6 DEF Reconciled
  <2>2. ASSUME NEW k \in Destinations, claim[k] = Claims(c)
        PROVE  IF verdict = "committed" THEN claim'[k] = [status |-> "committed", by |-> {c}]
               ELSE claim'[k] = [status |-> "none", by |-> {}]
    BY <1>1, <1>6, <2>2 DEF Reconciled, Claims
  <2> QED
    BY <2>1, <2>2
<1>8. /\ counter'["network_destinations"].reserved = counter["network_destinations"].reserved - n
      /\ counter'["network_destinations"].consumed =
             counter["network_destinations"].consumed + (IF verdict = "committed" THEN n ELSE 0)
      /\ counter["network_destinations"].reserved \in Nat /\ n \in Nat
      /\ counter["network_destinations"].consumed \in Nat
  <2>1. "network_destinations" \in Dimensions
    BY DEF Dimensions
  <2>2. counter' = [d \in Dimensions |->
              [consumed |-> counter[d].consumed
                              + (IF verdict = "committed" THEN reservation[c].charges[d] ELSE 0),
               reserved |-> counter[d].reserved - reservation[c].charges[d]]]
    BY <1>1 DEF Reconciled
  <2>3. /\ counter["network_destinations"].reserved \in Nat /\ n \in Nat
        /\ counter["network_destinations"].consumed \in Nat
    BY <1>2, <2>1 DEF TypeOK
  <2> QED
    BY <2>1, <2>2, <2>3
<1>9. n = 0 \/ (n = 1 /\ home \in Destinations /\ claim[home] = Claims(c))
  BY <1>2 DEF Owns
<1>10. \A k \in Destinations : claim[k] = Claims(c) => k = home /\ n = 1
  <2>1. ASSUME NEW k \in Destinations, claim[k] = Claims(c) PROVE k = home /\ n = 1
    <3>1. k \in Claimed /\ claim[k].by = {c}
      BY <2>1 DEF Claimed, Claims
    <3>2. PICK x \in Calls : BackedBy(k, x)
      BY <3>1 DEF ClaimInv
    <3>3. x = c
      BY <3>1, <3>2 DEF BackedBy
    <3> QED
      BY <1>2, <2>1, <3>2, <3>3 DEF BackedBy, Owns
  <2> QED
    BY <2>1
<1> HIDE DEF n
<1>11. Owns(c)'
  <2>1. ASSUME NEW k \in Destinations PROVE claim'[k] # Claims(c)
    BY <1>7 DEF Claims
  <2>2. ASSUME verdict = "committed", call[c].op.kind = "connect"
        PROVE  claim'[home].status = "committed"
    <3>1. home \in Destinations
      <4>1. call[c].op \in Operations
        BY <1>2 DEF IInv, StageHolds, Unreserved
      <4> QED
        BY <4>1, DestinationCharge
    <3>2. claim[home].status = "committed" \/ claim[home] = Claims(c)
      BY <1>2, <2>2 DEF Owns
    <3> QED
      BY <1>7, <2>2, <3>1, <3>2 DEF Claims
  <2> QED
    BY <1>2, <1>3, <1>4, <1>5, <2>1, <2>2 DEF Owns, Claims
<1>12. ASSUME NEW x \in Calls \ {c} PROVE Owns(x)'
  <2>1. Owns(x) /\ Claims(x) # Claims(c)
    BY DEF ClaimInv, Claims
  <2>2. \A k \in Destinations : claim'[k] = Claims(x) => claim[k] = Claims(x)
    BY <1>7, <2>1 DEF Claims
  <2>3. \A k \in Destinations : claim[k].status = "committed" \/ claim[k] = Claims(x)
                                   => claim'[k] = claim[k]
    BY <1>7, <2>1 DEF Claims
  <2>4. call[x].op.kind = "connect" /\ reservation[x].status \in {"pending", "committed"}
           => call[x].op.dest \in Destinations
    <3>1. reservation[x].status # "none" => call[x].pc # "idle"
      BY DEF IInv, StageHolds, Unreserved
    <3>2. call[x].op \in Operations => call[x].op.dest \in Destinations
      BY DestinationCharge
    <3> QED
      BY <3>1, <3>2 DEF IInv, StageHolds
  <2> QED
    BY <1>3, <1>4, <1>5, <2>1, <2>2, <2>3, <2>4 DEF Owns, Claims
<1>13. ASSUME NEW k \in Claimed' PROVE \E x \in Calls : BackedBy(k, x)'
  <2>1. k \in Destinations /\ claim'[k].status # "none"
    BY DEF Claimed
  <2>2. CASE claim[k] = Claims(c)
    <3>1. verdict = "committed" /\ claim'[k] = [status |-> "committed", by |-> {c}] /\ n = 1
      BY <1>7, <1>10, <2>1, <2>2
    <3>2. BackedBy(k, c)'
      BY <1>3, <3>1 DEF BackedBy, n
    <3> QED
      BY <3>2
  <2>3. CASE claim[k] # Claims(c)
    <3>1. claim'[k] = claim[k] /\ k \in Claimed
      BY <1>7, <2>1, <2>3 DEF Claimed
    <3>2. PICK x \in Calls : BackedBy(k, x)
      BY <3>1 DEF ClaimInv
    <3>3. x # c
      BY <1>2, <1>6, <2>1, <2>3, <3>2 DEF BackedBy
    <3>4. BackedBy(k, x)'
      BY <1>3, <3>1, <3>2, <3>3 DEF BackedBy
    <3> QED
      BY <3>4
  <2> QED
    BY <2>2, <2>3
<1>14. Counted'
  <2>1. CASE verdict = "committed" \/ n = 0
    <3>1. Claimed' = Claimed
      BY <1>7, <1>10, <2>1 DEF Claimed, Claims
    <3> QED
      BY <1>8, <2>1, <3>1 DEF ClaimInv, Counted
  <2>2. CASE verdict # "committed" /\ n # 0
    <3>1. n = 1 /\ home \in Destinations /\ claim[home] = Claims(c)
      BY <1>9, <2>2
    <3>2. Claimed' = Claimed \ {home} /\ home \in Claimed
      BY <1>7, <1>10, <2>2, <3>1 DEF Claimed, Claims
    <3>3. /\ IsFiniteSet(Claimed \ {home})
          /\ Cardinality(Claimed \ {home}) = Cardinality(Claimed) - 1
      BY <3>2, FS_RemoveElement DEF ClaimInv, Counted
    <3> QED
      BY <1>8, <2>2, <3>1, <3>2, <3>3 DEF ClaimInv, Counted
  <2> QED
    BY <2>1, <2>2
<1> QED
  BY <1>11, <1>12, <1>13, <1>14 DEF ClaimInv

(* In every reachable state each destination a session has reached and     *)
(* kept is claimed, each claim is backed by the reservation that paid for  *)
(* it, and the number of claims is what the session has been charged for   *)
(* destinations (budget.rs reserve_network_budget, reconcile_budget).      *)
THEOREM EveryDestinationIsPaidOnce == Spec => []DestinationsPaidOnce
<1>1. ASSUME Init PROVE ClaimInv
  <2>1. Claimed = {} /\ \A k \in Destinations : claim[k].status = "none"
    BY <1>1 DEF Init, Claimed
  <2>2. Counted
    BY <1>1, <2>1, FS_EmptySet DEF Init, Counted, Dimensions
  <2>3. \A c \in Calls : Owns(c)
    BY <1>1, <2>1 DEF Init, Owns, Claims
  <2> QED
    BY <2>1, <2>2, <2>3 DEF ClaimInv
<1>2. ASSUME ClaimInv, IInv, IInv', [Next]_vars PROVE ClaimInv'
  BY <1>2, BudgetSteps, IdleBudgetClaims, ReserveClaims, ReconcileClaims
<1>3. ASSUME ClaimInv, IInv PROVE DestinationsPaidOnce
  <2>1. ASSUME NEW c \in Calls, effect[c] = "done", call[c].op.kind = "connect"
        PROVE  call[c].op.dest \in Claimed
    <3>1. Owns(c) /\ effect[c] = "done"
      BY <1>3, <2>1 DEF ClaimInv
    <3>2. reservation[c].status \in {"pending", "committed"} /\ call[c].op \in Operations
      BY <1>3, <2>1, <3>1 DEF IInv, EffectIsHeld, StageHolds, Unreserved, FreeKinds
    <3>3. call[c].op.dest \in Destinations
      BY <3>2, DestinationCharge
    <3> QED
      BY <2>1, <3>1, <3>2, <3>3 DEF Owns, Claims, Claimed
  <2> QED
    BY <1>3, <2>1 DEF DestinationsPaidOnce, ClaimInv, Counted, BackedBy, Claimed
<1> QED
  BY <1>1, <1>2, <1>3, BrokerInvariant, PTL DEF Spec
=============================================================================
