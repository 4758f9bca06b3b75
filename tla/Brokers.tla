------------------------------- MODULE Brokers -------------------------------
(***************************************************************************)
(* The semantic brokers of crates/vigil-local and the budget they draw on: *)
(* the filesystem broker (broker.rs), the network broker                   *)
(* (network_broker.rs), the process, git and secret brokers, and the       *)
(* transactional counters, reservations and destination claims of          *)
(* budget.rs, for one session.                                             *)
(*                                                                         *)
(* A broker call is a process of its own.  Its shape is the same in every  *)
(* broker: check the session, ask for authority, reserve, perform the side *)
(* effect, then commit the reservation or refund it.  Each of these is a   *)
(* separate transaction or system call, so other calls run in between and  *)
(* the process may die at any point; nothing in the code resumes a call.   *)
(*                                                                         *)
(* Authorization is one step here (LocalAuthority opens it up): the ladder *)
(* has said ALLOW, or a lease has, and the session's risk may degrade it.  *)
(* Event rows and results are left out: no decision reads them.            *)
(***************************************************************************)
EXTENDS LocalPolicy, FiniteSets, Functions

CONSTANTS
    Calls,          \* broker calls; a call's reservation carries its name
    Operations,     \* what may be asked of a broker (see OperationRecords)
    Destinations,   \* canonical host:port keys
    Limit,          \* budget_limit of the session's profile, by dimension
    MaxSingleWrite  \* its max_single_write_bytes

FilesystemKinds == {"read", "list", "create", "write", "delete", "rename"}
GitKinds        == {"stage", "commit", "push"}
Kinds           == FilesystemKinds \cup GitKinds \cup {"exec", "connect", "secret"}

(* The kinds that charge nothing and so reserve nothing (git_broker.rs, an *)
(* empty list of charges).  Git's status, diff and log are charged nothing *)
(* either and change nothing; they are left out.                           *)
FreeKinds == {"stage"}

(* A requested operation: a write has a size, a connection a destination.  *)
OperationRecords == [kind: Kinds, size: Nat, dest: Destinations]

(* BudgetDimension, without max_single_write_bytes (a bound per operation, *)
(* never a charge) and the two dimensions no broker charges.               *)
Dimensions == {"file_reads", "file_creates", "file_writes", "file_deletes", "file_renames",
               "total_write_bytes", "process_executions", "network_connections",
               "network_destinations", "brokered_secret_uses", "git_commits", "git_pushes"}

ASSUME BrokerAssumption ==
    /\ IsFiniteSet(Calls)
    /\ Operations \subseteq OperationRecords
    /\ Limit \in [Dimensions -> Nat]
    /\ MaxSingleWrite \in Nat

VARIABLES
    status,         \* sessions.status: "running", or "ended" by finish or seal
    risk,           \* sessions.risk_state
    scores,         \* the risk dimensions broker denials load
    counter,        \* budget_counters: consumed and reserved, by dimension
    reservation,    \* budget_reservations with their items, by call
    claim,          \* network_destination_claims, by destination
    call,           \* each call: where it stands and what it does
    effect          \* what the call has done to the world (history)

budget == <<counter, reservation, claim>>
danger == <<scores, risk>>
vars   == <<status, risk, scores, counter, reservation, claim, call, effect>>

-----------------------------------------------------------------------------
(* The action a kind of operation is authorized as, and the dimension that *)
(* counts it.                                                              *)
ActionOf(kind) ==
    CASE kind = "read"    -> "fs.read"       [] kind = "list"   -> "fs.list"
      [] kind = "create"  -> "fs.create"     [] kind = "write"  -> "fs.write"
      [] kind = "delete"  -> "fs.delete"     [] kind = "rename" -> "fs.rename"
      [] kind = "exec"    -> "process.exec"  [] kind = "connect" -> "network.connect"
      [] kind = "commit"  -> "git.commit"    [] kind = "push"   -> "git.push"
      [] kind = "stage"   -> "git.stage"     [] kind = "secret" -> "secret.use"

UnitDimension(kind) ==
    CASE kind \in {"read", "list"} -> "file_reads"
      [] kind = "create"  -> "file_creates"        [] kind = "write"  -> "file_writes"
      [] kind = "delete"  -> "file_deletes"        [] kind = "rename" -> "file_renames"
      [] kind = "exec"    -> "process_executions"  [] kind = "connect" -> "network_connections"
      [] kind = "commit"  -> "git_commits"         [] kind = "push"   -> "git_pushes"
      [] kind = "secret"  -> "brokered_secret_uses"

NoCharge == [d \in Dimensions |-> 0]

(* The charges of an operation: one unit, the bytes of a write, and one    *)
(* destination unit for a destination the session has not claimed.         *)
Charges(op) ==
    [d \in Dimensions |->
        IF op.kind \notin FreeKinds /\ d = UnitDimension(op.kind) THEN 1
        ELSE IF d = "total_write_bytes" /\ op.kind \in {"create", "write"} THEN op.size
        ELSE IF d = "network_destinations" /\ op.kind = "connect"
                  /\ claim[op.dest].status = "none" THEN 1
        ELSE 0]

(* What a permitted request may do under the session's risk.  The secret   *)
(* broker consults its own exact grants and no session risk.               *)
Permitted(kind) ==
    \/ kind = "secret"
    \/ DegradeForRisk(ActionOf(kind), "allow", risk) = "allow"

(* reserve_in_transaction: every dimension has room for its charge.        *)
Room(charges) ==
    \A d \in Dimensions : counter[d].consumed + counter[d].reserved + charges[d] <= Limit[d]

(* Mutant: a destination whose first use is undecided counts as known.     *)
ReservableUndecided(op) ==
    /\ op.kind \in {"create", "write"} => op.size \in 1..MaxSingleWrite
    /\ status = "running"
    /\ Room(Charges(op))

(* Mutant: the session is trusted to be still running.                     *)
ReservableUnchecked(op) ==
    /\ op.kind \in {"create", "write"} => op.size \in 1..MaxSingleWrite
    /\ op.kind = "connect" => claim[op.dest].status # "pending"
    /\ Room(Charges(op))

(* The checks before and inside the reserving transaction: the single      *)
(* write bound, positive charges, an active session, and a destination     *)
(* whose first use is not still undecided.                                 *)
Reservable(op) ==
    /\ op.kind \in {"create", "write"} => op.size \in 1..MaxSingleWrite
    /\ status = "running"
    /\ op.kind = "connect" => claim[op.dest].status # "pending"
    /\ Room(Charges(op))

(* The order of a call's stages.  A read or a listing, and likewise a      *)
(* connection or the use of a secret: permit, reserve, act, settle.        *)
ReadOrder(stage) ==
    CASE stage = "permit" -> "reserve" [] stage = "perform" -> "commit" [] OTHER -> "perform"

(* A write or rename captures its preimage once it has reserved, a delete  *)
(* before it does.                                                         *)
WriteOrder(stage)  == IF stage = "reserve" THEN "capture" ELSE ReadOrder(stage)
DeleteOrder(stage) == CASE stage = "permit"  -> "capture"
                        [] stage = "capture" -> "reserve"
                        [] OTHER -> ReadOrder(stage)

(* An executable is verified again between the reservation and the spawn.  *)
ExecuteOrder(stage) == IF stage = "reserve" THEN "verify" ELSE ReadOrder(stage)

(* GitBroker::run without charges goes straight from permit to effect.     *)
GitOrder(kind, stage) ==
    IF kind \notin FreeKinds THEN ReadOrder(stage)
    ELSE IF stage = "perform" THEN "done" ELSE "perform"

Following(kind, stage) ==
    CASE kind \in {"create", "write", "rename"} -> WriteOrder(stage)
      [] kind = "delete"   -> DeleteOrder(stage)
      [] kind = "exec"     -> ExecuteOrder(stage)
      [] kind \in GitKinds -> GitOrder(kind, stage)
      [] OTHER -> ReadOrder(stage)

At(c, stage)   == call[c].pc = stage
Goto(c, stage) == call' = [call EXCEPT ![c].pc = stage]
Advance(c)     == Goto(c, Following(call[c].op.kind, call[c].pc))

(* The error paths after a failed effect: refund the reservation, if any.  *)
GiveBack(c) == Goto(c, IF call[c].op.kind \in FreeKinds THEN "done" ELSE "refund")

(* record_risk_signal: the score saturates at the highest threshold.       *)
Signal(label) ==
    LET rule   == RuleForLabel(label)
        raised == scores[rule.dimension] + rule.weight
    IN  /\ scores' = [scores EXCEPT ![rule.dimension] =
                         IF raised < QuarantinedAt THEN raised ELSE QuarantinedAt]
        /\ risk' = MaxRisk(AggregateState(scores'), risk)

(* A refused reservation is a detection in the filesystem broker           *)
(* (record_budget_denial) and only an event in the others.                 *)
RecordBudgetDenial(kind) ==
    IF kind \in FilesystemKinds THEN Signal("budget_exhaustion") ELSE UNCHANGED danger

-----------------------------------------------------------------------------
NoOperation == [kind |-> "none"]

Init ==
    /\ status = "running" /\ risk = Normal
    /\ scores = [d \in {"destructive_behavior", "process_anomaly"} |-> 0]
    /\ counter = [d \in Dimensions |-> [consumed |-> 0, reserved |-> 0]]
    /\ reservation = [c \in Calls |-> [status |-> "none", charges |-> NoCharge]]
    /\ claim = [k \in Destinations |-> [status |-> "none", by |-> {}]]
    /\ call = [c \in Calls |-> [pc |-> "idle", op |-> NoOperation]]
    /\ effect = [c \in Calls |-> "none"]

(* session_context: a broker serves a running semantic session only.       *)
Begin(c, op) ==
    /\ At(c, "idle") /\ status = "running"
    /\ call' = [call EXCEPT ![c] = [pc |-> "permit", op |-> op]]
    /\ UNCHANGED <<status, danger, budget, effect>>

(* require_permit: authority is asked for and a refusal ends the call.     *)
Permit(c) ==
    /\ At(c, "permit")
    /\ IF Permitted(call[c].op.kind) THEN Advance(c) ELSE Goto(c, "done")
    /\ UNCHANGED <<status, danger, budget, effect>>

(* capture_preimage succeeds, before a delete or after a write's or a      *)
(* rename's reservation.                                                   *)
Capture(c) ==
    /\ At(c, "capture") /\ Advance(c)
    /\ UNCHANGED <<status, danger, budget, effect>>

(* Mutant: a write, like a rename, returns without its refund.             *)
CaptureFailsUnrefunded(c) ==
    /\ At(c, "capture") /\ Goto(c, "done")
    /\ IF call[c].op.kind = "delete" THEN RecordBudgetDenial("delete") ELSE UNCHANGED danger
    /\ UNCHANGED <<status, budget, effect>>

(* It fails.  A write gives its reservation back; a delete holds none and  *)
(* records a budget denial; a rename returns the error as it is, with its  *)
(* reservation still held.                                                 *)
CaptureFails(c) ==
    /\ At(c, "capture")
    /\ CASE call[c].op.kind = "delete" -> RecordBudgetDenial("delete") /\ Goto(c, "done")
         [] call[c].op.kind = "rename" -> Goto(c, "gone") /\ UNCHANGED danger
         [] OTHER                      -> Goto(c, "refund") /\ UNCHANGED danger
    /\ UNCHANGED <<status, budget, effect>>

(* reserve_budget and reserve_network_budget: every charge or none, in one *)
(* immediate transaction, with the claim of a new destination.             *)
Reserve(c) ==
    LET op == call[c].op charges == Charges(op)
    IN  /\ At(c, "reserve") /\ Reservable(op)
        /\ counter' = [d \in Dimensions |-> [counter[d] EXCEPT !.reserved = @ + charges[d]]]
        /\ reservation' = [reservation EXCEPT ![c] = [status |-> "pending", charges |-> charges]]
        /\ claim' = IF charges["network_destinations"] = 1
                    THEN [claim EXCEPT ![op.dest] = [status |-> "pending", by |-> {c}]]
                    ELSE claim
        /\ Advance(c)
        /\ UNCHANGED <<status, danger, effect>>

(* The reservation is refused, by one of the checks or by the store.       *)
ReserveRefused(c) ==
    /\ At(c, "reserve")
    /\ RecordBudgetDenial(call[c].op.kind)
    /\ Goto(c, "done")
    /\ UNCHANGED <<status, budget, effect>>

(* The process broker confirms the executable's identity once more; a      *)
(* change is a critical signal and the call ends with its reservation held.*)
Verify(c) ==
    /\ At(c, "verify")
    /\ \/ Advance(c) /\ UNCHANGED danger
       \/ Signal("executable_identity_changed") /\ Goto(c, "gone")
    /\ UNCHANGED <<status, budget, effect>>

(* The side effect happens.                                                *)
Perform(c) ==
    /\ At(c, "perform")
    /\ effect' = [effect EXCEPT ![c] = "done"]
    /\ Advance(c)
    /\ UNCHANGED <<status, danger, budget>>

(* The side effect fails and has not happened.                             *)
PerformFails(c) ==
    /\ At(c, "perform")
    /\ GiveBack(c)
    /\ UNCHANGED <<status, danger, budget, effect>>

(* The broker is told of an error by something that has acted: run_git     *)
(* kills the child at its deadline and what the child had done by then     *)
(* stays done; a secret's provider may fail after it has used the secret.  *)
PerformOverdue(c) ==
    /\ At(c, "perform") /\ call[c].op.kind \in GitKinds \cup {"secret"}
    /\ effect' = [effect EXCEPT ![c] = "late"]
    /\ GiveBack(c)
    /\ UNCHANGED <<status, danger, budget>>

(* The network source connected, to an address outside the resolution that *)
(* was validated.  The broker refuses the connection it has been handed    *)
(* and refunds the reservation, the claim of its destination included.     *)
PerformAstray(c) ==
    /\ At(c, "perform") /\ call[c].op.kind = "connect"
    /\ effect' = [effect EXCEPT ![c] = "astray"]
    /\ GiveBack(c)
    /\ UNCHANGED <<status, danger, budget>>

(* Mutant: committed units are consumed and stay reserved.                 *)
ReconciledTwiceCounted(c, verdict) ==
    LET charges == reservation[c].charges
    IN  /\ reservation[c].status = "pending"
        /\ counter' = [d \in Dimensions |->
              IF verdict = "committed" THEN [counter[d] EXCEPT !.consumed = @ + charges[d]]
              ELSE [counter[d] EXCEPT !.reserved = @ - charges[d]]]
        /\ reservation' = [reservation EXCEPT ![c].status = verdict]
        /\ UNCHANGED claim

(* reconcile_budget: a pending reservation moves from reserved to consumed *)
(* or is given back, and the claim it made is settled with it.             *)
Reconciled(c, verdict) ==
    LET charges == reservation[c].charges
    IN  /\ reservation[c].status = "pending"
        /\ \A d \in Dimensions : counter[d].reserved >= charges[d]
        /\ counter' = [d \in Dimensions |->
              [consumed |-> counter[d].consumed + (IF verdict = "committed" THEN charges[d] ELSE 0),
               reserved |-> counter[d].reserved - charges[d]]]
        /\ reservation' = [reservation EXCEPT ![c].status = verdict]
        /\ claim' = [k \in Destinations |->
              IF claim[k].status # "pending" \/ claim[k].by # {c} THEN claim[k]
              ELSE IF verdict = "committed" THEN [claim[k] EXCEPT !.status = "committed"]
              ELSE [status |-> "none", by |-> {}]]

(* commit_budget after the side effect.                                    *)
Commit(c) ==
    /\ At(c, "commit") /\ Reconciled(c, "committed")
    /\ Goto(c, "done")
    /\ UNCHANGED <<status, danger, effect>>

(* refund_budget after a failure.                                          *)
Refund(c) ==
    /\ At(c, "refund") /\ Reconciled(c, "refunded")
    /\ Goto(c, "done")
    /\ UNCHANGED <<status, danger, effect>>

(* Mutant: a commit that fails is followed by a refund.                    *)
ReconcileFailsRefunding(c) ==
    /\ call[c].pc \in {"commit", "refund"}
    /\ Goto(c, "refund")
    /\ UNCHANGED <<status, danger, budget, effect>>

(* The store refuses the commit or the refund, or (for an execution) the   *)
(* attribution before it: the caller gets the error and the reservation    *)
(* stays as it is.                                                         *)
ReconcileFails(c) ==
    /\ call[c].pc \in {"commit", "refund"}
    /\ Goto(c, "gone")
    /\ UNCHANGED <<status, danger, budget, effect>>

(* The broker's process dies.  No code picks the call up again.            *)
BrokerDies(c) ==
    /\ call[c].pc \notin {"idle", "done", "gone"}
    /\ Goto(c, "gone")
    /\ UNCHANGED <<status, danger, budget, effect>>

(* finish_session or seal_session, by another process.                     *)
SessionEnds ==
    /\ status = "running" /\ status' = "ended"
    /\ UNCHANGED <<danger, budget, call, effect>>

(* A detection or a response elsewhere raises the session's risk.          *)
RiskRises ==
    /\ \E state \in RiskStates : state > risk /\ risk' = state
    /\ UNCHANGED <<status, scores, budget, call, effect>>

CallStep(c) ==
    \/ Permit(c) \/ Capture(c) \/ CaptureFails(c) \/ Reserve(c) \/ ReserveRefused(c)
    \/ Verify(c) \/ Perform(c) \/ PerformFails(c) \/ PerformOverdue(c)
    \/ PerformAstray(c) \/ Commit(c) \/ Refund(c) \/ ReconcileFails(c)

Next ==
    \/ \E c \in Calls : CallStep(c) \/ BrokerDies(c) \/ \E op \in Operations : Begin(c, op)
    \/ SessionEnds
    \/ RiskRises

Spec == Init /\ [][Next]_vars

(* A broker call is straight-line code on a thread of its own: once begun  *)
(* it runs on until it returns or its process dies.                        *)
FairSpec == Spec /\ \A c \in Calls : WF_vars(CallStep(c))

-----------------------------------------------------------------------------
Effects == {"none", "done", "late", "astray"}

Stages == {"idle", "permit", "capture", "reserve", "verify", "perform", "commit", "refund",
           "done", "gone"}

(* The state is well typed, and no counter passes its profile's limit      *)
(* (the CHECK constraints of the budget_counters table).                   *)
TypeOK ==
    /\ status \in {"running", "ended"}
    /\ risk \in RiskStates
    /\ scores \in [{"destructive_behavior", "process_anomaly"} -> 0..QuarantinedAt]
    /\ counter \in [Dimensions -> [consumed: Nat, reserved: Nat]]
    /\ \A d \in Dimensions : counter[d].consumed + counter[d].reserved <= Limit[d]
    /\ reservation \in [Calls -> [status: {"none", "pending", "committed", "refunded"},
                                 charges: [Dimensions -> Nat]]]
    /\ claim \in [Destinations -> [status: {"none", "pending", "committed"}, by: SUBSET Calls]]
    /\ call \in [Calls -> [pc: Stages, op: Operations \cup {NoOperation}]]
    /\ effect \in [Calls -> Effects]

(* The total charged to a dimension by some of the calls.                  *)
Charged(d, calls) == SumFunctionOnSet([c \in Calls |-> reservation[c].charges[d]], calls)

WithStatus(s) == {c \in Calls : reservation[c].status = s}

(* The counters are the reservations: what is reserved is exactly what     *)
(* pending reservations hold and what is consumed exactly what committed   *)
(* ones spent, through every crash, refusal and failed reconciliation      *)
(* (budget.rs keeps the two in separate tables and updates both).          *)
LedgerBalances ==
    \A d \in Dimensions :
        /\ counter[d].reserved = Charged(d, WithStatus("pending"))
        /\ counter[d].consumed = Charged(d, WithStatus("committed"))

(* A side effect is paid for: its reservation is committed or still held,  *)
(* whatever fails afterwards (broker.rs "Never report it as a clean denial *)
(* or refund the reservation").  Three kinds of effect are not: a git      *)
(* stage reserves nothing; a git command killed at its deadline or a       *)
(* secret's provider that failed may have acted, and is refunded as if it  *)
(* had not; and a connection made to an address outside its validated      *)
(* resolution is refunded after it was made (network_broker.rs:290).       *)
EffectIsHeld ==
    \A c \in Calls : effect[c] # "none" =>
        \/ reservation[c].status \in {"pending", "committed"}
        \/ call[c].op.kind \in FreeKinds
        \/ effect[c] = "late" /\ call[c].op.kind \in GitKinds \cup {"secret"}
        \/ effect[c] = "astray" /\ call[c].op.kind = "connect"

(* Every destination a session was connected to and kept is claimed, every *)
(* claim is backed by the reservation that paid for it, and each is paid   *)
(* for once, so the distinct destinations kept stay within                 *)
(* network_destinations (reserve_network_budget).  A connection that went  *)
(* astray is not among them: its claim is refunded with its reservation,   *)
(* so the profile does not bound how many there are.                       *)
DestinationsPaidOnce ==
    LET claimed == {k \in Destinations : claim[k].status # "none"}
    IN  /\ \A c \in Calls : effect[c] = "done" /\ call[c].op.kind = "connect"
                               => call[c].op.dest \in claimed
        /\ \A k \in claimed : \E c \in Calls :
              /\ claim[k].by = {c} /\ reservation[c].status = claim[k].status
              /\ reservation[c].charges["network_destinations"] = 1
        /\ Cardinality(claimed) = counter["network_destinations"].consumed
                                    + counter["network_destinations"].reserved

(* Once a session has ended no call of it begins or obtains a reservation, *)
(* and what still happens to the world is done by calls that held one      *)
(* before: a call that saw the session running and was overtaken by a seal *)
(* gets nothing (budget.rs require_active_semantic_session re-checks       *)
(* inside the reserving transaction).  The exception is a git stage, which *)
(* reserves nothing and is not checked again: one that had begun may still *)
(* be permitted and act after the end (git_broker.rs:256).                 *)
EndedSessionDrains ==
    [][status = "ended" =>
          /\ WithStatus("pending")' \subseteq WithStatus("pending")
          /\ \A c \in Calls : At(c, "idle") => call'[c] = call[c]
          /\ \A c \in Calls : effect'[c] # effect[c] =>
                 c \in WithStatus("pending") \/ call[c].op.kind \in FreeKinds]_vars

(* A reservation is not held for ever by accident: every pending one is    *)
(* settled, unless the process died, the store refused to reconcile, or    *)
(* the call took one of the two error paths that return with the           *)
(* reservation held (pc "gone").                                           *)
EveryHoldSettles ==
    \A c \in Calls : (reservation[c].status = "pending")
                        ~> (reservation[c].status # "pending" \/ At(c, "gone"))
=============================================================================
