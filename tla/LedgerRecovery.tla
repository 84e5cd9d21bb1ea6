--------------------------- MODULE LedgerRecovery ---------------------------
(***************************************************************************)
(* Restart recovery (qntyspot/ledger/recovery.py) over the spot ledger.    *)
(*                                                                         *)
(* recover() reads every intent once, decides what each must become, and   *)
(* then makes one transition per intent, each in a transaction of its own. *)
(* Between the reading and any of those writes the process may crash, and  *)
(* another connection to the same database may move an intent, so the plan *)
(* is a stale snapshot by the time it is carried out.  A transition the    *)
(* ledger refuses raises, and the rest of the plan is not carried out; the *)
(* recovery is then run again.                                             *)
(***************************************************************************)
EXTENDS SpotLedger

CONSTANT MaxCrashes     \* bound on the crashes explored

ASSUME CrashAssumption == MaxCrashes \in Nat

VARIABLES
    origin,             \* how an action's transaction came to exist, if it did
    phase,              \* of the process that recovers
    plan,               \* to_state of the RecoveryAction of each listed intent
    todo,               \* intents of the plan not yet moved
    crashes             \* crashes so far

recoveryVars == <<phase, plan, todo, crashes>>
vars == <<ledgerVars, origin, recoveryVars>>

NoPlan == [a \in Actions |-> "NONE"]

-----------------------------------------------------------------------------
(* The other connections. *)

\* An intent enters SIGNED with its signed_transactions row when the execution
\* tables exist; an action that already has an external reference is refused.
SigningOrigin ==
    LET signing == {a \in Actions : state[a] # "SIGNED" /\ state'[a] = "SIGNED"}
    IN IF ExecutionSurface
       THEN /\ \A a \in signing : origin[a] = "NONE"
            /\ origin' = [a \in Actions |-> IF a \in signing THEN "SIGNED" ELSE origin[a]]
       ELSE UNCHANGED origin

\* record_external_transaction_reference: a transaction somebody else created.
RecordExternalReference(a) ==
    /\ ExecutionSurface
    /\ state[a] \in {"RESERVED", "INCLUDED", "CONFIRMED", "RECONCILED", "SAFE_HALT"}
    /\ origin[a] = "NONE"
    /\ origin' = [origin EXCEPT ![a] = "EXTERNAL"]
    /\ UNCHANGED <<ledgerVars, recoveryVars>>

\* Any other connection: a call of the ledger, or a reference recorded.
Worker ==
    /\ \/ LedgerNext /\ SigningOrigin
       \/ \E a \in Actions : RecordExternalReference(a)
    /\ UNCHANGED recoveryVars

-----------------------------------------------------------------------------
(* recover() *)

\* The mutant completes a RECONCILED intent without looking for its receipt.
Disposition_AssumesReceipt(a) ==
    CASE state[a] \in {"NONE"} \cup TERMINAL_STATES -> "NONE"
      [] state[a] \in PRE_COMMITMENT_STATES        -> "CANCELLED"
      [] state[a] = "RECONCILED"                   -> "FILLED"
      [] OTHER                                     -> "SAFE_HALT"

\* The mutant takes a RECONCILED intent for one that has ended.
Disposition_SkipsReconciled(a) ==
    CASE state[a] \in {"NONE", "RECONCILED"} \cup TERMINAL_STATES -> "NONE"
      [] state[a] \in PRE_COMMITMENT_STATES                      -> "CANCELLED"
      [] OTHER                                                   -> "SAFE_HALT"

\* What one row of the snapshot must become: abandoned before anything could
\* happen outside, completed when a receipt is already durable, halted otherwise.
Disposition(a) ==
    LET referenced == state[a] = "RESERVED" /\ origin[a] = "EXTERNAL"
    IN CASE state[a] \in {"NONE"} \cup TERMINAL_STATES               -> "NONE"
         [] state[a] \in PRE_COMMITMENT_STATES /\ ~referenced       -> "CANCELLED"
         [] state[a] = "RECONCILED" /\ ReceiptsOf(a) # {}           -> "FILLED"
         [] OTHER                                                   -> "SAFE_HALT"

RecoverRead ==
    /\ phase = "DOWN"
    /\ phase' = "RECOVERING"
    /\ plan' = [a \in Actions |-> Disposition(a)]
    /\ todo' = {a \in Actions : plan'[a] # "NONE"}
    /\ UNCHANGED <<ledgerVars, origin, crashes>>

RecoverStep(a) ==
    /\ phase = "RECOVERING"
    /\ a \in todo
    /\ MoveIntent(a, plan[a])
    /\ todo' = todo \ {a}
    /\ UNCHANGED <<admitted, cycle, carry, bounds, receipts, recon, seen>>
    /\ UNCHANGED <<origin, phase, plan, crashes>>

\* The mutant skips an intent the ledger refuses to move and goes on.
RecoverRaise_SkipsOne(a) ==
    /\ phase = "RECOVERING"
    /\ a \in todo
    /\ ~TransitionAllowed(a, plan[a])
    /\ todo' = todo \ {a}
    /\ UNCHANGED <<ledgerVars, origin, phase, plan, crashes>>

\* IllegalTransitionError leaves recover(); its remaining actions are lost with it.
RecoverRaise(a) ==
    /\ phase = "RECOVERING"
    /\ a \in todo
    /\ ~TransitionAllowed(a, plan[a])
    /\ phase' = "DOWN"
    /\ plan' = NoPlan
    /\ todo' = {}
    /\ UNCHANGED <<ledgerVars, origin, crashes>>

RecoverReturn ==
    /\ phase = "RECOVERING"
    /\ todo = {}
    /\ phase' = "UP"
    /\ UNCHANGED <<ledgerVars, origin, plan, todo, crashes>>

\* The process stops: its plan and what callers had read are gone, the database
\* is not.
Crash ==
    /\ crashes < MaxCrashes
    /\ phase # "DOWN"
    /\ crashes' = crashes + 1
    /\ phase' = "DOWN"
    /\ plan' = NoPlan
    /\ todo' = {}
    /\ seen' = [c \in Cycles |-> 0]
    /\ UNCHANGED <<admitted, cycle, carry, state, bounds, resv, receipts, recon, origin>>

Recovery ==
    \/ RecoverRead
    \/ \E a \in Actions : RecoverStep(a) \/ RecoverRaise(a)
    \/ RecoverReturn

Init ==
    /\ LedgerInit
    /\ origin = [a \in Actions |-> "NONE"]
    /\ phase = "UP"
    /\ plan = NoPlan
    /\ todo = {}
    /\ crashes = 0

Next ==
    \/ Worker
    \/ Recovery
    \/ Crash

Spec == Init /\ [][Next]_vars

\* The loop of recover() goes on while its process lives, and a restart whose
\* recovery raised is started again.
FairSpec == Spec /\ WF_vars(Recovery)

-----------------------------------------------------------------------------
(* Properties. *)

\* The capital of an action that may exist outside the process is never freed by
\* any step, of a worker or of a recovery acting on a reading taken before the
\* action was signed: only a recorded reverted outcome could free it.
SignedCapitalNeverFreed ==
    [][\A a \in Actions :
         state[a] \in EXTERNALLY_AMBIGUOUS_STATES \cup {"RECONCILED"} /\ recon[a] # "REVERTED" =>
             resv'[a] # "RELEASED" /\ state'[a] \notin RELEASING_STATES]_vars

\* A recovery that plans to complete an intent has the evidence for it in the
\* database at every moment until it does, whatever other connections do.
CompletionHasReceipt ==
    \A a \in todo : plan[a] = "FILLED" =>
        /\ ReceiptsOf(a) # {}
        /\ state[a] \in {"RECONCILED", "FILLED", "SAFE_HALT"}

\* A recovery that returns has ended every intent it listed, though each was moved
\* by a transaction of its own and others may have moved them in between.
ReturnMeansEnded ==
    phase = "UP" => \A a \in Actions : plan[a] # "NONE" => state[a] \in TERMINAL_STATES

\* After a crash every intent that was running ends, in spite of further crashes
\* during the recovery and of plans cut short by a refused transition.
RunningIntentsEnd ==
    \A a \in Actions :
        (phase = "DOWN" /\ state[a] \notin {"NONE"} \cup TERMINAL_STATES) ~>
            (state[a] \in TERMINAL_STATES)

\* A recovery never plans to abandon an action that has a transaction, its own or
\* an external one, at the moment the recovery reads it.
TransactionsNotAbandoned ==
    [][phase = "DOWN" /\ phase' = "RECOVERING" =>
         \A a \in Actions : origin[a] # "NONE" => plan'[a] # "CANCELLED"]_vars

\* The intents recovery moved in the step, while it goes on.
RecoveredNow == IF phase' = "RECOVERING" THEN todo \ todo' ELSE {}

\* recovery.py:100 on an action with an external reference: "restart must
\* reconcile chain truth and may not release its hold".
RestartKeepsReferencedHold ==
    [][\A a \in RecoveredNow : origin[a] = "EXTERNAL" => resv'[a] # "RELEASED"]_vars

=============================================================================
