------------------------ MODULE LedgerRecoveryProofs ------------------------
(***************************************************************************)
(* Proofs about LedgerRecovery: for any number of intents, workers and     *)
(* crashes, and recoveries whose reading is stale when they act on it.     *)
(***************************************************************************)
EXTENDS LedgerRecovery, SpotLedgerProofs

-----------------------------------------------------------------------------
(* A recovery is one more caller of the ledger. *)

PlannedStates == {"NONE", "CANCELLED", "FILLED", "SAFE_HALT"}

\* The process that recovers keeps a plan, and nothing left to do, once it ends.
RecoveryTypeOK ==
    /\ origin \in [Actions -> {"NONE", "SIGNED", "EXTERNAL"}]
    /\ phase \in {"DOWN", "RECOVERING", "UP"}
    /\ plan \in [Actions -> PlannedStates]
    /\ todo = {} \/ phase = "RECOVERING"
    /\ \A a \in todo : a \in Actions /\ plan[a] # "NONE"

\* What one row of the snapshot must become is a state a recovery may ask for, and
\* an ended intent, or none at all, is left alone.
LEMMA DispositionType ==
    ASSUME NEW a \in Actions
    PROVE /\ Disposition(a) \in PlannedStates
          /\ Disposition(a) = "NONE" <=> state[a] \in {"NONE"} \cup TERMINAL_STATES
BY DEF Disposition, PlannedStates, PRE_COMMITMENT_STATES, TERMINAL_STATES

\* What a crash leaves of the ledger: the tables, and no caller's reading.
ReadingsLost ==
    /\ UNCHANGED <<admitted, cycle, carry, state, bounds, resv, receipts, recon>>
    /\ seen' = [c \in Cycles |-> 0]

\* recover() writes through transition(), so every step of the recovering system
\* is a step of the ledger, or none, or the loss of what callers had read.
LEMMA RecoveryUsesLedger ==
    ASSUME RecoveryTypeOK, [Next]_vars
    PROVE [LedgerNext]_ledgerVars \/ ReadingsLost
<1>1. CASE Worker
  BY <1>1 DEF Worker, RecordExternalReference
<1>2. CASE RecoverRead \/ RecoverReturn
  BY <1>2 DEF RecoverRead, RecoverReturn
<1>3. CASE \E a \in Actions : RecoverStep(a)
  <2>1. PICK a \in Actions : RecoverStep(a)
    BY <1>3
  <2>2. plan[a] \in IntentState
    BY <2>1 DEF RecoverStep, RecoveryTypeOK, PlannedStates, IntentState
  <2>3. Transition(a, plan[a])
    BY <2>1 DEF RecoverStep, Transition
  <2> QED
    BY <2>2, <2>3 DEF LedgerNext
<1>4. CASE \E a \in Actions : RecoverRaise(a)
  BY <1>4 DEF RecoverRaise
<1>5. CASE Crash
  BY <1>5 DEF Crash, ReadingsLost
<1>6. CASE UNCHANGED vars
  BY <1>6 DEF vars
<1> QED
  BY <1>1, <1>2, <1>3, <1>4, <1>5, <1>6 DEF Next, Recovery

LEMMA InitRecoveryTypeOK == Init => RecoveryTypeOK
BY DEF Init, RecoveryTypeOK, NoPlan, PlannedStates

LEMMA StepRecoveryTypeOK ==
    ASSUME RecoveryTypeOK, [Next]_vars
    PROVE RecoveryTypeOK'
<1>1. CASE LedgerNext /\ SigningOrigin /\ UNCHANGED recoveryVars
  BY <1>1 DEF SigningOrigin, RecoveryTypeOK, recoveryVars
<1>2. CASE \E a \in Actions : RecordExternalReference(a)
  BY <1>2 DEF RecordExternalReference, RecoveryTypeOK, recoveryVars
<1>3. CASE RecoverRead
  BY <1>3, DispositionType DEF RecoverRead, RecoveryTypeOK
<1>4. CASE \E a \in Actions : RecoverStep(a)
  BY <1>4 DEF RecoverStep, RecoveryTypeOK
<1>5. CASE \E a \in Actions : RecoverRaise(a)
  BY <1>5 DEF RecoverRaise, RecoveryTypeOK, NoPlan, PlannedStates
<1>6. CASE RecoverReturn
  BY <1>6 DEF RecoverReturn, RecoveryTypeOK
<1>7. CASE Crash
  BY <1>7 DEF Crash, RecoveryTypeOK, NoPlan, PlannedStates
<1>8. CASE UNCHANGED vars
  BY <1>8 DEF vars, recoveryVars, RecoveryTypeOK
<1> QED
  BY <1>1, <1>2, <1>3, <1>4, <1>5, <1>6, <1>7, <1>8 DEF Next, Worker, Recovery

-----------------------------------------------------------------------------
(* The capital of a running action, whoever moves its intent. *)

\* The tables keep their types, and the reservations what the lifecycle says of
\* them, across crashes and recoveries: a crash touches neither.
LEMMA LedgerSound == Spec => [](RecoveryTypeOK /\ TypeOK /\ CapitalFollowsLifecycle)
<1> DEFINE Sound == RecoveryTypeOK /\ TypeOK /\ CapitalFollowsLifecycle
<1>1. Init => Sound
  <2>1. ASSUME LedgerInit PROVE CapitalFollowsLifecycle
    BY <2>1 DEF LedgerInit, CapitalFollowsLifecycle, NoBounds, Exposure,
                BUDGET_HOLDING_STATES, EXTERNALLY_AMBIGUOUS_STATES
  <2> QED
    BY <2>1, InitRecoveryTypeOK, InitTypeOK DEF Init
<1>2. Sound /\ [Next]_vars => Sound'
  <2> SUFFICES ASSUME Sound, [Next]_vars
               PROVE Sound'
    OBVIOUS
  <2>1. RecoveryTypeOK'
    BY StepRecoveryTypeOK
  <2>2. CASE [LedgerNext]_ledgerVars
    BY <2>1, <2>2, StepTypeOK, StepCapital
  <2>3. CASE ReadingsLost
    BY <2>1, <2>3 DEF ReadingsLost, TypeOK, CapitalFollowsLifecycle, Exposure
  <2> QED
    BY <2>2, <2>3, RecoveryUsesLedger
<1> QED
  BY <1>1, <1>2, PTL DEF Spec

\* The tables of the ledger are well typed through crashes and recoveries.
THEOREM RecoveryTypeCorrect == Spec => []TypeOK
BY LedgerSound, PTL

\* integrity_check() holds of the reservations at every commit, of a worker or of
\* a recovery, and at every restart.
THEOREM RecoveryCapitalCorrect == Spec => []CapitalFollowsLifecycle
BY LedgerSound, PTL

\* What transition() does to the intent it is called for, and to no other.
LEMMA MoveIntentMoves ==
    ASSUME IntentsTyped, NEW b \in Actions, NEW to \in IntentState, MoveIntent(b, to)
    PROVE /\ TransitionAllowed(b, to)
          /\ state'[b] = to
          /\ resv'[b] = "RELEASED" => to \in RELEASING_STATES \/ resv[b] = "RELEASED"
          /\ \A c \in Actions \ {b} : resv'[c] = resv[c] /\ state'[c] = state[c]
<1>1. /\ TransitionAllowed(b, to)
      /\ ReservationEffect(b, to)
      /\ state' = [state EXCEPT ![b] = to]
  BY DEF MoveIntent
<1>2. \A c \in Actions \ {b} : resv'[c] = resv[c] /\ state'[c] = state[c]
  BY <1>1 DEF ReservationEffect, Reserve, SettleReservation, IntentsTyped
<1>3. resv'[b] = "RELEASED" => to \in RELEASING_STATES \/ resv[b] = "RELEASED"
  BY <1>1 DEF ReservationEffect, Reserve, SettleReservation, IntentsTyped
<1> QED
  BY <1>1, <1>2, <1>3 DEF IntentsTyped

\* A step of the ledger leaves an intent where it was or takes it along an edge
\* that transition() allows, or halts it on a fill outside its bounds.
LEMMA LedgerStepMoves ==
    ASSUME TypeOK, [LedgerNext]_ledgerVars, NEW a \in Actions
    PROVE \/ state'[a] = state[a] /\ resv'[a] = resv[a]
          \/ state[a] = "NONE" /\ state'[a] = "ARMED" /\ resv'[a] = resv[a]
          \/ \E to \in IntentState :
               /\ TransitionAllowed(a, to)
               /\ state'[a] = to
               /\ resv'[a] = "RELEASED" => to \in RELEASING_STATES \/ resv[a] = "RELEASED"
          \/ state[a] \in RECEIPT_STATES /\ state'[a] = "SAFE_HALT"
               /\ resv'[a] \in {resv[a], "QUARANTINED"}
<1>1. CASE UNCHANGED <<state, resv>>
  BY <1>1
<1>2. CASE \E b \in Actions : CreateIntent(b)
  BY <1>2 DEF CreateIntent, TypeOK
<1>3. CASE \E b \in Actions, to \in IntentState : Transition(b, to)
  <2>1. PICK b \in Actions, to \in IntentState : Transition(b, to)
    BY <1>3
  <2> QED
    BY <2>1, TypedIntents, MoveIntentMoves DEF Transition
<1>4. CASE \E row \in ReceiptRow : AppendFillReceipt(row)
  <2>1. PICK row \in ReceiptRow : AppendFillReceipt(row)
    BY <1>4
  <2>2. row.action \in Actions /\ state[row.action] \in RECEIPT_STATES
    BY <2>1 DEF AppendFillReceipt, InsertReceipt, ReceiptRow
  <2>3. ReceiptStateEffect(row.action, row)
    BY <2>1 DEF AppendFillReceipt, InsertReceipt
  <2> QED
    BY <2>2, <2>3 DEF ReceiptStateEffect, SettleReservation, TypeOK
<1> QED
  BY <1>1, <1>2, <1>3, <1>4
     DEF LedgerNext, ledgerVars, AdmitPolicy, OpenCycle, ReadInventory, CloseCycle,
         ContinueInventoryIntoSuccessorCycle

\* What transition() allows of an action that may exist outside: no ending that
\* frees its capital without a reverted outcome on record.
LEMMA SignedEdges ==
    ASSUME NEW a \in Actions, NEW to \in IntentState, TransitionAllowed(a, to),
           state[a] \in EXTERNALLY_AMBIGUOUS_STATES \cup {"RECONCILED"}, recon[a] # "REVERTED"
    PROVE to \notin RELEASING_STATES
BY DEF TransitionAllowed, TRANSITIONS, EXTERNALLY_AMBIGUOUS_STATES, RELEASING_STATES,
       HasBoundReverted, Abandoned

\* No step of a worker, of a recovery acting on a reading taken before the action
\* was signed, or of a crash, frees the capital of an action that may exist.
THEOREM SignedCapitalKept == Spec => SignedCapitalNeverFreed
<1> DEFINE Kept ==
      \A a \in Actions :
         state[a] \in EXTERNALLY_AMBIGUOUS_STATES \cup {"RECONCILED"} /\ recon[a] # "REVERTED" =>
             resv'[a] # "RELEASED" /\ state'[a] \notin RELEASING_STATES
<1>1. ASSUME RecoveryTypeOK, TypeOK, CapitalFollowsLifecycle, [Next]_vars
      PROVE Kept
  <2> SUFFICES ASSUME NEW a \in Actions,
                      state[a] \in EXTERNALLY_AMBIGUOUS_STATES \cup {"RECONCILED"},
                      recon[a] # "REVERTED"
               PROVE resv'[a] # "RELEASED" /\ state'[a] \notin RELEASING_STATES
    OBVIOUS
  <2>1. /\ state[a] \notin TERMINAL_STATES
        /\ state[a] # "NONE"
        /\ state[a] \notin RELEASING_STATES
    BY DEF EXTERNALLY_AMBIGUOUS_STATES, TERMINAL_STATES, RELEASING_STATES
  <2>2. resv[a] \in {"NONE", "ACTIVE"}
    BY <1>1, <2>1, TypedIntents, ReservationOfState
  <2>3. CASE [LedgerNext]_ledgerVars
    <3>1. CASE state'[a] = state[a] /\ resv'[a] = resv[a]
      BY <2>1, <2>2, <3>1
    <3>2. CASE \E to \in IntentState :
                 /\ TransitionAllowed(a, to)
                 /\ state'[a] = to
                 /\ resv'[a] = "RELEASED" => to \in RELEASING_STATES \/ resv[a] = "RELEASED"
      BY <2>2, <3>2, SignedEdges
    <3>3. CASE state'[a] = "SAFE_HALT" /\ resv'[a] \in {resv[a], "QUARANTINED"}
      BY <2>2, <3>3 DEF RELEASING_STATES
    <3> QED
      BY <1>1, <2>1, <2>3, <3>1, <3>2, <3>3, LedgerStepMoves
  <2>4. CASE ReadingsLost
    BY <2>1, <2>2, <2>4 DEF ReadingsLost
  <2> QED
    BY <1>1, <2>3, <2>4, RecoveryUsesLedger
<1> QED
  BY <1>1, LedgerSound, PTL DEF Spec, SignedCapitalNeverFreed

-----------------------------------------------------------------------------
(* The plan of a recovery against the ledger it was read from. *)

\* An intent that has ended stays where it ended: no ordinary transition leaves a
\* terminal state, and a late receipt only halts what is still running.
LEMMA EndedStaysEnded ==
    ASSUME TypeOK, [LedgerNext]_ledgerVars, NEW a \in Actions, state[a] \in TERMINAL_STATES
    PROVE state'[a] = state[a]
<1>1. state[a] # "NONE" /\ state[a] \in IntentState
  BY DEF TERMINAL_STATES, IntentState
<1>2. ~\E to \in IntentState : TransitionAllowed(a, to)
  BY TerminalHasNoExit DEF TransitionAllowed
<1>3. state[a] \in RECEIPT_STATES => state[a] = "SAFE_HALT"
  BY DEF TERMINAL_STATES, RECEIPT_STATES
<1> QED
  BY <1>1, <1>2, <1>3, LedgerStepMoves

\* Receipts are only ever added.
LEMMA ReceiptsGrow ==
    ASSUME [LedgerNext]_ledgerVars
    PROVE receipts \subseteq receipts'
BY DEF LedgerNext, ledgerVars, AdmitPolicy, OpenCycle, ReadInventory, CloseCycle, CreateIntent,
       ContinueInventoryIntoSuccessorCycle, Transition, AppendFillReceipt, InsertReceipt

\* Neither ends when the process crashes.
LEMMA EndedThroughCrash ==
    ASSUME TypeOK, RecoveryTypeOK, [Next]_vars, NEW a \in Actions
    PROVE /\ state[a] \in TERMINAL_STATES => state'[a] = state[a]
          /\ ReceiptsOf(a) \subseteq ReceiptsOf(a)'
<1>1. CASE [LedgerNext]_ledgerVars
  BY <1>1, EndedStaysEnded, ReceiptsGrow DEF ReceiptsOf
<1>2. CASE ReadingsLost
  BY <1>2 DEF ReadingsLost, ReceiptsOf
<1> QED
  BY <1>1, <1>2, RecoveryUsesLedger

\* Where the evidence a recovery counted on can still be.
Completable == {"RECONCILED", "FILLED", "SAFE_HALT"}

\* Nothing but a completion or a halt leaves RECONCILED.
LEMMA CompletableStays ==
    ASSUME TypeOK, RecoveryTypeOK, [Next]_vars, NEW a \in Actions, state[a] \in Completable
    PROVE state'[a] \in Completable
<1>1. CASE state[a] = "RECONCILED"
  <2>1. \A to \in IntentState : TransitionAllowed(a, to) => to \in Completable
    BY <1>1 DEF TransitionAllowed, TRANSITIONS, Completable
  <2>2. CASE [LedgerNext]_ledgerVars
    BY <1>1, <2>1, <2>2, LedgerStepMoves DEF Completable
  <2>3. CASE ReadingsLost
    BY <2>3 DEF ReadingsLost
  <2> QED
    BY <2>2, <2>3, RecoveryUsesLedger
<1>2. CASE state[a] \in {"FILLED", "SAFE_HALT"}
  BY <1>2, EndedThroughCrash DEF TERMINAL_STATES
<1> QED
  BY <1>1, <1>2 DEF Completable

\* A planned completion that has not been carried out is either new, with a receipt
\* behind it in RECONCILED, or was planned before.
LEMMA CompletionPlanned ==
    ASSUME RecoveryTypeOK, [Next]_vars, NEW a \in Actions, a \in todo', plan'[a] = "FILLED"
    PROVE \/ a \in todo /\ plan[a] = "FILLED"
          \/ UNCHANGED ledgerVars /\ state[a] = "RECONCILED" /\ ReceiptsOf(a) # {}
<1>1. CASE RecoverRead
  <2>1. Disposition(a) = "FILLED"
    BY <1>1 DEF RecoverRead
  <2>2. state[a] = "RECONCILED" /\ ReceiptsOf(a) # {}
    BY <2>1 DEF Disposition, TERMINAL_STATES, PRE_COMMITMENT_STATES
  <2> QED
    BY <1>1, <2>2 DEF RecoverRead
<1>2. CASE \E b \in Actions : RecoverStep(b) \/ RecoverRaise(b)
  BY <1>2 DEF RecoverStep, RecoverRaise
<1>3. CASE Worker \/ RecoverReturn \/ Crash \/ UNCHANGED vars
  BY <1>3 DEF Worker, RecoverReturn, Crash, vars, recoveryVars
<1> QED
  BY <1>1, <1>2, <1>3 DEF Next, Recovery

\* A recovery that plans to complete an intent has its receipt in the database until
\* it does, whatever other connections commit in between.
THEOREM CompletionHasReceiptCorrect == Spec => []CompletionHasReceipt
<1>1. Init => CompletionHasReceipt
  BY DEF Init, CompletionHasReceipt
<1>2. RecoveryTypeOK /\ TypeOK /\ CompletionHasReceipt /\ [Next]_vars => CompletionHasReceipt'
  <2> SUFFICES ASSUME RecoveryTypeOK, TypeOK, CompletionHasReceipt, [Next]_vars,
                      NEW a \in todo', plan'[a] = "FILLED"
               PROVE ReceiptsOf(a)' # {} /\ state'[a] \in Completable
    BY DEF CompletionHasReceipt, Completable
  <2>1. a \in Actions
    BY StepRecoveryTypeOK DEF RecoveryTypeOK
  <2>2. ReceiptsOf(a) # {} /\ state[a] \in Completable
    BY <2>1, CompletionPlanned DEF CompletionHasReceipt, Completable
  <2> QED
    BY <2>1, <2>2, EndedThroughCrash, CompletableStays
<1> QED
  BY <1>1, <1>2, LedgerSound, PTL DEF Spec

\* What recover() has moved, it has ended; the intents it has still to move are todo.
MovedHaveEnded == \A a \in Actions \ todo : plan[a] # "NONE" => state[a] \in TERMINAL_STATES

\* A recovery that returns has ended every intent it listed.  The invariant covers
\* the recovery that is still at work: what is off its list has ended.
THEOREM ReturnMeansEndedCorrect == Spec => []ReturnMeansEnded
<1>1. Init => MovedHaveEnded
  BY DEF Init, MovedHaveEnded, NoPlan
<1>2. RecoveryTypeOK /\ TypeOK /\ MovedHaveEnded /\ [Next]_vars => MovedHaveEnded'
  <2> SUFFICES ASSUME RecoveryTypeOK, TypeOK, MovedHaveEnded, [Next]_vars,
                      NEW a \in Actions, a \notin todo', plan'[a] # "NONE"
               PROVE state'[a] \in TERMINAL_STATES
    BY DEF MovedHaveEnded
  <2>1. CASE a \notin todo /\ plan[a] # "NONE"
    BY <2>1, EndedThroughCrash DEF MovedHaveEnded
  <2>2. CASE RecoverStep(a)
    <3>1. state'[a] = plan[a] /\ plan[a] # "NONE"
      BY <2>2 DEF RecoverStep, MoveIntent, TypeOK, RecoveryTypeOK
    <3> QED
      BY <3>1 DEF RecoveryTypeOK, PlannedStates, TERMINAL_STATES
  <2>3. ~RecoverStep(a) => a \notin todo /\ plan[a] # "NONE"
    <3>1. CASE RecoverRead
      BY <3>1 DEF RecoverRead
    <3>2. CASE \E b \in Actions : RecoverStep(b)
      BY <3>2 DEF RecoverStep
    <3>3. CASE \E b \in Actions : RecoverRaise(b)
      BY <3>3 DEF RecoverRaise, NoPlan
    <3>4. CASE Crash
      BY <3>4 DEF Crash, NoPlan
    <3>5. CASE Worker \/ RecoverReturn \/ UNCHANGED vars
      BY <3>5 DEF Worker, RecoverReturn, vars, recoveryVars
    <3> QED
      BY <3>1, <3>2, <3>3, <3>4, <3>5 DEF Next, Recovery
  <2> QED
    BY <2>1, <2>2, <2>3
<1>3. RecoveryTypeOK /\ MovedHaveEnded => ReturnMeansEnded
  BY DEF RecoveryTypeOK, MovedHaveEnded, ReturnMeansEnded
<1> QED
  BY <1>1, <1>2, <1>3, LedgerSound, PTL DEF Spec

-----------------------------------------------------------------------------
(* An action with a transaction is never planned to be abandoned.  The         *)
(* invariant says where such an action can be: its own bytes are admitted with *)
(* the step that leaves pre-commitment behind, and an external reference is    *)
(* recorded of a reserved intent at the earliest; no edge leads back.          *)

Unreserved == {"NONE", "ARMED", "TRIGGERED", "QUOTE_PINNED", "SIMULATED"}

OriginFits ==
    \A a \in Actions :
        /\ origin[a] = "SIGNED" => state[a] \notin Unreserved \cup {"RESERVED"}
        /\ origin[a] = "EXTERNAL" => state[a] \notin Unreserved

\* No edge of the lifecycle leads back before the reservation, or back to it.
LEMMA NoWayBack ==
    ASSUME NEW s \in IntentState \ Unreserved, NEW to \in TRANSITIONS[s]
    PROVE to \notin Unreserved \cup {"RESERVED"}
BY DEF Unreserved, IntentState, TRANSITIONS, Abandoned

LEMMA LedgerNeverTurnsBack ==
    ASSUME TypeOK, [LedgerNext]_ledgerVars, NEW a \in Actions, state[a] \notin Unreserved
    PROVE state'[a] \notin Unreserved /\ (state'[a] = "RESERVED" => state[a] = "RESERVED")
<1>1. state[a] \in IntentState \ Unreserved
  BY DEF TypeOK, Unreserved
<1>2. \A to \in IntentState : TransitionAllowed(a, to) => to \notin Unreserved \cup {"RESERVED"}
  BY <1>1, NoWayBack DEF TransitionAllowed
<1>3. "SAFE_HALT" \notin Unreserved \cup {"RESERVED"} /\ "NONE" \in Unreserved
  BY DEF Unreserved
<1> QED
  BY <1>2, <1>3, LedgerStepMoves

LEMMA StepOriginFits ==
    ASSUME RecoveryTypeOK, TypeOK, OriginFits, [Next]_vars
    PROVE OriginFits'
<1>1. \A a \in Actions : state[a] \notin Unreserved =>
        state'[a] \notin Unreserved /\ (state'[a] = "RESERVED" => state[a] = "RESERVED")
  BY LedgerNeverTurnsBack, RecoveryUsesLedger DEF ReadingsLost
<1>2. CASE UNCHANGED origin
  BY <1>1, <1>2 DEF OriginFits
<1>3. CASE SigningOrigin
  <2>1. \A a \in Actions : origin'[a] = origin[a] \/ (origin'[a] = "SIGNED" /\ state'[a] = "SIGNED")
    BY <1>3 DEF SigningOrigin
  <2> QED
    BY <1>1, <2>1 DEF OriginFits, Unreserved
<1>4. CASE \E a \in Actions : RecordExternalReference(a)
  <2>1. PICK a \in Actions : RecordExternalReference(a)
    BY <1>4
  <2>2. /\ state[a] \notin Unreserved
        /\ origin' = [origin EXCEPT ![a] = "EXTERNAL"]
        /\ UNCHANGED state
    BY <2>1 DEF RecordExternalReference, Unreserved, ledgerVars
  <2> QED
    BY <2>2 DEF OriginFits, RecoveryTypeOK
<1> QED
  BY <1>2, <1>3, <1>4
     DEF Next, Worker, Recovery, RecoverRead, RecoverStep, RecoverRaise, RecoverReturn, Crash, vars

\* What a recovery decides of an action that has a transaction.
LEMMA OriginNotCancelled ==
    ASSUME OriginFits, NEW a \in Actions, origin[a] \in {"SIGNED", "EXTERNAL"}
    PROVE Disposition(a) # "CANCELLED"
BY DEF OriginFits, Disposition, PRE_COMMITMENT_STATES, Unreserved

LEMMA ReadingAbandonsNoTransaction ==
    ASSUME RecoveryTypeOK, OriginFits, [Next]_vars, phase = "DOWN", phase' = "RECOVERING",
           NEW a \in Actions, origin[a] # "NONE"
    PROVE plan'[a] # "CANCELLED"
<1>1. RecoverRead
  BY DEF Next, Worker, Recovery, RecordExternalReference, RecoverStep, RecoverRaise,
         RecoverReturn, Crash, vars, recoveryVars
<1>2. origin[a] \in {"SIGNED", "EXTERNAL"}
  BY DEF RecoveryTypeOK
<1> QED
  BY <1>1, <1>2, OriginNotCancelled DEF RecoverRead

\* A restart never abandons an intent whose transaction, its own or an external
\* one, it finds on record when it reads the database.
THEOREM TransactionsKept == Spec => TransactionsNotAbandoned
<1> DEFINE Kept == phase = "DOWN" /\ phase' = "RECOVERING" =>
                     \A a \in Actions : origin[a] # "NONE" => plan'[a] # "CANCELLED"
<1>1. Init => OriginFits
  BY DEF Init, OriginFits
<1>2. RecoveryTypeOK /\ TypeOK /\ OriginFits /\ [Next]_vars => OriginFits'
  BY StepOriginFits
<1>3. RecoveryTypeOK /\ OriginFits /\ [Next]_vars => Kept
  BY ReadingAbandonsNoTransaction
<1> QED
  BY <1>1, <1>2, <1>3, LedgerSound, PTL DEF Spec, TransactionsNotAbandoned

=============================================================================
