--------------------------- MODULE ExecutionProofs ---------------------------
(***************************************************************************)
(* Proofs about Execution: for any actions, callers, providers and facts   *)
(* the chain may settle, in any order of submissions, crashes, recoveries, *)
(* resumptions and late readings.                                          *)
(***************************************************************************)
EXTENDS Execution, LedgerRecoveryProofs

-----------------------------------------------------------------------------
(* What a step does to the intents. *)

\* What a caller is in the middle of.
PlaceOf == {"AUTHORIZED", "GATED", "CLEARED", "ANSWERED"}
JobsTyped ==
    job \in [Workers -> {Idle} \cup
                [call: Calls, action: Actions, pc: PlaceOf, retry: BOOLEAN,
                 ack: {"none", "ACCEPTED", "UNKNOWN"}]]

\* A caller that is in a call is in it for an action.
LEMMA CallHasAction ==
    ASSUME JobsTyped, NEW w \in Workers, NEW call \in Calls, NEW pc, At(w, call, pc)
    PROVE job[w].action \in Actions /\ job[w].ack \in {"none", "ACCEPTED", "UNKNOWN"}
BY DEF JobsTyped, At, Idle, Calls

\* States transition() is asked for: by the runtime, and by a recovery.
Requested == {"RESERVED", "SIGNED", "SUBMITTED", "FILLED", "CANCELLED", "SAFE_HALT"}

\* _advance_to_chain_state, on a reading or a verdict of inclusion.
Advanced(a) ==
    /\ state[a] \in AdvanceFrom(a)
    /\ \E to \in {"INCLUDED", "CONFIRMED"} : state' = [state EXCEPT ![a] = to]
    /\ UNCHANGED resv

\* The settlement of a chain verdict, first or again.
Concluded(a) ==
    /\ ReconcileFirst(a) \/ ReconcileAgain(a)
    /\ \/ VerdictOf(a) = "CONFIRMED" /\ (SettledEffect(a) \/ RecoverSafeHalt(a, "RECONCILED"))
       \/ VerdictOf(a) = "REVERTED" /\ (RevertedEffect(a) \/ RecoverSafeHalt(a, "REJECTED"))

Resumption(a) ==
    /\ ResumeGate(a)
    /\ state' = [state EXCEPT ![a] = "SIGNED"]
    /\ ResumeHold(a)

\* What the step does to an intent and its reservation, if it touches any.
IntentStep(a) ==
    \/ \E to \in Requested : MoveIntent(a, to)
    \/ Advanced(a)
    \/ Concluded(a)
    \/ Resumption(a)

IntentsStay == UNCHANGED <<state, resv>>

LEMMA ReadingStep ==
    ASSUME NEW a \in Actions, RecordChainObservation(a)
    PROVE IntentsStay \/ IntentStep(a)
BY DEF RecordChainObservation, RecordReading, ObservationEffect, IntentsStay, IntentStep,
       Requested, Advanced, AdvancedState

LEMMA ReconcileStep ==
    ASSUME NEW a \in Actions, ReconcileExternalAction(a)
    PROVE IntentsStay \/ IntentStep(a)
BY DEF ReconcileExternalAction, ReconcileFirst, ReconcileAgain, IntentsStay, IntentStep,
       Requested, Concluded

LEMMA SubmitStep ==
    ASSUME JobsTyped, NEW w \in Workers, Submit(w)
    PROVE IntentsStay \/ \E a \in Actions : IntentStep(a)
BY CallHasAction
   DEF Submit, SubmitGate, SubmitPrior, SubmitTransport, RecordSubmissionAttempt, Answered,
       IntentsStay, IntentStep, Requested, Calls, vars, ledgerVars

LEMMA OtherStep ==
    ASSUME RecoveryTypeOK, OtherProcess
    PROVE IntentsStay \/ \E a \in Actions : IntentStep(a)
<1>1. CASE \E a \in Actions : RecoverStep(a)
  <2>1. PICK a \in Actions : RecoverStep(a)
    BY <1>1
  <2>2. plan[a] \in Requested /\ MoveIntent(a, plan[a])
    BY <2>1 DEF RecoverStep, RecoveryTypeOK, PlannedStates, Requested
  <2> QED
    BY <2>2 DEF IntentStep
<1> QED
  BY <1>1 DEF OtherProcess, Recovery, RecoverRead, RecoverRaise, RecoverReturn, Crash,
              RecordExternalReference, IntentsStay, ledgerVars

\* Every step leaves the intents alone or moves one of them in one of those ways.
LEMMA StepMovesIntent ==
    ASSUME RecoveryTypeOK, JobsTyped, [ExecNext]_execVars
    PROVE IntentsStay \/ \E a \in Actions : IntentStep(a)
<1>1. CASE \E w \in Workers : ReserveAction(w) \/ AdmitExactSignedBytes(w) \/ Resume(w)
  BY <1>1, CallHasAction
     DEF ReserveAction, AdmitExactSignedBytes, Resume, IntentStep, Requested, Resumption, Calls
<1>2. CASE \E a \in Actions : CompleteSettlement(a) \/ Abandon(a)
  BY <1>2 DEF CompleteSettlement, Abandon, Transition, IntentStep, Requested
<1>3. CASE \E w \in Workers : Submit(w)
  BY <1>3, SubmitStep
<1>4. CASE \E a \in Actions : RecordChainObservation(a) \/ ReconcileExternalAction(a)
  BY <1>4, ReadingStep, ReconcileStep
<1>5. CASE OtherProcess
  BY <1>5, OtherStep
<1>6. CASE UNCHANGED <<state, resv>>
  BY <1>6 DEF IntentsStay
<1> QED
  BY <1>1, <1>2, <1>3, <1>4, <1>5, <1>6
     DEF ExecNext, Begin, RecordExecutionEnvelope, Die, Include, Deepen, Reorganise,
         BecomesOnChain, EngageKillSwitch, execVars, vars, ledgerVars

-----------------------------------------------------------------------------
(* Capital. *)

\* Back from a halt, by the verdict of the chain or by a resumption, the capital
\* that was frozen is held again, or freed.
LEMMA RecoverSafeHaltCapital ==
    ASSUME IntentsTyped, CapitalFollowsLifecycle, UNCHANGED bounds, NEW a \in Actions,
           NEW to \in {"RECONCILED", "REJECTED"}, RecoverSafeHalt(a, to)
    PROVE IntentsTyped' /\ CapitalFollowsLifecycle'
<1>1. \A b \in Actions : Exposure(b)' = Exposure(b)
  BY DEF Exposure
<1>2. /\ state'[a] = to /\ \A b \in Actions \ {a} : state'[b] = state[b] /\ resv'[b] = resv[b]
      /\ resv[a] = IF Exposure(a) = 0 THEN "NONE" ELSE "QUARANTINED"
      /\ resv'[a] = IF Exposure(a) = 0 THEN "NONE"
                    ELSE IF to = "RECONCILED" THEN "ACTIVE" ELSE "RELEASED"
  BY DEF RecoverSafeHalt, IntentsTyped
<1>3. IntentsTyped'
  BY DEF RecoverSafeHalt, IntentsTyped, IntentState, ReservationStatus
<1> QED
  BY <1>1, <1>2, <1>3 DEF CapitalFollowsLifecycle, BUDGET_HOLDING_STATES, RELEASING_STATES,
                          EXTERNALLY_AMBIGUOUS_STATES

\* An intent that moves between holding states keeps its active reservation.
LEMMA HoldingMoveCapital ==
    ASSUME IntentsTyped, CapitalFollowsLifecycle, UNCHANGED bounds, UNCHANGED resv,
           NEW a \in Actions, state[a] \in BUDGET_HOLDING_STATES,
           NEW to \in BUDGET_HOLDING_STATES, state' = [state EXCEPT ![a] = to]
    PROVE IntentsTyped' /\ CapitalFollowsLifecycle'
<1>1. \A b \in Actions : Exposure(b)' = Exposure(b)
  BY DEF Exposure
<1>2. IntentsTyped'
  BY DEF IntentsTyped, IntentState, BUDGET_HOLDING_STATES, EXTERNALLY_AMBIGUOUS_STATES
<1>3. state'[a] = to /\ \A b \in Actions \ {a} : state'[b] = state[b]
  BY DEF IntentsTyped
<1> QED
  BY <1>1, <1>2, <1>3 DEF CapitalFollowsLifecycle, BUDGET_HOLDING_STATES, RELEASING_STATES,
                          EXTERNALLY_AMBIGUOUS_STATES

LEMMA AdvanceHolds ==
    ASSUME NEW a, state[a] \in AdvanceFrom(a)
    PROVE state[a] \in BUDGET_HOLDING_STATES
BY DEF AdvanceFrom, BUDGET_HOLDING_STATES, EXTERNALLY_AMBIGUOUS_STATES

\* A reverted transaction ends the action and frees what it held.
LEMMA RevertedCapital ==
    ASSUME IntentsTyped, CapitalFollowsLifecycle, UNCHANGED bounds, NEW a \in Actions,
           RevertedEffect(a)
    PROVE IntentsTyped' /\ CapitalFollowsLifecycle'
<1>1. CASE RecoverSafeHalt(a, "REJECTED")
  BY <1>1, RecoverSafeHaltCapital
<1>2. CASE /\ state[a] \in AdvanceFrom(a)
           /\ state' = [state EXCEPT ![a] = "REJECTED"]
           /\ SettleReservation(a, "RELEASED")
  <2>1. state[a] \in BUDGET_HOLDING_STATES /\ state[a] \notin TERMINAL_STATES
    BY <1>2, AdvanceHolds DEF BUDGET_HOLDING_STATES, EXTERNALLY_AMBIGUOUS_STATES, TERMINAL_STATES
  <2>2. /\ resv[a] \in {"NONE", "ACTIVE"}
        /\ resv[a] = "ACTIVE" <=> Exposure(a) # 0
    BY <2>1, ReservationOfState
  <2>3. \A b \in Actions : Exposure(b)' = Exposure(b)
    BY DEF Exposure
  <2>4. IntentsTyped'
    BY <1>2, SettleType DEF IntentsTyped, IntentState, ReservationStatus
  <2>5. /\ state'[a] = "REJECTED" /\ resv'[a] = IF Exposure(a) # 0 THEN "RELEASED" ELSE "NONE"
        /\ \A b \in Actions \ {a} : state'[b] = state[b] /\ resv'[b] = resv[b]
    BY <1>2, <2>2 DEF SettleReservation, IntentsTyped
  <2> QED
    BY <2>3, <2>4, <2>5 DEF CapitalFollowsLifecycle, BUDGET_HOLDING_STATES, RELEASING_STATES,
                            EXTERNALLY_AMBIGUOUS_STATES
<1>3. CASE UNCHANGED <<state, resv>>
  BY <1>3 DEF IntentsTyped, CapitalFollowsLifecycle, Exposure
<1> QED
  BY <1>1, <1>2, <1>3 DEF RevertedEffect

\* A resumed action holds its capital again, as it did when it was signed.
LEMMA ResumptionCapital ==
    ASSUME IntentsTyped, CapitalFollowsLifecycle, UNCHANGED bounds, NEW a \in Actions,
           Resumption(a)
    PROVE IntentsTyped' /\ CapitalFollowsLifecycle'
<1>1. \A b \in Actions : Exposure(b)' = Exposure(b)
  BY DEF Exposure
<1>2. IntentsTyped'
  BY DEF Resumption, ResumeHold, IntentsTyped, IntentState, ReservationStatus
<1>3. /\ state'[a] = "SIGNED" /\ \A b \in Actions \ {a} : state'[b] = state[b] /\ resv'[b] = resv[b]
      /\ resv'[a] = IF Exposure(a) = 0 THEN "NONE" ELSE "ACTIVE"
  BY DEF Resumption, ResumeGate, ResumeHold, IntentsTyped
<1> QED
  BY <1>1, <1>2, <1>3 DEF CapitalFollowsLifecycle, BUDGET_HOLDING_STATES, RELEASING_STATES,
                          EXTERNALLY_AMBIGUOUS_STATES

\* Whatever moves an intent, its capital moves with it.
LEMMA IntentStepCapital ==
    ASSUME IntentsTyped, CapitalFollowsLifecycle, UNCHANGED bounds, NEW a \in Actions,
           IntentStep(a)
    PROVE IntentsTyped' /\ CapitalFollowsLifecycle'
<1>1. CASE \E to \in Requested : MoveIntent(a, to)
  <2>1. PICK to \in Requested : MoveIntent(a, to)
    BY <1>1
  <2>2. to \in IntentState
    BY DEF Requested, IntentState
  <2> QED
    BY <2>1, <2>2, MoveIntentType, MoveIntentCapital DEF IntentsTyped
<1>2. CASE Advanced(a)
  BY <1>2, AdvanceHolds, HoldingMoveCapital
     DEF Advanced, BUDGET_HOLDING_STATES, EXTERNALLY_AMBIGUOUS_STATES
<1>3. CASE SettledEffect(a)
  <2>1. CASE RecoverSafeHalt(a, "RECONCILED")
    BY <2>1, RecoverSafeHaltCapital
  <2>2. CASE /\ state[a] \in AdvanceFrom(a)
             /\ state' = [state EXCEPT ![a] = "RECONCILED"]
             /\ UNCHANGED resv
    BY <2>2, AdvanceHolds, HoldingMoveCapital DEF BUDGET_HOLDING_STATES
  <2> QED
    BY <1>3, <2>1, <2>2 DEF SettledEffect
<1>4. CASE RevertedEffect(a)
  BY <1>4, RevertedCapital
<1>5. CASE RecoverSafeHalt(a, "RECONCILED") \/ RecoverSafeHalt(a, "REJECTED")
  BY <1>5, RecoverSafeHaltCapital
<1>6. CASE Resumption(a)
  BY <1>6, ResumptionCapital
<1> QED
  BY <1>1, <1>2, <1>3, <1>4, <1>5, <1>6 DEF IntentStep, Concluded

\* No step of the runtime changes what an intent committed to.
LEMMA BoundsStay ==
    ASSUME [ExecNext]_execVars
    PROVE UNCHANGED bounds
BY DEF ExecNext, execVars, vars, ledgerVars, Begin, ReserveAction, RecordExecutionEnvelope,
       AdmitExactSignedBytes, Submit, SubmitGate, SubmitPrior, SubmitTransport,
       RecordSubmissionAttempt, Resume, Die, RecordChainObservation, ReconcileExternalAction,
       CompleteSettlement, Abandon, Transition, Include, Deepen, Reorganise, BecomesOnChain,
       EngageKillSwitch, OtherProcess, Recovery, RecoverRead, RecoverStep, RecoverRaise,
       RecoverReturn, Crash, RecordExternalReference, LedgerRest

-----------------------------------------------------------------------------
(* Types. *)

LEMMA StepOtherType ==
    ASSUME RecoveryTypeOK, OtherProcess
    PROVE RecoveryTypeOK'
<1>1. Next
  BY DEF OtherProcess, Next, Worker, RecordExternalReference
<1> QED
  BY <1>1, StepRecoveryTypeOK

LEMMA StepOriginType ==
    ASSUME RecoveryTypeOK, [ExecNext]_execVars
    PROVE RecoveryTypeOK'
<1>1. CASE OtherProcess
  BY <1>1, StepOtherType
<1>2. CASE \E w \in Workers : AdmitExactSignedBytes(w)
  BY <1>2 DEF AdmitExactSignedBytes, RuntimeRest, recoveryVars, RecoveryTypeOK
<1>3. CASE UNCHANGED <<origin, recoveryVars>>
  BY <1>3 DEF recoveryVars, RecoveryTypeOK
<1> QED
  BY <1>1, <1>2, <1>3
     DEF ExecNext, execVars, vars, Begin, ReserveAction, RecordExecutionEnvelope,
         Submit, SubmitGate, SubmitPrior, SubmitTransport, RecordSubmissionAttempt, Resume, Die,
         RecordChainObservation, ReconcileExternalAction, CompleteSettlement, Abandon, Include,
         Deepen, Reorganise, BecomesOnChain, EngageKillSwitch, RuntimeRest

LEMMA BeginJobs ==
    ASSUME JobsTyped, NEW w \in Workers, NEW a \in Actions, NEW call \in Calls,
           NEW retry \in BOOLEAN, Begin(w, call, a, retry)
    PROVE JobsTyped'
BY DEF Begin, JobsTyped, PlaceOf

LEMMA AdvanceJobs ==
    ASSUME JobsTyped, NEW w \in Workers, job[w] # Idle, NEW pc \in PlaceOf,
           NEW ack \in {"none", "ACCEPTED", "UNKNOWN"}, Advance(w, pc, ack)
    PROVE JobsTyped'
BY DEF Advance, JobsTyped

LEMMA FinishJobs ==
    ASSUME JobsTyped, NEW w \in Workers, Finish(w)
    PROVE JobsTyped'
BY DEF Finish, JobsTyped

LEMMA StepJobs ==
    ASSUME JobsTyped, [ExecNext]_execVars
    PROVE JobsTyped'
<1>1. CASE \E w \in Workers, a \in Actions :
             (\E call \in Calls : Begin(w, call, a, FALSE)) \/ Begin(w, "submit", a, TRUE)
  BY <1>1, BeginJobs DEF Calls
<1>2. CASE \E w \in Workers : ReserveAction(w) \/ RecordExecutionEnvelope(w)
             \/ AdmitExactSignedBytes(w) \/ RecordSubmissionAttempt(w) \/ Resume(w) \/ Die(w)
  BY <1>2, FinishJobs DEF ReserveAction, RecordExecutionEnvelope, AdmitExactSignedBytes,
                          RecordSubmissionAttempt, Resume, Die
<1>3. CASE \E w \in Workers : SubmitGate(w) \/ SubmitPrior(w) \/ SubmitTransport(w)
  BY <1>3, AdvanceJobs DEF SubmitGate, SubmitPrior, SubmitTransport, At, Idle, PlaceOf
<1>4. CASE UNCHANGED job
  BY <1>4 DEF JobsTyped
<1> QED
  BY <1>1, <1>2, <1>3, <1>4
     DEF ExecNext, execVars, Submit, RecordChainObservation, ReconcileExternalAction,
         CompleteSettlement, Abandon, Include, Deepen, Reorganise, BecomesOnChain,
         EngageKillSwitch, OtherProcess

ReconTyped == recon \in [Actions -> {"NONE", "SETTLED", "REVERTED", "AMBIGUOUS"}]

LEMMA StepRecon ==
    ASSUME [ExecNext]_execVars
    PROVE UNCHANGED recon \/ \E a \in Actions : ReconcileFirst(a)
BY DEF ExecNext, execVars, vars, ledgerVars, Begin, ReserveAction, RecordExecutionEnvelope,
       AdmitExactSignedBytes, Submit, SubmitGate, SubmitPrior, SubmitTransport,
       RecordSubmissionAttempt, Resume, Die, RecordChainObservation, ReconcileExternalAction,
       ReconcileAgain, CompleteSettlement, Abandon, Transition, Include, Deepen, Reorganise,
       BecomesOnChain, EngageKillSwitch, OtherProcess, Recovery, RecoverRead, RecoverStep,
       RecoverRaise, RecoverReturn, Crash, RecordExternalReference, LedgerRest

LEMMA StepReconType ==
    ASSUME ReconTyped, [ExecNext]_execVars
    PROVE ReconTyped'
BY StepRecon DEF ReconTyped, ReconcileFirst

AttemptsTyped == attempts \in [Actions -> SUBSET {"none", "ACCEPTED", "UNKNOWN"}]

LEMMA StepAttemptsType ==
    ASSUME JobsTyped, AttemptsTyped, [ExecNext]_execVars
    PROVE AttemptsTyped'
<1>1. CASE UNCHANGED attempts
  BY <1>1 DEF AttemptsTyped
<1>2. CASE \E w \in Workers : RecordSubmissionAttempt(w)
  <2>1. PICK w \in Workers : RecordSubmissionAttempt(w)
    BY <1>2
  <2>2. job[w].action \in Actions /\ job[w].ack \in {"none", "ACCEPTED", "UNKNOWN"}
    BY <2>1, CallHasAction DEF RecordSubmissionAttempt, Answered, Calls
  <2>3. attempts' = [attempts EXCEPT ![job[w].action] = @ \cup {job[w].ack}]
    BY <2>1 DEF RecordSubmissionAttempt
  <2> QED
    BY <2>2, <2>3 DEF AttemptsTyped
<1> QED
  BY <1>1, <1>2
     DEF ExecNext, execVars, Begin, ReserveAction, RecordExecutionEnvelope, AdmitExactSignedBytes,
         Submit, SubmitGate, SubmitPrior, SubmitTransport, Resume, Die, RuntimeRest, executionVars,
         RecordChainObservation, ReconcileExternalAction, CompleteSettlement, Abandon, Include,
         Deepen, Reorganise, BecomesOnChain, EngageKillSwitch, OtherProcess

\* The rows of the intents, of the recovery and of the callers are well typed, and
\* the capital of an intent is what its lifecycle says.
ExecSound ==
    /\ IntentsTyped /\ RecoveryTypeOK /\ JobsTyped /\ ReconTyped /\ AttemptsTyped
    /\ bounds \in [Actions -> [maxInput: Nat, minOutput: Nat]]
    /\ CapitalFollowsLifecycle

LEMMA InitSound == ExecInit => ExecSound
<1> SUFFICES ASSUME ExecInit
             PROVE ExecSound
  OBVIOUS
<1>1. IntentsTyped /\ ReconTyped /\ JobsTyped /\ AttemptsTyped
  BY DEF ExecInit, RuntimeInit, IntentsTyped, IntentState, ReconTyped, JobsTyped, AttemptsTyped
<1>2. RecoveryTypeOK
  BY DEF ExecInit, RuntimeInit, RecoveryTypeOK, NoPlan, PlannedStates
<1>3. \A a \in Actions : ActionInfo[a].size \in Nat /\ ActionInfo[a].floor \in Nat
  BY ActionAssumption DEF ActionRecord
<1>4. bounds \in [Actions -> [maxInput: Nat, minOutput: Nat]]
  BY <1>3 DEF ExecInit, RuntimeInit
<1>5. CapitalFollowsLifecycle
  BY DEF ExecInit, RuntimeInit, CapitalFollowsLifecycle, BUDGET_HOLDING_STATES,
         EXTERNALLY_AMBIGUOUS_STATES
<1> QED
  BY <1>1, <1>2, <1>4, <1>5 DEF ExecSound

LEMMA StepSound ==
    ASSUME ExecSound, [ExecNext]_execVars
    PROVE ExecSound'
<1>1. RecoveryTypeOK' /\ JobsTyped' /\ ReconTyped' /\ AttemptsTyped' /\ UNCHANGED bounds
  BY StepOriginType, StepJobs, StepReconType, StepAttemptsType, BoundsStay DEF ExecSound
<1>2. CASE IntentsStay
  BY <1>1, <1>2 DEF ExecSound, IntentsStay, IntentsTyped, CapitalFollowsLifecycle, Exposure
<1>3. CASE \E a \in Actions : IntentStep(a)
  BY <1>1, <1>3, IntentStepCapital DEF ExecSound
<1> QED
  BY <1>2, <1>3, StepMovesIntent DEF ExecSound

LEMMA AlwaysSound == ExecSpec => []ExecSound
BY InitSound, StepSound, PTL DEF ExecSpec

\* At every commit of the runtime, of a recovery beside it and of the operators,
\* the reservation of an intent is what its state says (integrity_check).
THEOREM ExecutionCapitalCorrect == ExecSpec => []CapitalFollowsLifecycle
<1>1. ExecSound => CapitalFollowsLifecycle
  BY DEF ExecSound
<1> QED
  BY <1>1, AlwaysSound, PTL

-----------------------------------------------------------------------------
(* Where an action with a transaction can be.  Bytes are admitted with the   *)
(* step that leaves pre-commitment behind, and only a call that found them    *)
(* on record hands them to the transport; no edge leads back.                 *)

\* States an action reaches once a submission is on record, and once it is signed.
AfterSubmission ==
    {"SUBMITTED", "INCLUDED", "CONFIRMED", "RECONCILED", "FILLED", "REJECTED", "SAFE_HALT"}
AfterSigning == {"SIGNED"} \cup AfterSubmission

OriginPlaced ==
    \A a \in Actions :
        /\ origin[a] = "SIGNED" => state[a] \in AfterSigning
        /\ origin[a] = "EXTERNAL" => state[a] \notin Unreserved

AttemptsPlaced == \A a \in Actions : attempts[a] # {} => state[a] \in AfterSubmission

\* A call past the durable gate found the bytes it submits on record.
SubmissionsSigned ==
    /\ \A w \in Workers :
         job[w].call = "submit" /\ job[w].pc \in {"GATED", "CLEARED", "ANSWERED"} =>
             origin[job[w].action] = "SIGNED"
    /\ \A a \in Actions : crossed[a] => origin[a] = "SIGNED"

LEMMA IntentStepLocal ==
    ASSUME IntentsTyped, NEW a \in Actions, IntentStep(a), NEW b \in Actions, b # a
    PROVE state'[b] = state[b] /\ resv'[b] = resv[b]
<1>1. CASE \E to \in Requested : MoveIntent(a, to)
  <2>1. PICK to \in Requested : MoveIntent(a, to)
    BY <1>1
  <2>2. to \in IntentState
    BY DEF Requested, IntentState
  <2> QED
    BY <2>1, <2>2, MoveIntentMoves
<1>2. CASE Advanced(a) \/ Resumption(a)
  BY <1>2 DEF Advanced, Resumption, ResumeHold, IntentsTyped
<1>3. CASE Concluded(a)
  BY <1>3 DEF Concluded, SettledEffect, RevertedEffect, RecoverSafeHalt, SettleReservation,
              IntentsTyped
<1> QED
  BY <1>1, <1>2, <1>3 DEF IntentStep

\* Where a moved intent goes.
LEMMA IntentStepEdge ==
    ASSUME IntentsTyped, NEW a \in Actions, IntentStep(a)
    PROVE \/ TransitionAllowed(a, state'[a]) /\ state'[a] \in Requested
          \/ state[a] \in AdvanceFrom(a) /\ state'[a] \in {"INCLUDED", "CONFIRMED"} /\ UNCHANGED resv
          \/ /\ Concluded(a) /\ VerdictOf(a) = "CONFIRMED" /\ state'[a] = "RECONCILED"
             /\ state[a] \in AdvanceFrom(a) \cup {"SAFE_HALT"}
          \/ /\ Concluded(a) /\ VerdictOf(a) = "REVERTED" /\ state'[a] = "REJECTED"
             /\ state[a] \in AdvanceFrom(a) \cup {"SAFE_HALT"}
          \/ ResumeGate(a) /\ state'[a] = "SIGNED"
          \/ UNCHANGED <<state, resv>>
<1>1. CASE \E to \in Requested : MoveIntent(a, to)
  <2>1. PICK to \in Requested : MoveIntent(a, to)
    BY <1>1
  <2>2. to \in IntentState
    BY DEF Requested, IntentState
  <2> QED
    BY <2>1, <2>2, MoveIntentMoves
<1>2. CASE Advanced(a) \/ Resumption(a)
  BY <1>2 DEF Advanced, Resumption, IntentsTyped
<1>3. CASE Concluded(a)
  BY <1>3 DEF Concluded, SettledEffect, RevertedEffect, RecoverSafeHalt, IntentsTyped
<1> QED
  BY <1>1, <1>2, <1>3 DEF IntentStep

\* No edge leads back.
LEMMA NoEdgeBack ==
    ASSUME IntentsTyped, NEW a \in Actions, IntentStep(a)
    PROVE /\ state[a] \notin Unreserved => state'[a] \notin Unreserved
          /\ state[a] \in AfterSigning => state'[a] \in AfterSigning
          /\ state[a] \in AfterSubmission /\ attempts[a] # {} => state'[a] \in AfterSubmission
<1>1. CASE TransitionAllowed(a, state'[a]) /\ state'[a] \in Requested
  BY <1>1 DEF TransitionAllowed, TRANSITIONS, Abandoned, Unreserved, AfterSigning,
              AfterSubmission, IntentsTyped, IntentState, Requested
<1>2. CASE state'[a] \in {"INCLUDED", "CONFIRMED", "RECONCILED", "REJECTED"}
  BY <1>2 DEF Unreserved, AfterSigning, AfterSubmission
<1>3. CASE ResumeGate(a) /\ state'[a] = "SIGNED"
  BY <1>3 DEF ResumeGate, Unreserved, AfterSigning, AfterSubmission
<1>4. CASE UNCHANGED <<state, resv>>
  BY <1>4
<1> QED
  BY <1>1, <1>2, <1>3, <1>4, IntentStepEdge

LEMMA NoIntentTurnsBack ==
    ASSUME ExecSound, [ExecNext]_execVars, NEW b \in Actions
    PROVE /\ state[b] \notin Unreserved => state'[b] \notin Unreserved
          /\ state[b] \in AfterSigning => state'[b] \in AfterSigning
          /\ state[b] \in AfterSubmission /\ attempts[b] # {} => state'[b] \in AfterSubmission
<1>1. CASE IntentsStay
  BY <1>1 DEF IntentsStay
<1>2. CASE \E a \in Actions : IntentStep(a)
  BY <1>2, NoEdgeBack, IntentStepLocal DEF ExecSound
<1> QED
  BY <1>1, <1>2, StepMovesIntent DEF ExecSound

\* An action gets its one transaction by admitting its bytes or by a reference.
LEMMA StepOrigin ==
    ASSUME ExecSound, [ExecNext]_execVars, NEW b \in Actions
    PROVE \/ origin'[b] = origin[b]
          \/ origin[b] = "NONE" /\ origin'[b] = "SIGNED" /\ state'[b] = "SIGNED"
          \/ origin[b] = "NONE" /\ origin'[b] = "EXTERNAL" /\ state'[b] \notin Unreserved
<1>1. CASE UNCHANGED origin
  BY <1>1
<1>2. CASE \E w \in Workers : AdmitExactSignedBytes(w)
  <2>1. PICK w \in Workers : AdmitExactSignedBytes(w)
    BY <1>2
  <2> DEFINE a == job[w].action
  <2>2. a \in Actions
    BY <2>1, CallHasAction DEF AdmitExactSignedBytes, ExecSound, Calls
  <2>3. /\ origin[a] = "NONE" /\ origin' = [origin EXCEPT ![a] = "SIGNED"]
        /\ state' = [state EXCEPT ![a] = "SIGNED"]
    BY <2>1 DEF AdmitExactSignedBytes, MoveIntent
  <2> HIDE DEF a
  <2> QED
    BY <2>2, <2>3 DEF ExecSound, RecoveryTypeOK, IntentsTyped
<1>3. CASE \E a \in Actions : RecordExternalReference(a)
  <2>1. PICK a \in Actions : RecordExternalReference(a)
    BY <1>3
  <2>2. /\ state[a] \notin Unreserved /\ UNCHANGED state
        /\ origin[a] = "NONE" /\ origin' = [origin EXCEPT ![a] = "EXTERNAL"]
    BY <2>1 DEF RecordExternalReference, Unreserved, ledgerVars
  <2> QED
    BY <2>2 DEF ExecSound, RecoveryTypeOK
<1> QED
  BY <1>1, <1>2, <1>3
     DEF ExecNext, execVars, vars, Begin, ReserveAction, RecordExecutionEnvelope,
         Submit, SubmitGate, SubmitPrior, SubmitTransport, RecordSubmissionAttempt, Resume, Die,
         RecordChainObservation, ReconcileExternalAction, CompleteSettlement, Abandon, Include,
         Deepen, Reorganise, BecomesOnChain, EngageKillSwitch, OtherProcess, Recovery,
         RecoverRead, RecoverStep, RecoverRaise, RecoverReturn, Crash

LEMMA StepOriginPlaced ==
    ASSUME ExecSound, OriginPlaced, [ExecNext]_execVars
    PROVE OriginPlaced'
BY NoIntentTurnsBack, StepOrigin DEF OriginPlaced, AfterSigning, Unreserved

\* Only a submission that is on record is an attempt, and it moves a signed action on.
LEMMA StepAttempts ==
    ASSUME ExecSound, [ExecNext]_execVars, NEW b \in Actions
    PROVE attempts'[b] = attempts[b] \/ state'[b] \in AfterSubmission
<1>1. CASE UNCHANGED attempts
  BY <1>1
<1>2. CASE \E w \in Workers : RecordSubmissionAttempt(w)
  <2>1. PICK w \in Workers : RecordSubmissionAttempt(w)
    BY <1>2
  <2> DEFINE a == job[w].action
  <2>2. a \in Actions
    BY <2>1, CallHasAction DEF RecordSubmissionAttempt, Answered, ExecSound, Calls
  <2>3. attempts' = [attempts EXCEPT ![a] = @ \cup {job[w].ack}]
    BY <2>1 DEF RecordSubmissionAttempt
  <2>4. state'[a] \in AfterSubmission
    <3>1. CASE state[a] = "SIGNED"
      BY <2>1, <2>2, <3>1 DEF RecordSubmissionAttempt, MoveIntent, AfterSubmission, ExecSound, IntentsTyped
    <3>2. CASE state[a] # "SIGNED"
      BY <2>1, <3>2 DEF RecordSubmissionAttempt, AfterSubmission, EXTERNALLY_AMBIGUOUS_STATES
    <3> QED
      BY <3>1, <3>2
  <2> HIDE DEF a
  <2> QED
    BY <2>2, <2>3, <2>4 DEF ExecSound, AttemptsTyped
<1> QED
  BY <1>1, <1>2
     DEF ExecNext, execVars, Begin, ReserveAction, RecordExecutionEnvelope, AdmitExactSignedBytes,
         Submit, SubmitGate, SubmitPrior, SubmitTransport, Resume, Die, RuntimeRest, executionVars,
         RecordChainObservation, ReconcileExternalAction, CompleteSettlement, Abandon, Include,
         Deepen, Reorganise, BecomesOnChain, EngageKillSwitch, OtherProcess

LEMMA StepAttemptsPlaced ==
    ASSUME ExecSound, AttemptsPlaced, [ExecNext]_execVars
    PROVE AttemptsPlaced'
BY NoIntentTurnsBack, StepAttempts DEF AttemptsPlaced

\* No order of restarts, resumptions and late answers brings an action with a
\* submission on record back to where it could be submitted afresh.
THEOREM AttemptedCorrect == ExecSpec => []AttemptedNeverSignedAgain
<1>1. ExecInit => AttemptsPlaced
  BY DEF ExecInit, RuntimeInit, AttemptsPlaced
<1>2. ExecSound /\ AttemptsPlaced /\ [ExecNext]_execVars => AttemptsPlaced'
  BY StepAttemptsPlaced
<1>3. AttemptsPlaced => AttemptedNeverSignedAgain
  BY DEF AttemptsPlaced, AttemptedNeverSignedAgain, AfterSubmission
<1> QED
  BY <1>1, <1>2, <1>3, AlwaysSound, PTL DEF ExecSpec

\* A recovery beside the runtime never plans to abandon an action that has a
\* transaction when it reads the database.
THEOREM ExecutionTransactionsKept == ExecSpec => TransactionsNotAbandoned
<1>1. ExecInit => OriginPlaced
  BY DEF ExecInit, RuntimeInit, OriginPlaced
<1>2. ExecSound /\ OriginPlaced /\ [ExecNext]_execVars => OriginPlaced'
  BY StepOriginPlaced
<1>3. ASSUME ExecSound, OriginPlaced, [ExecNext]_execVars
      PROVE [phase = "DOWN" /\ phase' = "RECOVERING" =>
               \A a \in Actions : origin[a] # "NONE" => plan'[a] # "CANCELLED"]_vars
  <2> SUFFICES ASSUME phase = "DOWN", phase' = "RECOVERING", NEW a \in Actions, origin[a] # "NONE"
               PROVE plan'[a] # "CANCELLED"
    OBVIOUS
  <2>1. RecoverRead
    BY <1>3 DEF ExecNext, execVars, vars, Begin, ReserveAction, RecordExecutionEnvelope,
         AdmitExactSignedBytes, Submit, SubmitGate, SubmitPrior, SubmitTransport,
         RecordSubmissionAttempt, Resume, Die, RuntimeRest, recoveryVars,
         RecordChainObservation, ReconcileExternalAction, CompleteSettlement, Abandon, Include,
         Deepen, Reorganise, BecomesOnChain, EngageKillSwitch, OtherProcess, Recovery,
         RecoverStep, RecoverRaise, RecoverReturn, Crash, RecordExternalReference
  <2>2. OriginFits
    BY <1>3 DEF OriginPlaced, OriginFits, AfterSigning, AfterSubmission, Unreserved
  <2>3. origin[a] \in {"SIGNED", "EXTERNAL"}
    BY <1>3 DEF ExecSound, RecoveryTypeOK
  <2> QED
    BY <2>1, <2>2, <2>3, OriginNotCancelled DEF RecoverRead
<1> QED
  BY <1>1, <1>2, <1>3, AlwaysSound, PTL DEF ExecSpec, TransactionsNotAbandoned

-----------------------------------------------------------------------------
(* What a conclusion of several providers is worth.  Readings are of what is  *)
(* or was the case, and a block at the confirmation depth is never replaced:  *)
(* so a terminal verdict is about the transaction as it finally is.           *)

ChainRecord == [facts: TxFacts \cup {NoFacts}, head: Nat]
Reading == [provider: Providers, at: 0..MaxObs, id: {0}, presence: ChainPresence,
            facts: TxFacts \cup {NoFacts}, head: Nat]

ChainTyped ==
    /\ crossed \in [Actions -> BOOLEAN]
    /\ tx \in [Actions -> ChainRecord]
    /\ past \in [Actions -> SUBSET ChainRecord]
    /\ obs \in [Actions -> SUBSET Reading]
    /\ \A a \in Actions : IsFiniteSet(obs[a])

\* A provider reports what it read, and reports facts with an inclusion only.
ReadingsTrue ==
    \A a \in Actions : \A r \in obs[a] :
        /\ [facts |-> r.facts, head |-> r.head] \in past[a]
        /\ r.presence = "INCLUDED" <=> r.facts # NoFacts

\* Once a transaction is at the confirmation depth it stays as it is.
Lasting(m) == m.facts # NoFacts /\ m.head >= m.facts.block + MinConfirmationDepth
DeepStays == \A a \in Actions : tx[a] \in past[a] /\ \A m \in past[a] : Lasting(m) => tx[a] = m

ChainSound == ChainTyped /\ ReadingsTrue /\ DeepStays

LEMMA FactsType ==
    /\ NoFacts \notin TxFacts
    /\ \A f \in TxFacts : f.block \in Nat /\ f.status \in ReceiptStatus
BY FactsAssumption DEF NoFacts, ReceiptStatus

\* A verdict that settles a transaction is of agreeing providers, none of which
\* saw anything else at any time, each past the confirmation depth.
LEMMA VerdictMeans ==
    ASSUME NEW O, NEW k, Verdict(O, k) \in {"CONFIRMED", "REVERTED"}
    PROVE /\ ~Contradictory(O) /\ Included(Latest(O)) # {}
          /\ FinalDepth(Included(Latest(O)))
          /\ Verdict(O, k) = "CONFIRMED" <=> Settled(Included(Latest(O)))
<1> DEFINE I == Included(Latest(O))
<1>1. CASE Contradictory(O)
  <2>1. Verdict(O, k) = "AMBIGUOUS"
    BY <1>1, Zenon DEF Verdict
  <2> QED
    BY <2>1
<1>2. CASE ~Contradictory(O) /\ I = {}
  <2>1. Verdict(O, k) = UnseenVerdict(O, k)
    BY <1>2, Zenon DEF Verdict
  <2> QED
    BY <2>1 DEF UnseenVerdict
<1>3. CASE ~Contradictory(O) /\ I # {}
  <2>1. Verdict(O, k) = IF Cardinality(I) < MinAgreeingProviders THEN "VISIBLE"
                        ELSE IF ~FinalDepth(I) THEN "INCLUDED"
                        ELSE IF Settled(I) THEN "CONFIRMED" ELSE "REVERTED"
    BY <1>3, Zenon DEF Verdict
  <2> HIDE DEF I
  <2>2. FinalDepth(I) /\ (Verdict(O, k) = "CONFIRMED" <=> Settled(I))
    BY <2>1
  <2> QED
    BY <1>3, <2>2 DEF I
<1> QED
  BY <1>1, <1>2, <1>3

\* Two members are one where there is at most one.
LEMMA AtMostOne ==
    ASSUME NEW S, IsFiniteSet(S), ~(Cardinality(S) > 1), NEW x \in S, NEW y \in S
    PROVE x = y
<1> SUFFICES ASSUME x # y
             PROVE FALSE
  OBVIOUS
<1>1. {x, y} \subseteq S /\ IsFiniteSet({x, y})
  BY FS_Subset
<1>2. Cardinality({x}) = 1 /\ IsFiniteSet({x})
  BY FS_Singleton
<1>3. {x, y} = {x} \cup {y}
  OBVIOUS
<1>4. Cardinality({x, y}) = 2
  <2>1. Cardinality({x} \cup {y}) = Cardinality({x}) + 1
    BY <1>2, FS_AddElement
  <2> QED
    BY <1>2, <1>3, <2>1
<1>5. Cardinality({x, y}) <= Cardinality(S) /\ Cardinality(S) \in Nat
  BY <1>1, FS_Subset, FS_CardinalityType
<1> QED
  BY <1>4, <1>5

\* The latest record of a provider that has one is one of its records.
LEMMA LatestIsRecorded ==
    ASSUME ChainTyped, NEW a \in Actions, NEW p \in Reporting(obs[a])
    PROVE LatestBy(obs[a], p) \in obs[a]
<1> DEFINE Of == {o \in obs[a] : o.provider = p}
           Ages == {MaxObs - o.at : o \in Of}
<1>1. Of # {} /\ Of \subseteq Reading
  BY DEF Reporting, ChainTyped
<1>2. \A o \in Of : o.at \in 0..MaxObs /\ o.id = 0
  BY <1>1 DEF Reading
<1>3. MaxObs \in Nat
  BY ExecutionAssumption
<1>4. Ages \subseteq Nat /\ Ages # {}
  BY <1>1, <1>2, <1>3
<1>5. PICK least \in Ages : \A n \in Ages : ~(<<n, least>> \in OpToRel(<, Nat))
  <2> HIDE DEF Ages
  <2> QED BY <1>4, NatLessThanWellFounded, WFMin
<1>6. PICK o \in Of : least = MaxObs - o.at
  OBVIOUS
<1>7. \A e \in Of : e.at <= o.at
  <2> SUFFICES ASSUME NEW e \in Of
               PROVE e.at <= o.at
    OBVIOUS
  <2>1. MaxObs - e.at \in Ages /\ MaxObs - e.at \in Nat /\ least \in Nat
    BY <1>4
  <2>2. ~(MaxObs - e.at < least)
    BY <1>5, <2>1 DEF OpToRel
  <2> QED
    BY <1>2, <1>3, <1>6, <2>2
<1>8. /\ o \in obs[a] /\ o.provider = p
      /\ \A e \in obs[a] : e.provider = p => e.at < o.at \/ (e.at = o.at /\ e.id <= o.id)
  <2>1. o \in obs[a] /\ o.provider = p
    OBVIOUS
  <2>2. ASSUME NEW e \in obs[a], e.provider = p
        PROVE e.at < o.at \/ (e.at = o.at /\ e.id <= o.id)
    <3>1. e \in Of
      BY <2>2
    <3> QED
      BY <1>2, <1>7, <3>1
  <2> QED
    BY <2>1, <2>2
<1> QED
  BY <1>8 DEF LatestBy

LEMMA VerdictIsFinal ==
    ASSUME ChainSound, NEW a \in Actions, VerdictOf(a) \in {"CONFIRMED", "REVERTED"}
    PROVE /\ IsFinal(a)
          /\ SettledFacts(obs[a]) = tx[a].facts
          /\ VerdictOf(a) = "CONFIRMED" => tx[a].facts.status = "SUCCESS"
          /\ VerdictOf(a) = "REVERTED" => tx[a].facts.status = "REVERTED"
<1> DEFINE O == obs[a]
           I == Included(Latest(O))
<1>1. /\ ~Contradictory(O) /\ I # {} /\ FinalDepth(I)
      /\ VerdictOf(a) = "CONFIRMED" <=> Settled(I)
  BY VerdictMeans DEF VerdictOf
<1>2. I \subseteq O /\ \A o \in I : o.presence = "INCLUDED"
  BY LatestIsRecorded DEF Included, Latest, ChainSound
<1>3. IsFiniteSet(FactSets(O))
  <2>1. IsFiniteSet(O)
    BY DEF ChainSound, ChainTyped
  <2>2. IsFiniteSet(Included(O))
    BY <2>1, FS_Subset DEF Included
  <2> DEFINE f == [e \in Included(O) |-> e.facts]
  <2>3. f \in Surjection(Included(O), FactSets(O))
    BY DEF Surjection, FactSets
  <2> QED
    BY <2>2, <2>3, FS_Surjection
<1>4. \A f, g \in FactSets(O) : f = g
  BY <1>1, <1>3, AtMostOne DEF Contradictory
<1>5. PICK o \in I : TRUE
  BY <1>1
<1>6. /\ o \in Reading /\ o.facts # NoFacts
      /\ [facts |-> o.facts, head |-> o.head] \in past[a]
  BY <1>2 DEF ChainSound, ChainTyped, ReadingsTrue
<1>7. o.facts \in TxFacts /\ o.facts.block \in Nat /\ o.head \in Nat
  BY <1>6, FactsType DEF Reading
<1>8. o.head >= o.facts.block + MinConfirmationDepth
  <2>1. Depth(o) >= MinConfirmationDepth /\ MinConfirmationDepth \in Nat \ {0}
    BY <1>1, FinalityAssumption DEF FinalDepth
  <2> QED
    BY <1>7, <2>1 DEF Depth, NoHead
<1>9. tx[a] = [facts |-> o.facts, head |-> o.head]
  BY <1>6, <1>8 DEF ChainSound, DeepStays, Lasting
<1>10. \A e \in I : e.facts = o.facts /\ e.facts \in FactSets(O)
  BY <1>2, <1>4 DEF FactSets, Included
<1>11. SettledFacts(O) = o.facts
  BY <1>4, <1>10 DEF SettledFacts
<1>12. Settled(I) <=> o.facts.status = "SUCCESS"
  BY <1>10 DEF Settled
<1>13. o.facts.status \in {"SUCCESS", "REVERTED"}
  BY <1>7, FactsType DEF ReceiptStatus
<1> QED
  BY <1>1, <1>6, <1>8, <1>9, <1>11, <1>12, <1>13 DEF IsFinal

-----------------------------------------------------------------------------
(* The chain and its readings, step by step. *)

LEMMA InitChainSound == ExecInit => ChainSound
<1> SUFFICES ASSUME ExecInit
             PROVE ChainSound
  OBVIOUS
<1>1. ChainTyped
  BY FS_EmptySet DEF ExecInit, RuntimeInit, ChainTyped, ChainRecord, Unmined
<1>2. ReadingsTrue /\ DeepStays
  BY DEF ExecInit, RuntimeInit, ReadingsTrue, DeepStays, Lasting, Unmined
<1> QED
  BY <1>1, <1>2 DEF ChainSound

\* Only a block changes a transaction, and none that is at the confirmation depth.
ChainMoves ==
    \/ UNCHANGED <<tx, past>>
    \/ \E a \in Actions, m \in ChainRecord :
          /\ ~Lasting(tx[a]) /\ UNCHANGED obs
          /\ tx' = [tx EXCEPT ![a] = m]
          /\ past' = [past EXCEPT ![a] = @ \cup {m}]

LEMMA StepChain ==
    ASSUME ChainSound, [ExecNext]_execVars
    PROVE ChainMoves
<1>1. ASSUME NEW a \in Actions, Include(a) \/ Deepen(a) \/ Reorganise(a)
      PROVE \E m \in ChainRecord : /\ ~Lasting(tx[a]) /\ UNCHANGED obs
                             /\ tx' = [tx EXCEPT ![a] = m]
                             /\ past' = [past EXCEPT ![a] = @ \cup {m}]
  <2>1. ASSUME NEW facts \in TxFacts \cup {NoFacts}, NEW height \in Nat,
               BecomesOnChain(a, facts, height)
        PROVE \E m \in ChainRecord : /\ UNCHANGED obs
                               /\ tx' = [tx EXCEPT ![a] = m]
                               /\ past' = [past EXCEPT ![a] = @ \cup {m}]
    <3>1. [facts |-> facts, head |-> height] \in ChainRecord
      BY DEF ChainRecord
    <3>2. tx'[a] = [facts |-> facts, head |-> height]
      BY <2>1 DEF BecomesOnChain, ChainSound, ChainTyped
    <3> QED
      BY <2>1, <3>1, <3>2 DEF BecomesOnChain, executionVars
  <2>2. /\ tx[a].facts \in TxFacts \cup {NoFacts} /\ tx[a].head \in Nat
        /\ MinConfirmationDepth \in Nat
    BY FinalityAssumption DEF ChainSound, ChainTyped, ChainRecord
  <2>3. CASE Include(a)
    <3>1. PICK f \in TxFacts : BecomesOnChain(a, f, f.block)
      BY <2>3 DEF Include
    <3>2. f.block \in Nat /\ ~Lasting(tx[a])
      BY <2>3, FactsType DEF Include, Lasting
    <3> QED
      BY <2>1, <3>1, <3>2
  <2>4. CASE Deepen(a) \/ Reorganise(a)
    <3>1. ~Lasting(tx[a])
      <4>1. tx[a].facts # NoFacts /\ tx[a].head < tx[a].facts.block + MinConfirmationDepth
        BY <2>4 DEF Deepen, Reorganise
      <4>2. tx[a].facts.block \in Nat
        BY <2>2, <4>1, FactsType
      <4> QED
        BY <2>2, <4>1, <4>2 DEF Lasting
    <3>2. tx[a].head + 1 \in Nat
      BY <2>2
    <3> QED
      BY <2>1, <2>2, <2>4, <3>1, <3>2 DEF Deepen, Reorganise
  <2> QED
    BY <1>1, <2>3, <2>4
<1> QED
  BY <1>1
     DEF ChainMoves, ExecNext, execVars, chainVars, Begin, ReserveAction, RecordExecutionEnvelope,
         AdmitExactSignedBytes, Submit, SubmitGate, SubmitPrior, SubmitTransport,
         RecordSubmissionAttempt, Resume, Die, RuntimeRest, RecordChainObservation,
         ReconcileExternalAction, CompleteSettlement, Abandon, EngageKillSwitch, OtherProcess

\* A provider's reading is recorded, with what the provider may report.
ReadingKept ==
    \/ UNCHANGED obs
    \/ \E a \in Actions, r \in Reading :
          /\ obs' = [obs EXCEPT ![a] = @ \cup {r}] /\ UNCHANGED <<tx, past>>
          /\ [facts |-> r.facts, head |-> r.head] \in past[a]
          /\ r.presence = "INCLUDED" <=> r.facts # NoFacts

LEMMA StepReading ==
    ASSUME ChainSound, [ExecNext]_execVars
    PROVE ReadingKept
<1>1. ASSUME NEW a \in Actions, RecordChainObservation(a)
      PROVE \E r \in Reading :
                /\ obs' = [obs EXCEPT ![a] = @ \cup {r}] /\ UNCHANGED <<tx, past>>
                /\ [facts |-> r.facts, head |-> r.head] \in past[a]
                /\ r.presence = "INCLUDED" <=> r.facts # NoFacts
  <2>0. PICK p \in Providers : \E r \in ReadingsOf(a, p) : RecordReading(a, r)
    BY <1>1 DEF RecordChainObservation
  <2>1. PICK r \in ReadingsOf(a, p) : RecordReading(a, r)
    BY <2>0
  <2>2. PICK m \in past[a], presence \in {"ABSENT", "PENDING"} :
            r = [provider |-> p, at |-> Cardinality(obs[a]), id |-> 0,
                 presence |-> IF m.facts # NoFacts THEN "INCLUDED" ELSE presence,
                 facts |-> m.facts, head |-> m.head]
    BY <2>1 DEF ReadingsOf
  <2>3. m \in ChainRecord /\ IsFiniteSet(obs[a])
    BY DEF ChainSound, ChainTyped
  <2>4. Cardinality(obs[a]) \in 0..MaxObs
    <3>1. /\ IsFiniteSet(obs[a] \cup {r})
          /\ Cardinality(obs[a] \cup {r}) =
                IF r \in obs[a] THEN Cardinality(obs[a]) ELSE Cardinality(obs[a]) + 1
      BY <2>3, FS_AddElement
    <3>2. Cardinality(obs[a]) \in Nat
      BY <2>3, FS_CardinalityType
    <3>3. Cardinality(obs[a] \cup {r}) <= MaxObs /\ MaxObs \in Nat
      BY <2>1, ExecutionAssumption DEF RecordReading
    <3>4. Cardinality(obs[a]) <= MaxObs
      BY <3>1, <3>2, <3>3
    <3> QED
      BY <3>2, <3>3, <3>4
  <2>5. r \in Reading
    BY <2>2, <2>3, <2>4 DEF Reading, ChainRecord, ChainPresence
  <2>6. [facts |-> r.facts, head |-> r.head] \in past[a]
    BY <2>2, <2>3 DEF ChainRecord
  <2>7. r.presence = "INCLUDED" <=> r.facts # NoFacts
    BY <2>2
  <2> QED
    BY <1>1, <2>1, <2>5, <2>6, <2>7 DEF RecordReading, RecordChainObservation, chainVars
<1> QED
  BY <1>1
     DEF ReadingKept, ExecNext, execVars, executionVars, Begin, ReserveAction, RecordExecutionEnvelope,
         AdmitExactSignedBytes, Submit, SubmitGate, SubmitPrior, SubmitTransport,
         RecordSubmissionAttempt, Resume, Die, RuntimeRest, ReconcileExternalAction,
         CompleteSettlement, Abandon, Include, Deepen, Reorganise, BecomesOnChain,
         EngageKillSwitch, OtherProcess

LEMMA StepCrossed ==
    ASSUME ExecSound, ChainTyped, [ExecNext]_execVars
    PROVE \/ UNCHANGED crossed
          \/ \E w \in Workers, left \in BOOLEAN :
                /\ At(w, "submit", "CLEARED")
                /\ crossed' = [crossed EXCEPT ![job[w].action] = left]
<1>1. ASSUME NEW w \in Workers, SubmitTransport(w)
      PROVE \E left \in BOOLEAN : crossed' = [crossed EXCEPT ![job[w].action] = left]
  <2>1. job[w].action \in Actions
    BY <1>1, CallHasAction DEF SubmitTransport, ExecSound, Calls
  <2>2. crossed[job[w].action] \in BOOLEAN
    BY <2>1 DEF ChainTyped
  <2>3. CASE crossed' = [crossed EXCEPT ![job[w].action] = TRUE]
    BY <2>3
  <2>4. ASSUME NEW arrived \in BOOLEAN,
               crossed' = [crossed EXCEPT ![job[w].action] = crossed[job[w].action] \/ arrived]
        PROVE \E left \in BOOLEAN : crossed' = [crossed EXCEPT ![job[w].action] = left]
    <3>1. (crossed[job[w].action] \/ arrived) \in BOOLEAN
      OBVIOUS
    <3> QED
      BY <2>4, <3>1
  <2> QED
    BY <1>1, <2>3, <2>4 DEF SubmitTransport
<1> QED
  BY <1>1
     DEF ExecNext, execVars, chainVars, Begin, ReserveAction, RecordExecutionEnvelope,
         AdmitExactSignedBytes, Submit, SubmitGate, SubmitPrior, SubmitTransport,
         RecordSubmissionAttempt, Resume, Die, RuntimeRest, RecordChainObservation,
         ReconcileExternalAction, CompleteSettlement, Abandon, Include, Deepen, Reorganise,
         BecomesOnChain, EngageKillSwitch, OtherProcess

LEMMA ChainKept ==
    ASSUME ChainSound, ChainMoves, ReadingKept, crossed' \in [Actions -> BOOLEAN]
    PROVE ChainSound'
<1>1. ChainTyped'
  <2>2. tx' \in [Actions -> ChainRecord] /\ past' \in [Actions -> SUBSET ChainRecord]
    BY DEF ChainMoves, ChainSound, ChainTyped
  <2>3. obs' \in [Actions -> SUBSET Reading] /\ \A a \in Actions : IsFiniteSet(obs'[a])
    <3>1. CASE UNCHANGED obs
      BY <3>1 DEF ChainSound, ChainTyped
    <3>2. ASSUME NEW a \in Actions, NEW r \in Reading, obs' = [obs EXCEPT ![a] = @ \cup {r}]
          PROVE obs' \in [Actions -> SUBSET Reading] /\ \A b \in Actions : IsFiniteSet(obs'[b])
      <4>1. IsFiniteSet(obs[a] \cup {r})
        BY FS_AddElement DEF ChainSound, ChainTyped
      <4> QED
        BY <3>2, <4>1 DEF ChainSound, ChainTyped
    <3> QED
      BY <3>1, <3>2 DEF ReadingKept
  <2> QED
    BY <2>2, <2>3 DEF ChainTyped
<1>2. \A b \in Actions : past[b] \subseteq past'[b]
  BY DEF ChainMoves, ChainSound, ChainTyped
<1>3. ReadingsTrue'
  <2>1. CASE UNCHANGED obs
    BY <1>2, <2>1 DEF ReadingsTrue, ChainSound
  <2>2. ASSUME NEW a \in Actions, NEW r \in Reading, obs' = [obs EXCEPT ![a] = @ \cup {r}],
               [facts |-> r.facts, head |-> r.head] \in past[a],
               r.presence = "INCLUDED" <=> r.facts # NoFacts
        PROVE ReadingsTrue'
    <3>1. \A b \in Actions : obs'[b] = IF b = a THEN obs[b] \cup {r} ELSE obs[b]
      BY <2>2 DEF ChainSound, ChainTyped
    <3>2. ASSUME NEW b \in Actions, NEW e \in obs'[b]
          PROVE /\ [facts |-> e.facts, head |-> e.head] \in past'[b]
                /\ e.presence = "INCLUDED" <=> e.facts # NoFacts
      <4>1. CASE e \in obs[b]
        BY <1>2, <4>1 DEF ReadingsTrue, ChainSound
      <4>2. CASE b = a /\ e = r
        BY <1>2, <2>2, <4>2
      <4> QED
        BY <3>1, <3>2, <4>1, <4>2
    <3> QED
      BY <3>2 DEF ReadingsTrue
  <2> QED
    BY <2>1, <2>2 DEF ReadingKept
<1>4. DeepStays'
  <2>1. CASE UNCHANGED <<tx, past>>
    BY <2>1 DEF DeepStays, ChainSound
  <2>2. ASSUME NEW a \in Actions, NEW m \in ChainRecord, ~Lasting(tx[a]),
               tx' = [tx EXCEPT ![a] = m], past' = [past EXCEPT ![a] = @ \cup {m}]
        PROVE DeepStays'
    <3>1. \A b \in Actions : /\ tx'[b] = IF b = a THEN m ELSE tx[b]
                             /\ past'[b] = IF b = a THEN past[b] \cup {m} ELSE past[b]
      BY <2>2 DEF ChainSound, ChainTyped
    <3>2. ASSUME NEW b \in Actions
          PROVE tx'[b] \in past'[b] /\ \A n \in past'[b] : Lasting(n) => tx'[b] = n
      <4>1. tx[b] \in past[b] /\ \A n \in past[b] : Lasting(n) => tx[b] = n
        BY DEF ChainSound, DeepStays
      <4>2. CASE b = a
        <5>1. \A n \in past[a] : ~Lasting(n)
          BY <2>2, <4>1, <4>2
        <5> QED
          BY <3>1, <4>2, <5>1
      <4> QED
        BY <3>1, <4>1, <4>2
    <3> QED
      BY <3>2 DEF DeepStays, Lasting
  <2> QED
    BY <2>1, <2>2 DEF ChainMoves
<1> QED
  BY <1>1, <1>3, <1>4 DEF ChainSound

LEMMA StepChainSound ==
    ASSUME ExecSound, ChainSound, [ExecNext]_execVars
    PROVE ChainSound'
BY ChainKept, StepChain, StepReading, StepCrossed DEF ChainSound, ChainTyped

\* What is final stays as it is.
LEMMA FinalKept ==
    ASSUME ChainSound, ChainMoves, NEW a \in Actions, IsFinal(a)
    PROVE tx'[a] = tx[a] /\ IsFinal(a)'
<1>1. tx'[a] = tx[a]
  BY DEF ChainMoves, ChainSound, ChainTyped, IsFinal, Lasting
<1> QED
  BY <1>1 DEF IsFinal

LEMMA FinalStays ==
    ASSUME ChainSound, [ExecNext]_execVars, NEW a \in Actions, IsFinal(a)
    PROVE tx'[a] = tx[a] /\ IsFinal(a)'
BY StepChain, FinalKept

-----------------------------------------------------------------------------
(* The capital of what has left through the transport. *)

LEMMA StepSubmissions ==
    ASSUME ExecSound, ChainSound, SubmissionsSigned, [ExecNext]_execVars
    PROVE SubmissionsSigned'
<1>1. \A a \in Actions : origin[a] = "SIGNED" => origin'[a] = "SIGNED"
  BY StepOrigin
<1>2. ASSUME NEW w \in Workers, job'[w].call = "submit",
             job'[w].pc \in {"GATED", "CLEARED", "ANSWERED"}
      PROVE origin'[job'[w].action] = "SIGNED"
  <2>1. CASE job'[w] = job[w]
    <3>1. job[w].action \in Actions /\ origin[job[w].action] = "SIGNED"
      BY <1>2, <2>1 DEF SubmissionsSigned, ExecSound, JobsTyped, Idle, Calls
    <3> QED
      BY <1>1, <2>1, <3>1
  <2>2. CASE \E v \in Workers : SubmitGate(v) \/ SubmitPrior(v) \/ SubmitTransport(v)
    <3>1. PICK v \in Workers : SubmitGate(v) \/ SubmitPrior(v) \/ SubmitTransport(v)
      BY <2>2
    <3>2. CASE v # w
      <4>1. job'[w] = job[w]
        BY <3>1, <3>2 DEF SubmitGate, SubmitPrior, SubmitTransport, Advance, ExecSound, JobsTyped
      <4> QED
        BY <2>1, <4>1
    <3>3. CASE v = w
      <4>1. job[w].action \in Actions /\ job[w] # Idle
        BY <3>1, <3>3
           DEF SubmitGate, SubmitPrior, SubmitTransport, ExecSound, JobsTyped, Idle, At
      <4>3. job'[w].action = job[w].action
        BY <3>1, <3>3, <4>1
           DEF SubmitGate, SubmitPrior, SubmitTransport, Advance, ExecSound, JobsTyped
      <4>2. origin[job[w].action] = "SIGNED"
        BY <3>1, <3>3 DEF SubmitGate, SubmitPrior, SubmitTransport, At, SubmissionsSigned
      <4> QED
        BY <1>1, <4>1, <4>2, <4>3
    <3> QED
      BY <3>2, <3>3
  <2>3. CASE \E v \in Workers : Finish(v)
    BY <1>2, <2>1, <2>3 DEF Finish, ExecSound, JobsTyped, Idle
  <2>4. CASE \E v \in Workers, a \in Actions :
               (\E call \in Calls : Begin(v, call, a, FALSE)) \/ Begin(v, "submit", a, TRUE)
    BY <1>2, <2>1, <2>4 DEF Begin, ExecSound, JobsTyped
  <2> QED
    BY <2>1, <2>2, <2>3, <2>4
       DEF ExecNext, execVars, ReserveAction, RecordExecutionEnvelope, AdmitExactSignedBytes,
           Submit, RecordSubmissionAttempt, Resume, Die, RecordChainObservation,
           ReconcileExternalAction, CompleteSettlement, Abandon, Include, Deepen, Reorganise,
           BecomesOnChain, EngageKillSwitch, OtherProcess
<1>3. ASSUME NEW a \in Actions, crossed'[a]
      PROVE origin'[a] = "SIGNED"
  <2>1. CASE crossed[a]
    BY <1>1, <2>1 DEF SubmissionsSigned
  <2>2. ASSUME NEW w \in Workers, NEW left \in BOOLEAN, ~crossed[a],
               At(w, "submit", "CLEARED"), crossed' = [crossed EXCEPT ![job[w].action] = left]
        PROVE origin'[a] = "SIGNED"
    <3>1. job[w].action = a
      BY <1>3, <2>2, CallHasAction DEF ExecSound, ChainSound, ChainTyped, Calls
    <3>2. origin[a] = "SIGNED"
      BY <2>2, <3>1 DEF SubmissionsSigned, At
    <3> QED
      BY <1>1, <3>2
  <2> QED
    BY <1>3, <2>1, <2>2, StepCrossed DEF ChainSound
<1> QED
  BY <1>2, <1>3 DEF SubmissionsSigned

\* A reservation once made is settled and reactivated, and never forgotten.
LEMMA ReservationKept ==
    ASSUME ExecSound, [ExecNext]_execVars, NEW b \in Actions, resv[b] # "NONE"
    PROVE resv'[b] # "NONE"
<1>1. ASSUME NEW a \in Actions, IntentStep(a)
      PROVE resv'[b] # "NONE"
  <2>0. IntentsTyped
    BY DEF ExecSound
  <2>1. CASE a # b
    BY <1>1, <2>0, <2>1, IntentStepLocal
  <2>2. CASE \E to \in Requested : MoveIntent(b, to)
    BY <2>0, <2>2 DEF MoveIntent, ReservationEffect, Reserve, SettleReservation, IntentsTyped
  <2>3. CASE Advanced(b) \/ Resumption(b) \/ Concluded(b)
    BY <2>0, <2>3 DEF Advanced, Resumption, ResumeHold, Concluded, SettledEffect, RevertedEffect,
                      RecoverSafeHalt, SettleReservation, IntentsTyped
  <2> QED
    BY <1>1, <2>1, <2>2, <2>3 DEF IntentStep
<1> QED
  BY <1>1, StepMovesIntent DEF ExecSound, IntentsStay

SignedIsReserved ==
    \A a \in Actions : origin[a] = "SIGNED" /\ Exposure(a) # 0 => resv[a] # "NONE"

LEMMA StepReserved ==
    ASSUME ExecSound, SignedIsReserved, [ExecNext]_execVars
    PROVE SignedIsReserved'
<1> SUFFICES ASSUME NEW b \in Actions, origin'[b] = "SIGNED", Exposure(b)' # 0
             PROVE resv'[b] # "NONE"
  BY DEF SignedIsReserved
<1>1. Exposure(b) # 0
  BY BoundsStay DEF Exposure
<1>2. CASE origin[b] = "SIGNED"
  BY <1>1, <1>2, ReservationKept DEF SignedIsReserved
<1>3. CASE origin[b] # "SIGNED"
  <2>1. state'[b] = "SIGNED"
    BY <1>3, StepOrigin
  <2>2. CapitalFollowsLifecycle'
    BY StepSound DEF ExecSound
  <2>3. resv'[b] = "ACTIVE"
    BY <2>1, <2>2 DEF CapitalFollowsLifecycle, BUDGET_HOLDING_STATES, EXTERNALLY_AMBIGUOUS_STATES
  <2> QED
    BY <2>3
<1> QED
  BY <1>2, <1>3

\* Nothing but the chain rejects an intent here.
RejectedIsReverted ==
    \A a \in Actions : state[a] = "REJECTED" => IsFinal(a) /\ tx[a].facts.status = "REVERTED"

LEMMA StepRejected ==
    ASSUME ExecSound, ChainSound, RejectedIsReverted, [ExecNext]_execVars
    PROVE RejectedIsReverted'
<1> SUFFICES ASSUME NEW b \in Actions, state'[b] = "REJECTED"
             PROVE IsFinal(b)' /\ tx'[b].facts.status = "REVERTED"
  BY DEF RejectedIsReverted
<1>1. CASE state[b] = "REJECTED"
  BY <1>1, FinalStays DEF RejectedIsReverted
<1>2. CASE state[b] # "REJECTED"
  <2>1. PICK a \in Actions : IntentStep(a)
    BY <1>2, StepMovesIntent DEF ExecSound, IntentsStay
  <2>2. a = b
    BY <1>2, <2>1, IntentStepLocal DEF ExecSound
  <2>3. VerdictOf(b) = "REVERTED"
    BY <1>2, <2>1, <2>2, IntentStepEdge DEF ExecSound, Requested
  <2>4. IsFinal(b) /\ tx[b].facts.status = "REVERTED"
    BY <2>3, VerdictIsFinal
  <2> QED
    BY <2>4, FinalStays
<1> QED
  BY <1>1, <1>2

ExecGood ==
    /\ ExecSound /\ ChainSound /\ OriginPlaced /\ AttemptsPlaced
    /\ SubmissionsSigned /\ SignedIsReserved /\ RejectedIsReverted

LEMMA InitGood == ExecInit => ExecGood
<1> SUFFICES ASSUME ExecInit
             PROVE ExecGood
  OBVIOUS
<1>1. /\ OriginPlaced /\ AttemptsPlaced /\ SubmissionsSigned
      /\ SignedIsReserved /\ RejectedIsReverted
  BY DEF ExecInit, RuntimeInit, OriginPlaced, AttemptsPlaced, SubmissionsSigned, Idle,
         SignedIsReserved, RejectedIsReverted
<1> QED
  BY <1>1, InitSound, InitChainSound DEF ExecGood

LEMMA StepGood ==
    ASSUME ExecGood, [ExecNext]_execVars
    PROVE ExecGood'
BY StepSound, StepChainSound, StepOriginPlaced, StepAttemptsPlaced, StepSubmissions,
   StepReserved, StepRejected
   DEF ExecGood

LEMMA AlwaysGood == ExecSpec => []ExecGood
BY InitGood, StepGood, PTL DEF ExecSpec

\* I-03 and I-04: from before an action's bytes can leave, its capital is held,
\* until the chain has finally reverted the transaction.
THEOREM CrossedCorrect == ExecSpec => []CrossedIsHeld
<1>1. ASSUME ExecGood
      PROVE CrossedIsHeld
  <2> SUFFICES ASSUME NEW a \in Actions, crossed[a], Exposure(a) > 0
               PROVE \/ resv[a] \in {"ACTIVE", "QUARANTINED", "COMMITTED"}
                     \/ IsFinal(a) /\ tx[a].facts.status = "REVERTED"
    BY DEF CrossedIsHeld
  <2>1. state[a] \in AfterSigning
    BY <1>1 DEF ExecGood, SubmissionsSigned, OriginPlaced
  <2>2. CASE state[a] = "REJECTED"
    BY <1>1, <2>2 DEF ExecGood, RejectedIsReverted
  <2>3. CASE state[a] = "SAFE_HALT"
    <3>1. resv[a] \in ReservationStatus \cup {"NONE"} /\ CapitalFollowsLifecycle
      BY <1>1 DEF ExecGood, ExecSound, IntentsTyped
    <3>2. Exposure(a) # 0 /\ resv[a] # "NONE"
      BY <1>1 DEF ExecGood, SubmissionsSigned, SignedIsReserved
    <3> QED
      BY <2>3, <3>1, <3>2 DEF CapitalFollowsLifecycle, ReservationStatus, RELEASING_STATES
  <2>4. CASE state[a] \in AfterSigning \ {"REJECTED", "SAFE_HALT"}
    <3>1. Exposure(a) # 0 /\ CapitalFollowsLifecycle
      BY <1>1 DEF ExecGood, ExecSound
    <3> QED
      BY <2>4, <3>1 DEF CapitalFollowsLifecycle, AfterSigning, AfterSubmission,
            BUDGET_HOLDING_STATES, EXTERNALLY_AMBIGUOUS_STATES
  <2> QED
    BY <2>1, <2>2, <2>3, <2>4
<1> QED
  BY <1>1, AlwaysGood, PTL

-----------------------------------------------------------------------------
(* What the ledger accounts as a fill, and what it does with an ambiguous     *)
(* outcome.  A first conclusion is recorded with the evidence it rests on; a  *)
(* later one of the same evidence cannot differ.                              *)

EvidenceTyped ==
    evidence \in [Actions -> [obs: SUBSET Reading, acknowledged: BOOLEAN, set: BOOLEAN]]

\* What each recorded conclusion is worth.
ConclusionTrue(a) ==
    /\ recon[a] = "SETTLED" =>
         /\ IsFinal(a) /\ tx[a].facts.status = "SUCCESS"
         /\ ReceiptsOf(a) = {Settlement(a, tx[a].facts)}
         /\ RowsWithinBounds(ReceiptsOf(a), bounds[a])
    /\ recon[a] # "SETTLED" => ReceiptsOf(a) = {}
    /\ recon[a] = "REVERTED" => IsFinal(a) /\ tx[a].facts.status = "REVERTED"
    /\ recon[a] = "AMBIGUOUS" => Verdict(evidence[a].obs, evidence[a].acknowledged) = "AMBIGUOUS"
ConclusionsTrue == \A a \in Actions : ConclusionTrue(a)

\* An intent is accounted by a settled conclusion only.
AccountedSettled ==
    \A a \in Actions : state[a] \in {"RECONCILED", "FILLED"} => recon[a] = "SETTLED"

ExecComplete == ExecGood /\ EvidenceTyped /\ ConclusionsTrue /\ AccountedSettled

\* Receipts, conclusions and evidence are written by the first reconciliation.
LEMMA StepConclusion ==
    ASSUME [ExecNext]_execVars
    PROVE UNCHANGED <<receipts, recon, evidence>> \/ \E a \in Actions : ReconcileFirst(a)
BY DEF ExecNext, execVars, vars, ledgerVars, executionVars, Begin, ReserveAction,
       RecordExecutionEnvelope, AdmitExactSignedBytes, Submit, SubmitGate, SubmitPrior,
       SubmitTransport, RecordSubmissionAttempt, Resume, Die, RecordChainObservation,
       ReconcileExternalAction, ReconcileAgain, CompleteSettlement, Abandon, Transition, Include,
       Deepen, Reorganise, BecomesOnChain, EngageKillSwitch, OtherProcess, Recovery, RecoverRead,
       RecoverStep, RecoverRaise, RecoverReturn, Crash, RecordExternalReference, LedgerRest,
       RuntimeRest

LEMMA EvidenceOfType ==
    ASSUME ChainSound, NEW a \in Actions
    PROVE EvidenceOf(a) \in [obs: SUBSET Reading, acknowledged: BOOLEAN, set: BOOLEAN]
<1>1. obs[a] \in SUBSET Reading
  BY DEF ChainSound, ChainTyped
<1>2. Acknowledged(a) \in BOOLEAN
  BY DEF Acknowledged
<1> QED
  BY <1>1, <1>2 DEF EvidenceOf

LEMMA StepEvidence ==
    ASSUME ExecComplete, [ExecNext]_execVars
    PROVE EvidenceTyped'
<1>1. CASE UNCHANGED evidence
  BY <1>1 DEF ExecComplete, EvidenceTyped
<1>2. ASSUME NEW a \in Actions, ReconcileFirst(a)
      PROVE EvidenceTyped'
  <2>1. EvidenceOf(a) \in [obs: SUBSET Reading, acknowledged: BOOLEAN, set: BOOLEAN]
    BY EvidenceOfType DEF ExecComplete, ExecGood
  <2> QED
    BY <1>2, <2>1 DEF ReconcileFirst, ExecComplete, EvidenceTyped
<1> QED
  BY <1>1, <1>2, StepConclusion

\* The first conclusion about an action says what is finally true of it.
LEMMA FirstConclusion ==
    ASSUME ExecComplete, [ExecNext]_execVars, NEW a \in Actions, ReconcileFirst(a)
    PROVE ConclusionTrue(a)'
<1>1. ChainSound /\ ReceiptsOf(a) = {} /\ recon[a] = "NONE"
  BY DEF ExecComplete, ExecGood, ConclusionsTrue, ConclusionTrue, ReconcileFirst
<1>2. /\ recon \in [Actions -> {"NONE", "SETTLED", "REVERTED", "AMBIGUOUS"}]
      /\ UNCHANGED bounds
  BY BoundsStay DEF ExecComplete, ExecGood, ExecSound, ReconTyped
<1>3. CASE /\ VerdictOf(a) = "CONFIRMED" /\ SettledEffect(a)
           /\ recon' = [recon EXCEPT ![a] = "SETTLED"]
  <2> DEFINE row == Settlement(a, tx[a].facts)
  <2>1. /\ IsFinal(a) /\ tx[a].facts.status = "SUCCESS"
        /\ SettledFacts(obs[a]) = tx[a].facts
    BY <1>1, <1>3, VerdictIsFinal
  <2>2. tx'[a] = tx[a] /\ IsFinal(a)'
    BY <1>1, <2>1, FinalStays
  <2>3. RowsWithinBounds({row}, bounds[a]) /\ receipts' = receipts \cup {row}
    BY <1>3, <2>1 DEF SettledEffect
  <2>4. row.action = a
    BY DEF Settlement
  <2> HIDE DEF row
  <2>5. ReceiptsOf(a)' = {row}
    BY <1>1, <2>3, <2>4 DEF ReceiptsOf
  <2>6. RowsWithinBounds(ReceiptsOf(a), bounds[a])'
    BY <1>2, <2>3, <2>5 DEF RowsWithinBounds, TotalIn, TotalOut
  <2>7. recon'[a] = "SETTLED"
    BY <1>2, <1>3
  <2> QED
    BY <2>1, <2>2, <2>5, <2>6, <2>7 DEF ConclusionTrue, row, Settlement
<1>4. CASE /\ VerdictOf(a) = "REVERTED" /\ UNCHANGED receipts
           /\ recon' = [recon EXCEPT ![a] = "REVERTED"]
  <2>1. IsFinal(a) /\ tx[a].facts.status = "REVERTED"
    BY <1>1, <1>4, VerdictIsFinal
  <2>2. tx'[a] = tx[a] /\ IsFinal(a)'
    BY <1>1, <2>1, FinalStays
  <2> QED
    BY <1>1, <1>2, <1>4, <2>1, <2>2 DEF ConclusionTrue, ReceiptsOf
<1>5. CASE /\ VerdictOf(a) = "AMBIGUOUS" /\ UNCHANGED receipts
           /\ recon' = [recon EXCEPT ![a] = "AMBIGUOUS"]
  <2>1. evidence'[a] = EvidenceOf(a)
    BY DEF ReconcileFirst, ExecComplete, EvidenceTyped
  <2>2. Verdict(evidence'[a].obs, evidence'[a].acknowledged) = "AMBIGUOUS"
    BY <1>5, <2>1 DEF VerdictOf, EvidenceOf
  <2>3. recon'[a] = "AMBIGUOUS" /\ ReceiptsOf(a)' = {}
    BY <1>1, <1>2, <1>5 DEF ReceiptsOf
  <2> QED
    BY <2>2, <2>3 DEF ConclusionTrue
<1> QED
  BY <1>3, <1>4, <1>5 DEF ReconcileFirst

\* A conclusion that is on record stays as true as it was.
LEMMA OtherConclusion ==
    ASSUME ExecComplete, [ExecNext]_execVars, NEW b \in Actions, ~ReconcileFirst(b)
    PROVE ConclusionTrue(b)'
<1>1. /\ ReceiptsOf(b)' = ReceiptsOf(b) /\ recon'[b] = recon[b]
      /\ evidence'[b] = evidence[b]
  <2>1. CASE UNCHANGED <<receipts, recon, evidence>>
    BY <2>1 DEF ReceiptsOf
  <2>2. ASSUME NEW a \in Actions, ReconcileFirst(a)
        PROVE /\ ReceiptsOf(b)' = ReceiptsOf(b) /\ recon'[b] = recon[b]
              /\ evidence'[b] = evidence[b]
    <3>1. a # b
      BY <2>2
    <3>2. recon'[b] = recon[b] /\ evidence'[b] = evidence[b]
      BY <2>2, <3>1
         DEF ReconcileFirst, ExecComplete, ExecGood, ExecSound, ReconTyped, EvidenceTyped
    <3>3. \/ UNCHANGED receipts
          \/ \E row : row.action = a /\ receipts' = receipts \cup {row}
      BY <2>2 DEF ReconcileFirst, SettledEffect, Settlement
    <3> QED
      BY <3>1, <3>2, <3>3 DEF ReceiptsOf
  <2> QED
    BY <2>1, <2>2, StepConclusion
<1>2. ConclusionTrue(b) /\ ChainSound /\ UNCHANGED bounds
  BY BoundsStay DEF ExecComplete, ExecGood, ConclusionsTrue
<1>3. IsFinal(b) => tx'[b] = tx[b] /\ IsFinal(b)'
  BY <1>2, FinalStays
<1>4. RowsWithinBounds(ReceiptsOf(b), bounds[b])' = RowsWithinBounds(ReceiptsOf(b), bounds[b])
  BY <1>1, <1>2 DEF RowsWithinBounds, TotalIn, TotalOut
<1> QED
  BY <1>1, <1>2, <1>3, <1>4 DEF ConclusionTrue, Settlement

\* A conclusion drawn again, of the evidence of the first, is the first one.
LEMMA AgainIsSame ==
    ASSUME ExecComplete, NEW a \in Actions, ReconcileAgain(a)
    PROVE /\ recon[a] = "SETTLED" <=> VerdictOf(a) = "CONFIRMED"
          /\ recon[a] # "AMBIGUOUS"
<1>1. evidence[a].obs = obs[a] /\ evidence[a].acknowledged = Acknowledged(a)
  BY DEF ReconcileAgain, EvidenceOf
<1>2. VerdictOf(a) \in {"CONFIRMED", "REVERTED"} /\ recon[a] # "NONE"
  BY DEF ReconcileAgain
<1>3. recon[a] # "AMBIGUOUS"
  BY <1>1, <1>2 DEF ExecComplete, ConclusionsTrue, ConclusionTrue, VerdictOf
<1>4. /\ VerdictOf(a) = "CONFIRMED" => tx[a].facts.status = "SUCCESS"
      /\ VerdictOf(a) = "REVERTED" => tx[a].facts.status = "REVERTED"
  BY <1>2, VerdictIsFinal DEF ExecComplete, ExecGood
<1>5. recon[a] \in {"SETTLED", "REVERTED"}
  BY <1>2, <1>3 DEF ExecComplete, ExecGood, ExecSound, ReconTyped
<1>6. /\ recon[a] = "SETTLED" => tx[a].facts.status = "SUCCESS"
      /\ recon[a] = "REVERTED" => tx[a].facts.status = "REVERTED"
  BY DEF ExecComplete, ConclusionsTrue, ConclusionTrue
<1> QED
  BY <1>2, <1>3, <1>4, <1>5, <1>6

LEMMA StepAccounted ==
    ASSUME ExecComplete, [ExecNext]_execVars
    PROVE AccountedSettled'
<1> SUFFICES ASSUME NEW b \in Actions, state'[b] \in {"RECONCILED", "FILLED"}
             PROVE recon'[b] = "SETTLED"
  BY DEF AccountedSettled
<1>0. /\ ExecSound /\ IntentsTyped
      /\ recon \in [Actions -> {"NONE", "SETTLED", "REVERTED", "AMBIGUOUS"}]
  BY DEF ExecComplete, ExecGood, ExecSound, ReconTyped
<1>1. recon[b] = "SETTLED" => recon'[b] = "SETTLED"
  BY <1>0, StepRecon DEF ReconcileFirst
<1>2. CASE state[b] \in {"RECONCILED", "FILLED"}
  BY <1>1, <1>2 DEF ExecComplete, AccountedSettled
<1>3. CASE state[b] \notin {"RECONCILED", "FILLED"}
  <2>1. PICK a \in Actions : IntentStep(a)
    BY <1>0, <1>3, StepMovesIntent DEF ExecSound, IntentsStay
  <2>2. a = b
    BY <1>0, <1>3, <2>1, IntentStepLocal
  <2>3. ~(TransitionAllowed(b, state'[b]) /\ state'[b] \in Requested)
    BY <1>0, <1>3 DEF TransitionAllowed, TRANSITIONS, Abandoned, Requested, IntentsTyped, IntentState
  <2>4. Concluded(b) /\ VerdictOf(b) = "CONFIRMED"
    BY <1>0, <1>3, <2>1, <2>2, <2>3, IntentStepEdge
  <2>5. CASE ReconcileFirst(b)
    BY <1>0, <2>4, <2>5 DEF ReconcileFirst
  <2>6. CASE ReconcileAgain(b)
    BY <1>1, <2>4, <2>6, AgainIsSame
  <2> QED
    BY <2>4, <2>5, <2>6 DEF Concluded
<1> QED
  BY <1>2, <1>3

LEMMA InitComplete == ExecInit => ExecComplete
<1> SUFFICES ASSUME ExecInit
             PROVE ExecComplete
  OBVIOUS
<1>1. EvidenceTyped /\ ConclusionsTrue /\ AccountedSettled
  BY DEF ExecInit, RuntimeInit, EvidenceTyped, NoEvidence, ConclusionsTrue, ConclusionTrue,
         ReceiptsOf, AccountedSettled
<1> QED
  BY <1>1, InitGood DEF ExecComplete

LEMMA StepComplete ==
    ASSUME ExecComplete, [ExecNext]_execVars
    PROVE ExecComplete'
<1>1. ConclusionsTrue'
  BY FirstConclusion, OtherConclusion DEF ConclusionsTrue
<1>2. ExecGood'
  BY StepGood DEF ExecComplete
<1> QED
  BY <1>1, <1>2, StepEvidence, StepAccounted DEF ExecComplete

LEMMA AlwaysComplete == ExecSpec => []ExecComplete
BY InitComplete, StepComplete, PTL DEF ExecSpec

\* I-06: what the ledger accounts as a fill is what the chain finally did, within
\* what the intent committed to.
THEOREM FilledCorrect == ExecSpec => []FilledMatchesChain
<1>1. ExecComplete => FilledMatchesChain
  BY DEF ExecComplete, AccountedSettled, ConclusionsTrue, ConclusionTrue, FilledMatchesChain
<1> QED
  BY <1>1, AlwaysComplete, PTL

\* No later evidence resolves a recorded ambiguous outcome: reconcile_external_action
\* demands the evidence it was concluded from, a resumption that there is none.
THEOREM AmbiguityCorrect == ExecSpec => AmbiguityIsFrozen
<1>1. ASSUME ExecComplete, [ExecNext]_execVars, NEW b \in Actions, recon[b] = "AMBIGUOUS"
      PROVE /\ recon'[b] = "AMBIGUOUS"
            /\ state[b] = "SAFE_HALT" => state'[b] = "SAFE_HALT" /\ resv'[b] = resv[b]
  <2>0. /\ ExecSound /\ IntentsTyped
        /\ recon \in [Actions -> {"NONE", "SETTLED", "REVERTED", "AMBIGUOUS"}]
    BY <1>1 DEF ExecComplete, ExecGood, ExecSound, ReconTyped
  <2>1. recon'[b] = "AMBIGUOUS"
    BY <1>1, <2>0, StepRecon DEF ReconcileFirst
  <2>2. ASSUME state[b] = "SAFE_HALT", NEW a \in Actions, IntentStep(a)
        PROVE state'[b] = "SAFE_HALT" /\ resv'[b] = resv[b]
    <3>1. CASE a # b
      BY <2>0, <2>2, <3>1, IntentStepLocal
    <3>2. ~Concluded(b)
      BY <1>1, AgainIsSame DEF Concluded, ReconcileFirst
    <3>3. ~ResumeGate(b)
      BY <1>1 DEF ResumeGate
    <3>4. ~TransitionAllowed(b, state'[b])
      BY <2>2 DEF TransitionAllowed, TRANSITIONS
    <3>5. "SAFE_HALT" \notin AdvanceFrom(b)
      BY DEF AdvanceFrom, EXTERNALLY_AMBIGUOUS_STATES
    <3> QED
      BY <2>0, <2>2, <3>1, <3>2, <3>3, <3>4, <3>5, IntentStepEdge
  <2> QED
    BY <2>0, <2>1, <2>2, <1>1, StepMovesIntent DEF ExecSound, IntentsStay
<1>2. ASSUME ExecComplete, [ExecNext]_execVars
      PROVE [\A a \in Actions : recon[a] = "AMBIGUOUS" =>
               /\ recon'[a] = "AMBIGUOUS"
               /\ state[a] = "SAFE_HALT" => state'[a] = "SAFE_HALT" /\ resv'[a] = resv[a]]_execVars
  BY <1>1, <1>2
<1> QED
  BY <1>2, AlwaysComplete, PTL DEF ExecSpec, AmbiguityIsFrozen

=============================================================================
