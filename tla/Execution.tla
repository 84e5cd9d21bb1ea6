----------------------------- MODULE Execution ------------------------------
(***************************************************************************)
(* ExecutionRuntime (qntyspot/ledger/execution.py): reserving an action,   *)
(* admitting the bytes somebody else signed for it, handing them to the    *)
(* transport, and settling it by what providers report of the chain, on    *)
(* the ledger and beside the restart recovery of LedgerRecovery.           *)
(*                                                                         *)
(* A call authorises itself (the kill switch is read there), and writes in *)
(* a transaction of its own later; a submission also crosses the transport *)
(* between two transactions.  Any caller may die between two of its steps. *)
(* The chain and its providers are external.                               *)
(***************************************************************************)
EXTENDS LedgerRecovery, ChainTruth

CONSTANTS
    Workers,            \* concurrent callers of the runtime
    Providers,          \* chain providers, honest but possibly behind
    TxFacts,            \* settlement facts a transaction may have on the chain
    RefOf,              \* [Actions -> Refs]: hash of an action's transaction
    Grant,              \* [perAction, cumulative]: capital ceilings of the grant
    MaxVersions,        \* bound on the blocks that replace one another on the chain
    MaxObs              \* bound on the observations recorded per action

ASSUME ExecutionAssumption ==
    /\ RefOf \in [Actions -> Refs]
    /\ Grant \in [perAction: Nat, cumulative: Nat]
    /\ MaxVersions \in Nat /\ MaxObs \in Nat

\* The runtime opens no database without the execution tables.
ASSUME RuntimeAssumption == ExecutionSurface

\* ChainObservationV0: an INCLUDED observation names a block and a receipt status.
ASSUME FactsAssumption ==
    TxFacts \subseteq [block: Nat, hash: Nat, status: ReceiptStatus, input: Nat, output: Nat]

VARIABLES
    envelope,           \* TRUE once the action has its AUTHORIZED envelope
    attempts,           \* acknowledgments of the submission attempts recorded
    resumed,            \* TRUE once an EXACT_BYTES_RESUMED event exists
    obs,                \* chain observations recorded for the action
    evidence,           \* what the action's reconciliation was concluded from
    killed,             \* the kill switch is engaged
    job,                \* the call each worker is in
    crossed,            \* the action's bytes have left through the transport
    tx,                 \* the action's transaction on the chain, external
    past                \* what has ever been true of it there

executionVars == <<envelope, attempts, resumed, obs, evidence, killed>>
chainVars == <<crossed, tx, past>>
execVars == <<vars, executionVars, job, chainVars>>

Idle == [call |-> "none", action |-> "none", pc |-> "IDLE", retry |-> FALSE, ack |-> "none"]
NoEvidence == [obs |-> {}, acknowledged |-> FALSE, set |-> FALSE]
Unmined == [facts |-> NoFacts, head |-> 0]

Calls == {"reserve", "envelope", "admit", "submit", "resume"}

\* What a transaction that moves an intent leaves alone.
LedgerRest == UNCHANGED <<admitted, cycle, carry, bounds, receipts, recon, seen>>
RuntimeRest == UNCHANGED <<recoveryVars, executionVars, chainVars>>

-----------------------------------------------------------------------------
(* Calls that the kill switch suspends. *)

\* _authorize: the kill switch is read once, before the call's transaction.
Begin(w, call, a, retry) ==
    /\ job[w] = Idle
    /\ ~killed
    /\ retry => call = "submit"
    /\ job' = [job EXCEPT ![w] =
           [call |-> call, action |-> a, pc |-> "AUTHORIZED", retry |-> retry, ack |-> "none"]]
    /\ UNCHANGED <<vars, executionVars, chainVars>>

At(w, call, pc) == job[w].call = call /\ job[w].pc = pc
Finish(w) == job' = [job EXCEPT ![w] = Idle]
Advance(w, pc, ack) == job' = [job EXCEPT ![w].pc = pc, ![w].ack = ack]

\* An exception, or the end of the caller's process: what it had not committed
\* is gone.
Die(w) ==
    /\ job[w] # Idle
    /\ Finish(w)
    /\ UNCHANGED <<vars, executionVars, chainVars>>

WithinGrant(a) ==
    Exposure(a) > 0 =>
        /\ Exposure(a) <= Grant.perAction
        /\ HeldGlobally + Exposure(a) <= Grant.cumulative

ReserveAction(w) ==
    LET a == job[w].action
    IN /\ At(w, "reserve", "AUTHORIZED")
       /\ state[a] = "SIMULATED"
       /\ WithinGrant(a)
       /\ MoveIntent(a, "RESERVED")
       /\ LedgerRest
       /\ Finish(w)
       /\ UNCHANGED origin
       /\ RuntimeRest

RecordExecutionEnvelope(w) ==
    LET a == job[w].action
    IN /\ At(w, "envelope", "AUTHORIZED")
       /\ ~killed
       /\ state[a] = "RESERVED"
       /\ envelope' = [envelope EXCEPT ![a] = TRUE]
       /\ Finish(w)
       /\ UNCHANGED <<vars, chainVars, attempts, resumed, obs, evidence, killed>>

\* Bytes are admitted for an action that has no transaction yet; an external
\* reference shuts the door (trigger signed_transactions_kind_guard).
AdmitExactSignedBytes(w) ==
    LET a == job[w].action
    IN /\ At(w, "admit", "AUTHORIZED")
       /\ ~killed
       /\ state[a] = "RESERVED"
       /\ envelope[a]
       /\ origin[a] = "NONE"
       /\ origin' = [origin EXCEPT ![a] = "SIGNED"]
       /\ MoveIntent(a, "SIGNED")
       /\ LedgerRest
       /\ Finish(w)
       /\ RuntimeRest

-----------------------------------------------------------------------------
(* submit_exact_signed_bytes. *)

\* _assert_exact_bytes_submittable: the durable gate, a transaction of its own.
SubmitGate(w) ==
    LET a == job[w].action
    IN /\ At(w, "submit", "AUTHORIZED")
       /\ origin[a] = "SIGNED"
       /\ state[a] = "SIGNED"
       /\ resv[a] = IF Exposure(a) = 0 THEN "NONE" ELSE "ACTIVE"
       /\ recon[a] = "NONE"
       /\ Advance(w, "GATED", "none")
       /\ UNCHANGED <<vars, executionVars, chainVars>>

\* A second transmission is refused unless the caller allowed an identical retry.
SubmitPrior(w) ==
    /\ At(w, "submit", "GATED")
    /\ attempts[job[w].action] = {} \/ job[w].retry
    /\ Advance(w, "CLEARED", "none")
    /\ UNCHANGED <<vars, executionVars, chainVars>>

\* The transport: a provider that names the hash has the bytes; any other answer,
\* or none, leaves it unknown whether they arrived.
SubmitTransport(w) ==
    LET a == job[w].action
    IN /\ At(w, "submit", "CLEARED")
       /\ \/ Advance(w, "ANSWERED", "ACCEPTED") /\ crossed' = [crossed EXCEPT ![a] = TRUE]
          \/ /\ Advance(w, "ANSWERED", "UNKNOWN")
             /\ \E arrived \in BOOLEAN : crossed' = [crossed EXCEPT ![a] = crossed[a] \/ arrived]
       /\ UNCHANGED <<vars, executionVars, tx, past>>

Answered(w) == At(w, "submit", "ANSWERED")

\* _record_submission_attempt: in a later transaction; refused once the action is
\* no longer in a state a submission can be in, or the kill switch is engaged.
RecordSubmissionAttempt(w) ==
    LET a == job[w].action
    IN /\ Answered(w)
       /\ ~killed
       /\ state[a] \in EXTERNALLY_AMBIGUOUS_STATES
       /\ attempts' = [attempts EXCEPT ![a] = @ \cup {job[w].ack}]
       /\ IF state[a] = "SIGNED" THEN MoveIntent(a, "SUBMITTED") ELSE UNCHANGED <<state, resv>>
       /\ LedgerRest
       /\ Finish(w)
       /\ UNCHANGED <<origin, recoveryVars, envelope, resumed, obs, evidence, killed, chainVars>>

-----------------------------------------------------------------------------
(* The chain, and what its providers say of it. *)

Broadcast(a) == crossed[a] \/ origin[a] = "EXTERNAL"

BecomesOnChain(a, facts, height) ==
    /\ tx' = [tx EXCEPT ![a] = [facts |-> facts, head |-> height]]
    /\ past' = [past EXCEPT ![a] = @ \cup {tx'[a]}]
    /\ UNCHANGED <<vars, executionVars, job, crossed>>

Versions(a) == {m.facts : m \in past[a]} \ {NoFacts}

Include(a) ==
    /\ Broadcast(a)
    /\ tx[a].facts = NoFacts
    /\ \E f \in TxFacts :
          /\ Cardinality(Versions(a) \cup {f}) <= MaxVersions
          /\ BecomesOnChain(a, f, f.block)

Deepen(a) ==
    /\ tx[a].facts # NoFacts
    /\ tx[a].head < tx[a].facts.block + MinConfirmationDepth
    /\ BecomesOnChain(a, tx[a].facts, tx[a].head + 1)

\* Only a block short of the confirmation depth is ever replaced.
Reorganise(a) ==
    /\ tx[a].facts # NoFacts
    /\ tx[a].head < tx[a].facts.block + MinConfirmationDepth
    /\ BecomesOnChain(a, NoFacts, 0)

IsFinal(a) == tx[a].facts # NoFacts /\ tx[a].head >= tx[a].facts.block + MinConfirmationDepth

\* A provider reports what is or was the case.
ReadingsOf(a, p) ==
    {[provider |-> p, at |-> Cardinality(obs[a]), id |-> 0,
      presence |-> IF m.facts # NoFacts THEN "INCLUDED" ELSE presence,
      facts |-> m.facts, head |-> m.head] :
        m \in past[a], presence \in {"ABSENT"} \cup IF Broadcast(a) THEN {"PENDING"} ELSE {}}

-----------------------------------------------------------------------------
(* Observation and reconciliation, which nothing suspends. *)

Acknowledged(a) == origin[a] = "SIGNED" /\ "ACCEPTED" \in attempts[a]

\* _advance_to_chain_state: the states it takes an intent through, one legal
\* transition after the other, or refuses.
AdvanceFrom(a) ==
    EXTERNALLY_AMBIGUOUS_STATES \cup IF origin[a] = "EXTERNAL" THEN {"RESERVED"} ELSE {}
AdvancedState(a, verdict) ==
    IF verdict = "CONFIRMED" \/ state[a] = "CONFIRMED" THEN "CONFIRMED" ELSE "INCLUDED"

ObservationEffect(a, verdict) ==
    IF verdict = "AMBIGUOUS" /\ state[a] \notin {"SAFE_HALT", "FILLED", "REJECTED"}
    THEN MoveIntent(a, "SAFE_HALT")
    ELSE IF verdict \in {"INCLUDED", "CONFIRMED"} /\ state[a] # "SAFE_HALT"
    THEN /\ state[a] \in AdvanceFrom(a)
         /\ state' = [state EXCEPT ![a] = AdvancedState(a, verdict)]
         /\ UNCHANGED resv
    ELSE UNCHANGED <<state, resv>>

RecordReading(a, r) ==
    /\ origin[a] # "NONE"
    /\ Cardinality(obs[a] \cup {r}) <= MaxObs
    /\ obs' = [obs EXCEPT ![a] = @ \cup {r}]
    /\ ObservationEffect(a, Verdict(obs'[a], Acknowledged(a)))

RecordChainObservation(a) ==
    /\ \E p \in Providers : \E r \in ReadingsOf(a, p) : RecordReading(a, r)
    /\ LedgerRest
    /\ UNCHANGED <<origin, recoveryVars, envelope, attempts, resumed, evidence, killed, job, chainVars>>

VerdictOf(a) == Verdict(obs[a], Acknowledged(a))
EvidenceOf(a) == [obs |-> obs[a], acknowledged |-> Acknowledged(a), set |-> TRUE]

\* A reverted transaction ends its action and frees its capital.
RevertedEffect(a) ==
    IF state[a] = "SAFE_HALT" THEN RecoverSafeHalt(a, "REJECTED")
    ELSE IF state[a] \in AdvanceFrom(a)
    THEN /\ "REJECTED" \in TRANSITIONS[state[a]]
         /\ state' = [state EXCEPT ![a] = "REJECTED"]
         /\ SettleReservation(a, "RELEASED")
    ELSE UNCHANGED <<state, resv>>

Settlement(a, facts) ==
    [ref |-> RefOf[a], action |-> a, input |-> facts.input, output |-> facts.output]

\* A settled one is accounted: its receipt, in bounds or the call raises, and the
\* intent advanced to RECONCILED.
SettledEffect(a) ==
    LET row == Settlement(a, SettledFacts(obs[a]))
    IN /\ RowsWithinBounds({row}, bounds[a])
       /\ state[a] \in RECEIPT_STATES
       /\ \A r \in receipts : r.ref # row.ref
       /\ receipts' = receipts \cup {row}
       /\ IF state[a] = "SAFE_HALT" THEN RecoverSafeHalt(a, "RECONCILED")
          ELSE /\ state[a] \in AdvanceFrom(a)
               /\ state' = [state EXCEPT ![a] = "RECONCILED"]
               /\ UNCHANGED resv

\* The mutant settles on inclusion, without waiting for the confirmation depth.
ReconcileFirst_OnInclusion(a) ==
    /\ recon[a] = "NONE"
    /\ \/ /\ VerdictOf(a) \in {"INCLUDED", "CONFIRMED"} /\ Settled(obs[a]) /\ SettledEffect(a)
          /\ recon' = [recon EXCEPT ![a] = "SETTLED"]
       \/ /\ VerdictOf(a) \in {"INCLUDED", "REVERTED"} /\ ~Settled(obs[a]) /\ RevertedEffect(a)
          /\ UNCHANGED receipts /\ recon' = [recon EXCEPT ![a] = "REVERTED"]
    /\ evidence' = [evidence EXCEPT ![a] = EvidenceOf(a)]

\* The first terminal verdict is recorded, with its consequence.
ReconcileFirst(a) ==
    /\ recon[a] = "NONE"
    /\ \/ /\ VerdictOf(a) = "CONFIRMED"
          /\ SettledEffect(a)
          /\ recon' = [recon EXCEPT ![a] = "SETTLED"]
       \/ /\ VerdictOf(a) = "REVERTED"
          /\ RevertedEffect(a)
          /\ UNCHANGED receipts
          /\ recon' = [recon EXCEPT ![a] = "REVERTED"]
       \/ /\ VerdictOf(a) = "AMBIGUOUS"
          /\ IF state[a] \in {"SAFE_HALT", "REJECTED", "FILLED"}
             THEN UNCHANGED <<state, resv>> ELSE MoveIntent(a, "SAFE_HALT")
          /\ UNCHANGED receipts
          /\ recon' = [recon EXCEPT ![a] = "AMBIGUOUS"]
    /\ evidence' = [evidence EXCEPT ![a] = EvidenceOf(a)]

\* The mutant takes new evidence for the old.
ReconcileAgain_AnyEvidence(a) ==
    /\ recon[a] # "NONE"
    /\ state[a] = "SAFE_HALT"
    /\ \/ VerdictOf(a) = "CONFIRMED" /\ RecoverSafeHalt(a, "RECONCILED")
       \/ VerdictOf(a) = "REVERTED" /\ RecoverSafeHalt(a, "REJECTED")
    /\ UNCHANGED <<receipts, recon, evidence>>

\* A later call must find the evidence exactly as it was concluded from.
ReconcileAgain(a) ==
    /\ recon[a] # "NONE"
    /\ evidence[a] = EvidenceOf(a)
    /\ state[a] = "SAFE_HALT"
    /\ \/ VerdictOf(a) = "CONFIRMED" /\ RecoverSafeHalt(a, "RECONCILED")
       \/ VerdictOf(a) = "REVERTED" /\ RecoverSafeHalt(a, "REJECTED")
    /\ UNCHANGED <<receipts, recon, evidence>>

ReconcileExternalAction(a) ==
    /\ origin[a] # "NONE"
    /\ ReconcileFirst(a) \/ ReconcileAgain(a)
    /\ UNCHANGED <<admitted, cycle, carry, bounds, seen, origin, recoveryVars>>
    /\ UNCHANGED <<envelope, attempts, resumed, obs, killed, job, chainVars>>

CompleteSettlement(a) ==
    /\ state[a] = "RECONCILED"
    /\ MoveIntent(a, "FILLED")
    /\ LedgerRest
    /\ UNCHANGED <<origin, job>>
    /\ RuntimeRest

-----------------------------------------------------------------------------
(* resume_quarantined_exact_signed_bytes: back from SAFE_HALT to SIGNED. *)

\* Providers' readings are fresh: a block at the confirmation depth is not missed.
AbsenceSeen(a) == Cardinality(Providers) >= 2 /\ ~IsFinal(a)

\* The mutant does not ask whether a submission was recorded.
ResumeGate_IgnoresAttempts(a) ==
    /\ state[a] = "SAFE_HALT"
    /\ resv[a] = IF Exposure(a) = 0 THEN "NONE" ELSE "QUARANTINED"
    /\ origin[a] = "SIGNED" /\ envelope[a]
    /\ recon[a] = "NONE"
    /\ ReceiptsOf(a) = {}

\* Nothing on record says that the bytes ever left.
ResumeGate(a) ==
    /\ state[a] = "SAFE_HALT"
    /\ resv[a] = IF Exposure(a) = 0 THEN "NONE" ELSE "QUARANTINED"
    /\ origin[a] = "SIGNED" /\ envelope[a]
    /\ attempts[a] = {}
    /\ recon[a] = "NONE"
    /\ ReceiptsOf(a) = {}

\* The mutant leaves the capital of a resumed action in quarantine.
ResumeHold_Quarantined(a) == UNCHANGED resv

ResumeHold(a) == resv' = [resv EXCEPT ![a] = IF Exposure(a) = 0 THEN @ ELSE "ACTIVE"]

Resume(w) ==
    LET a == job[w].action
    IN /\ At(w, "resume", "AUTHORIZED")
       /\ ResumeGate(a)
       /\ AbsenceSeen(a)
       /\ state' = [state EXCEPT ![a] = "SIGNED"]
       /\ ResumeHold(a)
       /\ resumed' = [resumed EXCEPT ![a] = TRUE]
       /\ LedgerRest
       /\ Finish(w)
       /\ UNCHANGED <<origin, recoveryVars, envelope, attempts, obs, evidence, killed, chainVars>>

-----------------------------------------------------------------------------
(* Everything else that moves an intent here. *)

EngageKillSwitch ==
    /\ ~killed
    /\ killed' = TRUE
    /\ UNCHANGED <<vars, envelope, attempts, resumed, obs, evidence, job, chainVars>>

\* An operator gives up an intent that is not committed yet.
Abandon(a) ==
    /\ state[a] \in PRE_COMMITMENT_STATES
    /\ Transition(a, "CANCELLED")
    /\ UNCHANGED <<origin, job>>
    /\ RuntimeRest

\* Another process restarts and recovers, or records an external reference.
OtherProcess ==
    /\ Recovery \/ Crash \/ \E a \in Actions : RecordExternalReference(a)
    /\ UNCHANGED <<executionVars, job, chainVars>>

\* A policy is admitted and its cycle open; what is already so of the intents
\* differs.
RuntimeInit(reached, authorized) ==
    /\ admitted = Policies
    /\ cycle = [c \in Cycles |-> "OPEN"]
    /\ carry = [c \in Cycles |-> NoCarry]
    /\ state = [a \in Actions |-> reached]
    /\ bounds = [a \in Actions |-> [maxInput |-> ActionInfo[a].size,
                                    minOutput |-> ActionInfo[a].size * ActionInfo[a].floor]]
    /\ resv = [a \in Actions |-> "NONE"]
    /\ receipts = {}
    /\ recon = [a \in Actions |-> "NONE"]
    /\ seen = [c \in Cycles |-> 0]
    /\ origin = [a \in Actions |-> "NONE"]
    /\ phase = "UP" /\ plan = NoPlan /\ todo = {} /\ crashes = 0
    /\ envelope = [a \in Actions |-> authorized]
    /\ attempts = [a \in Actions |-> {}]
    /\ resumed = [a \in Actions |-> FALSE]
    /\ obs = [a \in Actions |-> {}]
    /\ evidence = [a \in Actions |-> NoEvidence]
    /\ killed = FALSE
    /\ job = [w \in Workers |-> Idle]
    /\ crossed = [a \in Actions |-> FALSE]
    /\ tx = [a \in Actions |-> Unmined]
    /\ past = [a \in Actions |-> {Unmined}]

\* Preparation is over: each intent is simulated.
ExecInit == RuntimeInit("SIMULATED", FALSE)

Submit(w) == SubmitGate(w) \/ SubmitPrior(w) \/ SubmitTransport(w) \/ RecordSubmissionAttempt(w)

ExecNext ==
    \/ \E w \in Workers, a \in Actions :
          \/ \E call \in Calls : Begin(w, call, a, FALSE)
          \/ Begin(w, "submit", a, TRUE)
    \/ \E w \in Workers :
          \/ ReserveAction(w) \/ RecordExecutionEnvelope(w) \/ AdmitExactSignedBytes(w)
          \/ Submit(w) \/ Resume(w) \/ Die(w)
    \/ \E a \in Actions :
          \/ RecordChainObservation(a) \/ ReconcileExternalAction(a) \/ CompleteSettlement(a)
          \/ Abandon(a)
          \/ Include(a) \/ Deepen(a) \/ Reorganise(a)
    \/ EngageKillSwitch
    \/ OtherProcess

ExecSpec == ExecInit /\ [][ExecNext]_execVars

-----------------------------------------------------------------------------
(* Properties. *)

\* I-03 and I-04: capital is held from before an action's bytes can leave until
\* the chain has settled the transaction, whatever crashes, recoveries, resumed
\* and concurrent submissions there were; it is free again only once the
\* transaction is final and reverted.
CrossedIsHeld ==
    \A a \in Actions : crossed[a] /\ Exposure(a) > 0 =>
        \/ resv[a] \in {"ACTIVE", "QUARANTINED", "COMMITTED"}
        \/ IsFinal(a) /\ tx[a].facts.status = "REVERTED"

\* I-06: what the ledger accounts as a fill is what the chain finally did, within
\* the bounds the intent committed to.
FilledMatchesChain ==
    \A a \in Actions : state[a] \in {"RECONCILED", "FILLED"} =>
        /\ IsFinal(a) /\ tx[a].facts.status = "SUCCESS"
        /\ ReceiptsOf(a) = {Settlement(a, tx[a].facts)}
        /\ RowsWithinBounds(ReceiptsOf(a), bounds[a])

\* I-05: once a submission is on record no order of restarts, resumptions and
\* late answers brings the action back to where it could be submitted afresh.
AttemptedNeverSignedAgain ==
    \A a \in Actions : attempts[a] # {} => state[a] # "SIGNED"

\* An ambiguous outcome, once recorded, is never resolved by later evidence: the
\* action is neither filled nor freed after it.
AmbiguityIsFrozen ==
    [][\A a \in Actions : recon[a] = "AMBIGUOUS" =>
         /\ recon'[a] = "AMBIGUOUS"
         /\ state[a] = "SAFE_HALT" => state'[a] = "SAFE_HALT" /\ resv'[a] = resv[a]]_execVars

=============================================================================
