-------------------------- MODULE ExecutionReplay ---------------------------
(***************************************************************************)
(* The replay of a database the execution runtime writes to                *)
(* (qntyspot/ledger/execution_replay.py): the log of the ledger, replayed  *)
(* with the reverted actions of the reconciliations it trusts, and the     *)
(* execution tables, copied after their rows have been held against one    *)
(* another and against the log.  Every call of Execution appears here with *)
(* the events it appends.                                                  *)
(***************************************************************************)
EXTENDS Execution, LedgerReplay

VARIABLE
    recoveries          \* (action, target) of the CHAIN_TRUTH_RECOVERED events

replayExecVars == <<execVars, replayVars, recoveries>>

-----------------------------------------------------------------------------
(* The events of the runtime's calls. *)

NextOnChain ==
    [SIGNED |-> "SUBMITTED", SUBMITTED |-> "INCLUDED", RESERVED |-> "INCLUDED",
     INCLUDED |-> "CONFIRMED", CONFIRMED |-> "RECONCILED"]

\* The mutant records an advance over several states as one transition.
Advances_Jump(a) == <<Moved(a, state[a], state'[a])>>

\* _advance_to_chain_state takes one legal transition after the other.
Advances(a) ==
    LET from[n \in 0..4] ==
            IF n = 0 THEN state[a]
            ELSE IF from[n - 1] \in DOMAIN NextOnChain THEN NextOnChain[from[n - 1]] ELSE from[n - 1]
        last == CHOOSE n \in 0..4 : from[n] = state'[a] /\ \A k \in 0..(n - 1) : from[k] # state'[a]
    IN [n \in 1..last |-> Moved(a, from[n - 1], from[n])]

\* What moving an intent leaves in the log.
MoveEvents(a) ==
    IF state'[a] = state[a] THEN <<>>
    ELSE IF state'[a] \in TRANSITIONS[state[a]] THEN <<Moved(a, state[a], state'[a])>>
    ELSE Advances(a)

\* What a reconciliation appends: the receipt it accounts, then how it moved the
\* intent, by terminal chain truth when the intent was halted.
ReconcileEvents(a) ==
    LET rows == receipts' \ receipts
        row == CHOOSE r \in rows : TRUE
    IN (IF rows = {} THEN <<>> ELSE <<Received(row)>>)
         \o (IF state[a] = "SAFE_HALT" /\ state'[a] # "SAFE_HALT"
             THEN <<Recovered(a, state'[a])>> ELSE MoveEvents(a))

LogMoves(a) == Appends(MoveEvents(a)) /\ UNCHANGED recoveries

LogReconcile(a) ==
    /\ Appends(ReconcileEvents(a))
    /\ recoveries' = IF state[a] = "SAFE_HALT" /\ state'[a] # "SAFE_HALT"
                     THEN recoveries \cup {[action |-> a, to |-> state'[a]]} ELSE recoveries

LogResume(a) ==
    /\ Appends(IF state'[a] = state[a] THEN <<>> ELSE <<Resumed(a)>>)
    /\ UNCHANGED recoveries

LogNoMove == LogNothing /\ UNCHANGED recoveries

ReplayExecInit ==
    /\ ExecInit
    /\ marks = [a \in Actions |-> NoMarks]
    /\ rebuilt = [EmptyLedger EXCEPT !.cycle = cycle, !.state = state, !.bounds = bounds]
    /\ recoveries = {}

ReplayExecNext ==
    \/ \E w \in Workers, a \in Actions :
          /\ \/ \E call \in Calls : Begin(w, call, a, FALSE)
             \/ Begin(w, "submit", a, TRUE)
          /\ LogNoMove
    \/ \E w \in Workers :
          \/ (ReserveAction(w) \/ AdmitExactSignedBytes(w) \/ Submit(w)) /\ LogMoves(job[w].action)
          \/ Resume(w) /\ LogResume(job[w].action)
          \/ (RecordExecutionEnvelope(w) \/ Die(w)) /\ LogNoMove
    \/ \E a \in Actions :
          \/ (RecordChainObservation(a) \/ CompleteSettlement(a) \/ Abandon(a)) /\ LogMoves(a)
          \/ ReconcileExternalAction(a) /\ LogReconcile(a)
          \/ (Include(a) \/ Deepen(a) \/ Reorganise(a)) /\ LogNoMove
          \/ RecoverStep(a) /\ UNCHANGED <<executionVars, job, chainVars>> /\ LogMoves(a)
          \/ (RecordExternalReference(a) \/ RecoverRaise(a))
               /\ UNCHANGED <<executionVars, job, chainVars>> /\ LogNoMove
    \/ EngageKillSwitch /\ LogNoMove
    \/ (RecoverRead \/ RecoverReturn \/ Crash)
         /\ UNCHANGED <<executionVars, job, chainVars>> /\ LogNoMove

ReplayExecSpec == ReplayExecInit /\ [][ReplayExecNext]_replayExecVars

-----------------------------------------------------------------------------
(* What the replay of the execution tables demands of them. *)

\* _validated_reverted_bindings: a reverted action has one transaction, and a
\* provider on record that saw it reverted.
RevertedBound ==
    \A a \in Actions : recon[a] = "REVERTED" =>
        /\ origin[a] # "NONE"
        /\ \E r \in obs[a] : r.presence = "INCLUDED" /\ r.facts.status = "REVERTED"

\* _validate_exact_signed_envelope_bindings
SignedBound == \A a \in Actions : origin[a] = "SIGNED" => envelope[a]

\* _validate_chain_truth_recovery_bindings
RecoveriesBound ==
    \A e \in recoveries :
        \/ e.to = "RECONCILED" /\ recon[e.action] = "SETTLED" /\ ReceiptsOf(e.action) # {}
        \/ e.to = "REJECTED" /\ recon[e.action] = "REVERTED"

\* _validate_settlement_states
SettlementBound ==
    \A a \in Actions : state[a] \in {"RECONCILED", "FILLED"} => HasSettledReceipt(a)

\* assert_execution_replay_equivalence never fails on what the runtime wrote,
\* whatever the order of submissions, restarts, resumptions and reconciliations:
\* the log replays to the tables, and the execution rows bear each other out.
ExecutionReplays ==
    /\ ReplayEqualsTables
    /\ RevertedBound /\ SignedBound /\ RecoveriesBound /\ SettlementBound
=============================================================================
