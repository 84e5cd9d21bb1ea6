----------------------------- MODULE RoundTrip ------------------------------
(***************************************************************************)
(* The native sell round trip that an operator runs by hand                *)
(* (ops/ink_v0f_native_sell_roundtrip_execute_v0.py): approve the router   *)
(* for exactly the amount to sell, sell it, and revoke what is left.       *)
(*                                                                         *)
(* The program is run once per step, in one of four modes, by operators    *)
(* who may run it again, run two of it side by side, or lose it anywhere.  *)
(* What survives a run is the ledger of Execution, three files beside it   *)
(* that are created once and never replaced, and the chain.                *)
(*                                                                         *)
(* The three transactions are of one wallet: the approval takes nonce 0,   *)
(* the sell nonce 1, and a revocation the sell's own nonce or the next.    *)
(***************************************************************************)
EXTENDS Execution

CONSTANT Sell           \* the economic action of the round trip

ASSUME RoundTripAssumption ==
    /\ Sell \in Actions /\ ActionInfo[Sell].side = "SELL"
    /\ Cardinality(Providers) = 2

VARIABLES
    run,                \* [mode, pc, left] of each operator's run
    approval,           \* rows of the approval: authorised, admitted, attempted
    files,              \* the guard and preparation files
    sends,              \* times each transaction was handed to the transport
    pool,               \* approval and revocation that reached the network
    wallet, walletPast, \* them on the chain, and all that was ever true there
    keeps               \* the token leaves the allowance as it was when it is spent

fileVars == <<approval, files>>
walletVars == <<sends, pool, wallet, walletPast>>
roundVars == <<run, fileVars, walletVars, keeps>>
tripVars == <<execVars, roundVars>>

Modes == {"approval", "sell", "prepare", "revoke"}
Resting == [mode |-> "none", pc |-> "IDLE", left |-> {}]
SellNonce == 1

NoFiles == [sellGuard |-> FALSE, prepared |-> 0, revokeGuard |-> FALSE]

In(w, mode, pc) == run[w].mode = mode /\ run[w].pc = pc
Go(w, pc) == run' = [run EXCEPT ![w].pc = pc]
End(w) == run' = [run EXCEPT ![w] = Resting]

-----------------------------------------------------------------------------
(* The wallet's transactions on the chain. *)

WalletFacts == {[f EXCEPT !.input = 0, !.output = 0] : f \in TxFacts}

OnChain(t) == IF t = "sell" THEN tx[Sell] ELSE wallet[t]
NonceOf(t) == CASE t = "approve" -> 0 [] t = "sell" -> SellNonce [] t = "revoke" -> files.prepared
Mined == {t \in {"approve", "sell", "revoke"} : OnChain(t).facts # NoFacts}
Succeeded(t) == OnChain(t).facts.status = "SUCCESS"
Deep(t) == OnChain(t).facts # NoFacts /\ OnChain(t).head >= OnChain(t).facts.block + MinConfirmationDepth

\* What a block shows: the transactions mined in it and before it.
Blocks == {V \in SUBSET Mined : \A t \in V, u \in Mined : NonceOf(u) < NonceOf(t) => u \in V}

\* Is the router allowed to spend, and the wallet's next nonce, as of a block.
Allowed(V) ==
    /\ "approve" \in V /\ Succeeded("approve")
    /\ ~("revoke" \in V /\ Succeeded("revoke"))
    /\ ~("sell" \in V /\ Succeeded("sell") /\ ~keeps)
NextNonce(V) == Cardinality(V)

WalletBecomes(t, record) ==
    /\ wallet' = [wallet EXCEPT ![t] = record]
    /\ walletPast' = [walletPast EXCEPT ![t] = @ \cup {record}]
    /\ UNCHANGED <<execVars, run, fileVars, sends, pool, keeps>>

IsNext(t) == t \notin Mined /\ Cardinality(Mined) = NonceOf(t)
Earlier(t) == {u \in Mined : NonceOf(u) < NonceOf(t)}

IncludeWallet(t) ==
    /\ t \in pool
    /\ IsNext(t)
    /\ \E f \in WalletFacts :
          /\ Cardinality({m.facts : m \in walletPast[t]} \cup {f, NoFacts}) <= MaxVersions + 1
          /\ WalletBecomes(t, [facts |-> f, head |-> f.block])

DeepenWallet(t) ==
    /\ t \in Mined
    /\ ~Deep(t)
    /\ \A u \in Earlier(t) : Deep(u)
    /\ WalletBecomes(t, [wallet[t] EXCEPT !.head = @ + 1])

SellOnChain ==
    /\ \/ IsNext("sell") /\ Include(Sell)
       \/ (\A u \in Earlier("sell") : Deep(u)) /\ Deepen(Sell)
    /\ UNCHANGED roundVars

\* A reorganisation takes a transaction off the chain and all that followed it.
ReorganiseWallet(t) ==
    LET dropped == {u \in Mined : NonceOf(u) >= NonceOf(t)}
    IN /\ t \in Mined
       /\ ~Deep(t)
       /\ wallet' = [u \in DOMAIN wallet |-> IF u \in dropped THEN Unmined ELSE wallet[u]]
       /\ tx' = [tx EXCEPT ![Sell] = IF "sell" \in dropped THEN Unmined ELSE @]
       /\ UNCHANGED <<vars, executionVars, job, crossed, past>>
       /\ UNCHANGED <<run, fileVars, sends, pool, walletPast, keeps>>

-----------------------------------------------------------------------------
(* What a run reads of the approval or the revocation. *)

\* observe_ink_v0f_approval_transaction: one record of each provider.
WalletRecords(t) ==
    {[presence |-> IF m.facts # NoFacts THEN "INCLUDED" ELSE presence, facts |-> m.facts, head |-> m.head] :
        m \in walletPast[t], presence \in {"ABSENT"} \cup IF t \in pool THEN {"PENDING"} ELSE {}}

ReadingPairs(t) ==
    {{[provider |-> p, at |-> 0, id |-> 0, presence |-> r[p].presence,
       facts |-> r[p].facts, head |-> r[p].head] : p \in Providers} :
        r \in [Providers -> WalletRecords(t)]}

\* evaluate_ink_v0f_approval_truth judges them as the runtime judges a sell's, and
\* a submission counts as acknowledged once its guard is on record.
ApprovalTruth(readings) == Verdict(readings, TRUE)

\* reconcile_ink_v0f_approval: a conclusion that names a block needs an allowance
\* read at that block or later.
InTime(t, V, verdict) ==
    verdict \in {"VISIBLE", "AMBIGUOUS"} \/ t \in V

ApprovalSettlement(t, verdict, V) ==
    CASE verdict = "CONFIRMED" /\ Allowed(V) = (t = "approve") ->
             IF t = "approve" THEN "SETTLED" ELSE "REVOKED"
      [] verdict = "CONFIRMED" /\ Allowed(V) # (t = "approve") -> "SAFE_HALT"
      [] verdict \in {"REVERTED", "AMBIGUOUS"} -> "SAFE_HALT"
      [] OTHER -> "PENDING"

\* Both providers' readings of a transaction, then the allowance at a block, give
\* a confirmed transaction and this settlement.
Confirms(t, settlement, V) ==
    /\ InTime(t, V, "CONFIRMED")
    /\ ApprovalSettlement(t, "CONFIRMED", V) = settlement
    /\ \E readings \in ReadingPairs(t) : ApprovalTruth(readings) = "CONFIRMED"

\* _assert_sell_fresh: the allowance, the nonce the sell was frozen with, and an
\* intent still reserved.
SellFresh(V) == Allowed(V) /\ NextNonce(V) = SellNonce /\ state[Sell] = "RESERVED"

-----------------------------------------------------------------------------
(* Every run. *)

\* A run is given signed bytes, which an operator may have made at any time from
\* the frozen envelope; those of a revocation need its preparation.
Start(w, mode) ==
    /\ run[w] = Resting
    /\ mode = "revoke" => files.prepared # 0
    /\ run' = [run EXCEPT ![w] = [mode |-> mode, pc |-> "START", left |-> Providers]]
    /\ UNCHANGED <<execVars, fileVars, walletVars, keeps>>

\* A refusal, an error, or the end of the process.  Only files and rows remain.
Stop(w) ==
    /\ run[w] # Resting
    /\ End(w)
    /\ job' = [job EXCEPT ![w] = Idle]
    /\ UNCHANGED <<vars, executionVars, chainVars, fileVars, walletVars, keeps>>

\* Handing a transaction to the transport; it may arrive whatever the answer is.
HandOver(t) ==
    /\ sends' = [sends EXCEPT ![t] = @ + 1]
    /\ \E arrived \in BOOLEAN : pool' = IF arrived THEN pool \cup {t} ELSE pool
    /\ UNCHANGED <<execVars, fileVars, wallet, walletPast, keeps>>

Quiet == UNCHANGED <<execVars, walletVars, keeps>>

-----------------------------------------------------------------------------
(* approval *)

\* A run that finds an attempt on record only observes and reports, as every run
\* does after the transport; that changes nothing, and is not an action here.
ApprovalBegin(w) ==
    /\ In(w, "approval", "START")
    /\ approval # "ATTEMPTED"
    /\ ~killed
    /\ Go(w, "ADMIT")
    /\ UNCHANGED fileVars
    /\ Quiet

\* admit_ink_v0f_signed_approval.  An earlier run's row matches only if it was made
\* within the same second.
ApprovalAdmit(w) ==
    /\ In(w, "approval", "ADMIT")
    /\ ~killed
    /\ state[Sell] = "RESERVED"
    /\ approval' = IF approval = "AUTHORIZED" THEN "ADMITTED" ELSE approval
    /\ Go(w, "GUARD")
    /\ UNCHANGED files
    /\ Quiet

\* The mutant does not look for an earlier attempt before it records its own.
ApprovalGuard_Again(w) ==
    /\ In(w, "approval", "GUARD")
    /\ ~killed
    /\ state[Sell] = "RESERVED"
    /\ approval' = "ATTEMPTED"
    /\ Go(w, "SEND")
    /\ UNCHANGED files
    /\ Quiet

\* submit_ink_v0f_signed_approval: the attempt is committed before the transport.
ApprovalGuard(w) ==
    /\ In(w, "approval", "GUARD")
    /\ ~killed
    /\ state[Sell] = "RESERVED"
    /\ approval = "ADMITTED"
    /\ approval' = "ATTEMPTED"
    /\ Go(w, "SEND")
    /\ UNCHANGED files
    /\ Quiet

ApprovalSend(w) ==
    /\ In(w, "approval", "SEND")
    /\ HandOver("approve")
    /\ End(w)

-----------------------------------------------------------------------------
(* sell *)

\* The mutant sells when it finds the approval attempted, settled or not.
SellBegin_Unsettled(w) ==
    /\ In(w, "sell", "START")
    /\ approval = "ATTEMPTED"
    /\ IF files.sellGuard THEN origin[Sell] = "SIGNED" /\ Go(w, "OBSERVE") ELSE Go(w, "ADMIT")
    /\ UNCHANGED fileVars
    /\ Quiet

\* With no guard on disk the approval must have settled and the sell be fresh.
SellBegin(w) ==
    /\ In(w, "sell", "START")
    /\ approval = "ATTEMPTED"
    /\ IF files.sellGuard THEN origin[Sell] = "SIGNED" /\ Go(w, "OBSERVE")
       ELSE /\ \E V, F \in Blocks : SellFresh(F) /\ Confirms("approve", "SETTLED", V)
            /\ Go(w, "ADMIT")
    /\ UNCHANGED fileVars
    /\ Quiet

\* Where a run is when it calls the runtime, and where the call leaves it.
SellCall(w, pc, call, then) ==
    /\ In(w, "sell", pc)
    /\ \/ Begin(w, call, Sell, FALSE) /\ UNCHANGED run
       \/ /\ job[w].call = call
          /\ IF call = "admit" THEN AdmitExactSignedBytes(w) ELSE RecordSubmissionAttempt(w)
          /\ Go(w, then)
    /\ UNCHANGED <<fileVars, walletVars, keeps>>

\* _write_guard: the file must not exist.
SellGuard(w) ==
    /\ In(w, "sell", "GUARD")
    /\ ~files.sellGuard
    /\ files' = [files EXCEPT !.sellGuard = TRUE]
    /\ Go(w, "SUBMIT")
    /\ UNCHANGED approval
    /\ Quiet

\* submit_exact_signed_bytes up to the answer of the transport.
SellTransport(w) ==
    /\ In(w, "sell", "SUBMIT")
    /\ \/ (SubmitGate(w) \/ SubmitPrior(w)) /\ UNCHANGED sends
       \/ SubmitTransport(w) /\ sends' = [sends EXCEPT !["sell"] = @ + 1]
    /\ UNCHANGED <<run, fileVars, pool, wallet, walletPast, keeps>>

SellUnseen == \E m \in past[Sell] : m.facts = NoFacts
SellShallow == \E m \in past[Sell] : m.facts # NoFacts /\ m.head < m.facts.block + MinConfirmationDepth

\* A receipt that is missing or too shallow ends the run and leaves the ledger as
\* it is; a sell both providers show deep enough goes on.
SellObserve(w) ==
    /\ In(w, "sell", "OBSERVE")
    /\ \/ (SellUnseen \/ SellShallow) /\ End(w)
       \/ /\ IsFinal(Sell)
          /\ Settled({tx[Sell]}) => tx[Sell].facts.output >= bounds[Sell].minOutput
          /\ Go(w, "RECORD")
    /\ UNCHANGED fileVars
    /\ Quiet

\* _safe_halt: a provider that fails, two that disagree, or balances that do not
\* add up, halt an intent that has not ended.
SellHalt(w) ==
    /\ In(w, "sell", "OBSERVE")
    /\ state[Sell] \notin {"FILLED", "REJECTED", "SAFE_HALT"}
    /\ MoveIntent(Sell, "SAFE_HALT")
    /\ End(w)
    /\ LedgerRest /\ UNCHANGED <<origin, job>> /\ RuntimeRest
    /\ UNCHANGED <<fileVars, walletVars, keeps>>

\* A reading within the second of the first is the record that is there already.
FinalReadings(p) ==
    {[provider |-> p, at |-> at, id |-> 0,
      presence |-> "INCLUDED", facts |-> tx[Sell].facts, head |-> tx[Sell].head] :
        at \in {0, Cardinality(obs[Sell])}}

\* record_chain_observation, once for each provider.
SellRecord(w) ==
    /\ In(w, "sell", "RECORD")
    /\ \E p \in run[w].left : \E r \in FinalReadings(p) :
          /\ RecordReading(Sell, r)
          /\ run' = [run EXCEPT ![w].left = @ \ {p},
                               ![w].pc = IF run[w].left = {p} THEN "RECONCILE" ELSE "RECORD"]
    /\ LedgerRest
    /\ UNCHANGED <<origin, recoveryVars, envelope, attempts, resumed, evidence, killed, job, chainVars>>
    /\ UNCHANGED <<fileVars, walletVars, keeps>>

\* A reconciliation on record, with the evidence as it was, is simply returned.
SellReconcile(w) ==
    /\ In(w, "sell", "RECONCILE")
    /\ \/ ReconcileExternalAction(Sell)
       \/ /\ recon[Sell] # "NONE" /\ evidence[Sell] = EvidenceOf(Sell)
          /\ state[Sell] # "SAFE_HALT"
          /\ UNCHANGED execVars
    /\ Go(w, "ALLOWANCE")
    /\ UNCHANGED <<fileVars, walletVars, keeps>>

\* The mutant does not read the allowance after the sell.
SellAllowance_Unread(w) ==
    /\ In(w, "sell", "ALLOWANCE")
    /\ IF VerdictOf(Sell) = "CONFIRMED" THEN Go(w, "COMPLETE") ELSE End(w)
    /\ UNCHANGED fileVars
    /\ Quiet

\* The allowance at a block not older than the sell's.
SellAllowance(w) ==
    /\ In(w, "sell", "ALLOWANCE")
    /\ \E V \in Blocks :
          /\ "sell" \in V
          /\ IF VerdictOf(Sell) = "CONFIRMED" /\ ~Allowed(V) THEN Go(w, "COMPLETE") ELSE End(w)
    /\ UNCHANGED fileVars
    /\ Quiet

Complete(w, mode) ==
    /\ In(w, mode, "COMPLETE")
    /\ CompleteSettlement(Sell)
    /\ End(w)
    /\ UNCHANGED <<fileVars, walletVars, keeps>>

-----------------------------------------------------------------------------
(* revoke-prepare and revoke *)

\* The mutant takes a halted sell for one that has ended.
SellEnded_Halted == state[Sell] \in {"REJECTED", "RECONCILED", "FILLED", "SAFE_HALT"}

\* _expected_revoke_nonce: the sell's own nonce while no guard of it exists, the
\* next one after it has ended, and none in between.
SellEnded ==
    \/ state[Sell] = "REJECTED" /\ recon[Sell] = "REVERTED"
    \/ state[Sell] \in {"RECONCILED", "FILLED"} /\ recon[Sell] = "SETTLED"

RevokeNonce ==
    IF ~files.sellGuard THEN SellNonce
    ELSE IF origin[Sell] = "SIGNED" /\ SellEnded THEN SellNonce + 1
    ELSE 0

\* The approval is attempted and confirmed, whatever allowance is left of it.
ApprovalConfirmed(V) ==
    /\ approval = "ATTEMPTED"
    /\ \E settlement \in {"SETTLED", "SAFE_HALT"} : Confirms("approve", settlement, V)

\* With the nonce of the moment and an allowance, the request is written once.  It
\* may be printed again within the second it was made in.
RevokePrepare(w) ==
    /\ In(w, "prepare", "START")
    /\ \E V \in Blocks : Allowed(V) /\ ApprovalConfirmed(V)
    /\ RevokeNonce # 0
    /\ ~killed
    /\ \E V \in Blocks : Allowed(V) /\ NextNonce(V) = RevokeNonce
    /\ files.prepared = 0
    /\ files' = [files EXCEPT !.prepared = RevokeNonce]
    /\ End(w)
    /\ UNCHANGED approval
    /\ Quiet

RevokeBegin(w) ==
    /\ In(w, "revoke", "START")
    /\ \E V \in Blocks : ApprovalConfirmed(V)
    /\ files.prepared = RevokeNonce
    /\ Go(w, IF files.revokeGuard THEN "OBSERVE" ELSE "LIVE")
    /\ UNCHANGED fileVars
    /\ Quiet

RevokeLive(w) ==
    /\ In(w, "revoke", "LIVE")
    /\ ~killed
    /\ \E V \in Blocks : Allowed(V) /\ NextNonce(V) = files.prepared
    /\ Go(w, "GUARD")
    /\ UNCHANGED fileVars
    /\ Quiet

\* _write_private_once: the file must not exist.
RevokeGuard(w) ==
    /\ In(w, "revoke", "GUARD")
    /\ ~files.revokeGuard
    /\ files' = [files EXCEPT !.revokeGuard = TRUE]
    /\ Go(w, "SEND")
    /\ UNCHANGED approval
    /\ Quiet

RevokeSend(w) ==
    /\ In(w, "revoke", "SEND")
    /\ HandOver("revoke")
    /\ Go(w, "OBSERVE")

\* A revocation that is final completes a sell that waited for it.
RevokeObserve(w) ==
    /\ In(w, "revoke", "OBSERVE")
    /\ \E V \in Blocks : Confirms("revoke", "REVOKED", V)
    /\ state[Sell] = "RECONCILED" /\ recon[Sell] = "SETTLED"
    /\ Go(w, "COMPLETE")
    /\ UNCHANGED fileVars
    /\ Quiet

-----------------------------------------------------------------------------
(* The round trip. *)

\* The operator gives the sell up.  (Engaging the kill switch only makes runs stop,
\* which they may do anyway.)
Operator ==
    /\ Abandon(Sell)
    /\ UNCHANGED roundVars

\* Preparation has reserved the sell and authorised its envelope and approval.
TripInit ==
    /\ RuntimeInit("RESERVED", TRUE)
    /\ run = [w \in Workers |-> Resting]
    /\ approval = "AUTHORIZED"
    /\ files = NoFiles
    /\ sends = [t \in {"approve", "sell", "revoke"} |-> 0]
    /\ pool = {}
    /\ wallet = [t \in {"approve", "revoke"} |-> Unmined]
    /\ walletPast = [t \in {"approve", "revoke"} |-> {Unmined}]
    /\ keeps \in BOOLEAN

ApprovalMode(w) ==
    ApprovalBegin(w) \/ ApprovalAdmit(w) \/ ApprovalGuard(w) \/ ApprovalSend(w)

SellMode(w) ==
    \/ SellBegin(w) \/ SellCall(w, "ADMIT", "admit", "GUARD") \/ SellGuard(w)
    \/ Begin(w, "submit", Sell, FALSE) /\ In(w, "sell", "SUBMIT") /\ UNCHANGED roundVars
    \/ SellTransport(w) \/ SellCall(w, "SUBMIT", "submit", "OBSERVE")
    \/ SellObserve(w) \/ SellHalt(w) \/ SellRecord(w) \/ SellReconcile(w) \/ SellAllowance(w)
    \/ Complete(w, "sell")

RevokeModes(w) ==
    \/ RevokePrepare(w) \/ RevokeBegin(w) \/ RevokeLive(w) \/ RevokeGuard(w) \/ RevokeSend(w)
    \/ RevokeObserve(w) \/ Complete(w, "revoke")

WalletChain ==
    \/ \E t \in {"approve", "revoke"} : IncludeWallet(t) \/ DeepenWallet(t)
    \/ \E t \in {"approve", "sell", "revoke"} : ReorganiseWallet(t)
    \/ SellOnChain

TripNext ==
    \/ \E w \in Workers : Stop(w) \/ ApprovalMode(w) \/ SellMode(w) \/ RevokeModes(w)
    \/ \E w \in Workers, mode \in Modes : Start(w, mode)
    \/ WalletChain
    \/ Operator

TripSpec == TripInit /\ [][TripNext]_tripVars

-----------------------------------------------------------------------------
(* Properties. *)

\* However often the program is run, side by side or again after it died anywhere,
\* each of the three transactions is handed to the transport at most once.
EachSentOnce == \A t \in DOMAIN sends : sends[t] <= 1

\* The sell leaves only when the approval is final and successful, and nothing can
\* take that back: a spend is never in flight on an approval that may vanish.
SellNeedsFinalApproval ==
    sends["sell"] > 0 => Deep("approve") /\ Succeeded("approve")

\* A revocation at the next nonce leaves only after the sell is final on the chain,
\* so that it can never be stranded behind a nonce nobody uses.
NextNonceRevokesFinalSell ==
    sends["revoke"] > 0 /\ files.prepared = SellNonce + 1 => IsFinal(Sell)

\* A completed round trip leaves the router no allowance, in any block there will
\* be, unless a revocation is under way.
FilledLeavesNoAllowance ==
    state[Sell] = "FILLED" /\ sends["revoke"] = 0 => ~Allowed(Mined)

=============================================================================
