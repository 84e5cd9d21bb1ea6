--------------------------- MODULE RoundTripProofs ---------------------------
(***************************************************************************)
(* Proofs about RoundTrip: for any number of operators' runs, side by side *)
(* or one after another, lost at any step; for any providers, any facts    *)
(* the chain may settle and any order of its blocks, any reorganisation    *)
(* short of the confirmation depth, and a token that keeps an allowance as *)
(* it was or spends it.                                                    *)
(***************************************************************************)
EXTENDS RoundTrip, ExecutionProofs
-----------------------------------------------------------------------------
(* What the invariant says. *)

WalletTxs == {"approve", "revoke"}
WalletRecord == [facts: WalletFacts \cup {NoFacts}, head: Nat]
Places ==
    {"IDLE", "START", "ADMIT", "GUARD", "SEND", "SUBMIT", "OBSERVE", "RECORD",
     "RECONCILE", "ALLOWANCE", "COMPLETE", "LIVE"}
RunRecord == [mode: Modes \cup {"none"}, pc: Places, left: SUBSET Providers]

TripTyped ==
    /\ run \in [Workers -> RunRecord]
    /\ approval \in {"AUTHORIZED", "ADMITTED", "ATTEMPTED"}
    /\ files \in [sellGuard: BOOLEAN, prepared: 0..2, revokeGuard: BOOLEAN]
    /\ sends \in [{"approve", "sell", "revoke"} -> Nat]
    /\ pool \subseteq WalletTxs
    /\ wallet \in [WalletTxs -> WalletRecord]
    /\ walletPast \in [WalletTxs -> SUBSET WalletRecord]
    /\ JobsTyped /\ ReconTyped
    /\ state \in [Actions -> IntentState \cup {"NONE"}]

\* Who is about to hand a transaction over.
HandsApproval == {w \in Workers : In(w, "approval", "SEND")}
HandsSell == {w \in Workers : In(w, "sell", "SUBMIT") /\ job[w].pc # "ANSWERED"}
HandsRevocation == {w \in Workers : In(w, "revoke", "SEND")}

\* A claim that can be made once leaves one run, and no other, about to hand the
\* transaction over, and none after it has.
ClaimedOnce(claimed, count, hands) ==
    /\ count <= 1
    /\ ~claimed => count = 0 /\ hands = {}
    /\ \A w \in hands : count = 0 /\ hands = {w}

SentOnce ==
    /\ ClaimedOnce(approval = "ATTEMPTED", sends["approve"], HandsApproval)
    /\ ClaimedOnce(files.sellGuard, sends["sell"], HandsSell)
    /\ ClaimedOnce(files.revokeGuard, sends["revoke"], HandsRevocation)

\* The wallet's transactions are what they are from the confirmation depth on.
WalletLasts ==
    /\ Unmined \in past[Sell]
    /\ \A t \in WalletTxs :
          /\ Unmined \in walletPast[t] /\ wallet[t] \in walletPast[t]
          /\ \A m \in walletPast[t] : Lasting(m) => wallet[t] = m

\* A revocation is asked for before it is anywhere, and by then has its nonce.
RevocationAsked ==
    /\ "revoke" \in pool => files.prepared # 0 /\ sends["revoke"] > 0
    /\ \A w \in Workers : run[w].mode = "revoke" => files.prepared # 0
    /\ \A m \in walletPast["revoke"] : m.facts # NoFacts => "revoke" \in pool
    /\ \A w \in Workers : In(w, "revoke", "COMPLETE") => sends["revoke"] > 0

\* The chain takes a wallet's transactions in the order of their nonces, and none is
\* deeper than one before it.
NoncesInOrder ==
    /\ "sell" \in Mined \/ "revoke" \in Mined => "approve" \in Mined
    /\ "revoke" \in Mined => files.prepared = IF "sell" \in Mined THEN 2 ELSE 1
    /\ \A t, u \in Mined : NonceOf(u) < NonceOf(t) /\ Deep(t) => Deep(u)

ApprovalFinal == Deep("approve") /\ Succeeded("approve")

\* Nothing of the sell begins before its approval is final.
ApprovalFirst ==
    /\ files.sellGuard => ApprovalFinal
    /\ \A w \in Workers : run[w].mode = "sell" =>
          /\ run[w].pc \in {"ADMIT", "GUARD"} => ApprovalFinal
          /\ run[w].pc \notin {"START", "ADMIT", "GUARD"} => files.sellGuard

SellConcluded ==
    /\ recon[Sell] \in {"SETTLED", "REVERTED"} => IsFinal(Sell)
    /\ files.prepared = SellNonce + 1 => IsFinal(Sell)
    /\ \A w \in Workers : In(w, "sell", "RECORD") => IsFinal(Sell)

\* The sell is final and took the whole allowance with it.
AllowanceSpent == IsFinal(Sell) /\ Succeeded("sell") /\ ~keeps
CompletionSpent ==
    state[Sell] = "FILLED" \/ (\E w \in Workers : In(w, "sell", "COMPLETE")) =>
        sends["revoke"] > 0 \/ AllowanceSpent

TripSound ==
    /\ TripTyped /\ ChainSound /\ SentOnce /\ WalletLasts /\ RevocationAsked
    /\ NoncesInOrder /\ ApprovalFirst /\ SellConcluded /\ CompletionSpent

-----------------------------------------------------------------------------
(* The wallet's chain. *)

NonceTable ==
    NonceOf("approve") = 0 /\ NonceOf("sell") = 1 /\ NonceOf("revoke") = files.prepared

LEMMA NoncesAre == NonceTable
<1>1. "approve" # "sell" /\ "approve" # "revoke" /\ "sell" # "revoke"
  OBVIOUS
<1> QED
  BY <1>1, Zenon DEF NonceTable, NonceOf, SellNonce

LEMMA WalletFactsType ==
    /\ NoFacts \notin WalletFacts
    /\ \A f \in WalletFacts : f.block \in Nat /\ f.status \in ReceiptStatus
<1>1. \A f \in TxFacts : [f EXCEPT !.input = 0, !.output = 0].status = f.status
                      /\ [f EXCEPT !.input = 0, !.output = 0].block = f.block
  BY FactsAssumption
<1> QED
  BY <1>1, FactsType DEF WalletFacts, NoFacts, ReceiptStatus

\* What the providers' readings of a wallet transaction confirm, it finally is.
LEMMA ConfirmedIsFinal ==
    ASSUME TripTyped, WalletLasts, NEW t \in WalletTxs, NEW V, NEW settlement,
           Confirms(t, settlement, V)
    PROVE /\ Deep(t) /\ Succeeded(t)
          /\ \E m \in walletPast[t] : m.facts # NoFacts
<1>0. PICK known : known = TRUE
  OBVIOUS
<1>1. PICK O \in ReadingPairs(t) : Verdict(O, known) = "CONFIRMED"
  BY <1>0 DEF Confirms, ApprovalTruth
<1>2. PICK r \in [Providers -> WalletRecords(t)] :
          O = {[provider |-> p, at |-> 0, id |-> 0, presence |-> r[p].presence,
                facts |-> r[p].facts, head |-> r[p].head] : p \in Providers}
  BY <1>1 DEF ReadingPairs
<1> DEFINE I == Included(Latest(O))
<1>3. /\ I # {} /\ FinalDepth(I)
      /\ Settled(I)
  BY <1>1, VerdictMeans
<1>4. Latest(O) \subseteq O
  <2>1. \A p \in Reporting(O) : \E o \in O :
           /\ o.provider = p
           /\ \A e \in O : e.provider = p => e.at < o.at \/ (e.at = o.at /\ e.id <= o.id)
    BY <1>2 DEF Reporting
  <2>2. \A p \in Reporting(O) : LatestBy(O, p) \in O
    BY <2>1 DEF LatestBy
  <2> QED
    BY <2>2 DEF Latest
<1>5. PICK o \in I : TRUE
  BY <1>3
<1>6. PICK p \in Providers : o = [provider |-> p, at |-> 0, id |-> 0, presence |-> r[p].presence,
                                  facts |-> r[p].facts, head |-> r[p].head]
  BY <1>2, <1>4, <1>5 DEF Included
<1>7. r[p] \in WalletRecords(t)
  BY <1>2
<1>8. PICK m \in walletPast[t], presence \in {"ABSENT", "PENDING"} :
         r[p] = [presence |-> IF m.facts # NoFacts THEN "INCLUDED" ELSE presence,
                 facts |-> m.facts, head |-> m.head]
  BY <1>7 DEF WalletRecords
<1>9. o.presence = "INCLUDED" /\ o.facts = m.facts /\ o.head = m.head /\ m.facts # NoFacts
  BY <1>5, <1>6, <1>8 DEF Included
<1>10. m \in WalletRecord /\ m.facts \in WalletFacts /\ m.head \in Nat /\ m.facts.block \in Nat
  <2>1. m \in WalletRecord
    BY DEF TripTyped
  <2> QED
    BY <1>9, <2>1, WalletFactsType DEF WalletRecord
<1>11. o.facts.status = "SUCCESS" /\ Depth(o) >= MinConfirmationDepth
  BY <1>3, <1>5 DEF Settled, FinalDepth
<1>12. m.head >= m.facts.block + MinConfirmationDepth
  BY <1>9, <1>10, <1>11, FinalityAssumption DEF Depth, NoHead
<1>13. wallet[t] = m
  BY <1>9, <1>12 DEF WalletLasts, Lasting
<1> QED
  BY <1>9, <1>11, <1>12, <1>13 DEF Deep, Succeeded, OnChain, WalletTxs
-----------------------------------------------------------------------------
(* A step of the chain. *)

Txs == {"approve", "sell", "revoke"}

LEMMA NoncesApart ==
    ASSUME NoncesInOrder, NEW t \in Mined, NEW u \in Mined, NonceOf(t) = NonceOf(u)
    PROVE t = u
BY NoncesAre DEF NonceTable, NoncesInOrder, Mined

\* What is mined when a transaction's turn comes.
LEMMA TurnOf ==
    ASSUME NoncesInOrder, files.prepared \in 0..2, NEW t \in Txs, IsNext(t),
           t = "revoke" => files.prepared # 0
    PROVE /\ t = "approve" => Mined = {}
          /\ t = "sell" => Mined = {"approve"}
          /\ t = "revoke" => Mined = IF files.prepared = 1 THEN {"approve"} ELSE {"approve", "sell"}
<1>1. Mined \in {{}, {"approve"}, {"approve", "sell"}, {"approve", "revoke"},
                 {"approve", "sell", "revoke"}}
  BY DEF NoncesInOrder, Mined
<1>2. /\ Cardinality({}) = 0 /\ Cardinality({"approve"}) = 1
      /\ IsFiniteSet({"approve"})
  BY FS_EmptySet, FS_Singleton
<1>3. Cardinality({"approve", "sell"}) = 2 /\ IsFiniteSet({"approve", "sell"})
  <2>1. PICK one, sell : one = {"approve"} /\ sell = "sell"
    OBVIOUS
  <2>2. Cardinality(one \cup {sell}) = Cardinality(one) + 1 /\ IsFiniteSet(one \cup {sell})
    BY <1>2, <2>1, FS_AddElement
  <2>3. {"approve", "sell"} = one \cup {sell}
    BY <2>1
  <2> QED
    BY <1>2, <2>1, <2>2, <2>3
<1>4. Cardinality({"approve", "revoke"}) = 2
  <2>1. PICK one, last : one = {"approve"} /\ last = "revoke"
    OBVIOUS
  <2>2. Cardinality(one \cup {last}) = Cardinality(one) + 1
    BY <1>2, <2>1, FS_AddElement
  <2>3. {"approve", "revoke"} = one \cup {last}
    BY <2>1
  <2> QED
    BY <1>2, <2>1, <2>2, <2>3
<1>5. Cardinality({"approve", "sell", "revoke"}) = 3
  <2>1. PICK two, last : two = {"approve", "sell"} /\ last = "revoke"
    OBVIOUS
  <2>2. Cardinality(two \cup {last}) = Cardinality(two) + 1
    BY <1>3, <2>1, FS_AddElement
  <2>3. {"approve", "sell", "revoke"} = two \cup {last}
    BY <2>1
  <2> QED
    BY <1>3, <2>1, <2>2, <2>3
<1>6. t \notin Mined /\ Cardinality(Mined) = NonceOf(t)
  BY DEF IsNext
<1>7. CASE t = "approve"
  BY <1>1, <1>2, <1>3, <1>4, <1>5, <1>6, <1>7, NoncesAre DEF NonceTable
<1>8. CASE t = "sell"
  BY <1>1, <1>2, <1>3, <1>4, <1>5, <1>6, <1>8, NoncesAre DEF NonceTable
<1>9. CASE t = "revoke"
  <2>1. NonceOf(t) = files.prepared
    BY <1>9, NoncesAre DEF NonceTable
  <2> QED
    BY <1>1, <1>2, <1>3, <1>4, <1>5, <1>6, <1>9, <2>1
<1> QED
  BY <1>7, <1>8, <1>9 DEF Txs

\* Nonces are the ones of the files.
LEMMA NoncesStay ==
    ASSUME UNCHANGED files, NEW t \in Txs
    PROVE NonceOf(t)' = NonceOf(t)
<1>1. /\ NonceOf("approve") = 0 /\ NonceOf("sell") = 1 /\ NonceOf("revoke") = files.prepared
      /\ NonceOf("approve")' = 0 /\ NonceOf("sell")' = 1 /\ NonceOf("revoke")' = files'.prepared
  <2>1. NonceTable'
    BY NoncesAre, PTL
  <2> QED
    BY <2>1, NoncesAre DEF NonceTable
<1> QED
  BY <1>1 DEF Txs

LEMMA IncludedInOrder ==
    ASSUME NoncesInOrder, files.prepared \in 0..2, UNCHANGED files, NEW t \in Txs, IsNext(t),
           t = "revoke" => files.prepared # 0,
           OnChain(t)'.facts # NoFacts, ~Deep(t)',
           \A u \in Txs \ {t} : OnChain(u)' = OnChain(u)
    PROVE NoncesInOrder'
<1>1. Mined' = Mined \cup {t} /\ \A u \in Mined : Deep(u)' <=> Deep(u)
  <2>1. \A u \in Mined : u \in Txs \ {t}
    BY DEF Mined, Txs, IsNext
  <2> QED
    BY <2>1 DEF Mined, Deep, Txs
<1>2. \A u \in Txs : NonceOf(u)' = NonceOf(u)
  BY NoncesStay
<1>3. \A u \in Mined : NonceOf(u) < NonceOf(t)
  BY TurnOf, NoncesAre DEF NonceTable, Txs
<1>4. \A u, v \in Mined' : (NonceOf(u) < NonceOf(v))' /\ Deep(v)' => Deep(u)'
  <2> SUFFICES ASSUME NEW u \in Mined', NEW v \in Mined', (NonceOf(u) < NonceOf(v))', Deep(v)'
               PROVE Deep(u)'
    OBVIOUS
  <2>1. v \in Mined /\ v \in Txs /\ u \in Txs
    BY <1>1 DEF Mined, Txs
  <2>2. NonceOf(u) < NonceOf(v)
    BY <1>2, <2>1
  <2>3. u # t
    <3>1. NonceOf(v) \in Int /\ NonceOf(t) \in Int
      BY <2>1, NoncesAre DEF NonceTable, Txs
    <3> QED
      BY <1>3, <2>1, <2>2, <3>1
  <2> QED
    BY <1>1, <2>1, <2>2, <2>3 DEF NoncesInOrder
<1>5. /\ t = "approve" => Mined = {}
      /\ t = "sell" => Mined = {"approve"}
      /\ t = "revoke" => Mined = IF files.prepared = 1 THEN {"approve"} ELSE {"approve", "sell"}
  BY TurnOf
<1>6. /\ "sell" \in Mined' \/ "revoke" \in Mined' => "approve" \in Mined'
      /\ "revoke" \in Mined' => files'.prepared = IF "sell" \in Mined' THEN 2 ELSE 1
  BY <1>1, <1>5 DEF NoncesInOrder, Txs
<1> QED
  BY <1>4, <1>6 DEF NoncesInOrder

LEMMA DeepenedInOrder ==
    ASSUME NoncesInOrder, UNCHANGED files, NEW t \in Mined, \A u \in Earlier(t) : Deep(u),
           OnChain(t)'.facts = OnChain(t).facts,
           \A u \in Txs \ {t} : OnChain(u)' = OnChain(u), Deep(t) => Deep(t)'
    PROVE NoncesInOrder'
<1>1. Mined' = Mined /\ \A u \in Mined \ {t} : Deep(u)' <=> Deep(u)
  BY DEF Mined, Deep, Txs
<1>2. \A u \in Mined : NonceOf(u)' = NonceOf(u)
  BY NoncesStay DEF Mined, Txs
<1>3. \A u \in Mined : NonceOf(u) \in Int
  BY NoncesAre DEF NonceTable, Mined, NoncesInOrder
<1>4. ASSUME NEW u \in Mined, NEW v \in Mined, NonceOf(u) < NonceOf(v), Deep(v)'
      PROVE Deep(u)'
  <2>1. CASE v = t
    <3>1. u \in Earlier(t) /\ u # t
      BY <1>3, <1>4, <2>1 DEF Earlier
    <3> QED
      BY <1>1, <3>1
  <2>2. CASE v # t
    <3>1. Deep(v) /\ Deep(u)
      BY <1>1, <1>4, <2>2 DEF NoncesInOrder
    <3> QED
      BY <1>1, <3>1
  <2> QED
    BY <2>1, <2>2
<1> QED
  BY <1>1, <1>2, <1>4 DEF NoncesInOrder

LEMMA ReorganisedInOrder ==
    ASSUME NoncesInOrder, UNCHANGED files, NEW t \in Mined,
           \A u \in Txs : OnChain(u)' =
               IF u \in Mined /\ NonceOf(u) >= NonceOf(t) THEN Unmined ELSE OnChain(u)
    PROVE NoncesInOrder'
<1>1. Mined' = {u \in Mined : ~(NonceOf(u) >= NonceOf(t))}
  BY DEF Mined, Unmined, Txs
<1>2. \A u \in Mined' : (Deep(u)' <=> Deep(u)) /\ NonceOf(u)' = NonceOf(u)
  BY <1>1, NoncesStay DEF Mined, Deep, Txs
<1>3. /\ NonceOf("approve") = 0 /\ NonceOf("sell") = 1 /\ NonceOf("revoke") = files.prepared
  BY NoncesAre DEF NonceTable
<1>4. \A u, v \in Mined' : (NonceOf(u) < NonceOf(v))' /\ Deep(v)' => Deep(u)'
  BY <1>1, <1>2 DEF NoncesInOrder
<1>5. /\ "sell" \in Mined' \/ "revoke" \in Mined' => "approve" \in Mined'
      /\ "revoke" \in Mined' => files'.prepared = IF "sell" \in Mined' THEN 2 ELSE 1
  <2>1. t \in Txs
    BY DEF Mined, Txs
  <2> QED
    BY <1>1, <1>3, <2>1 DEF NoncesInOrder, Txs
<1> QED
  BY <1>4, <1>5 DEF NoncesInOrder

\* What changes when the chain does.
LEMMA ChainLeavesRuns ==
    ASSUME WalletChain
    PROVE UNCHANGED <<run, approval, files, sends, pool, keeps, job, recon, state, obs, crossed>>
BY DEF WalletChain, IncludeWallet, DeepenWallet, ReorganiseWallet, SellOnChain, WalletBecomes,
       Include, Deepen, BecomesOnChain, execVars, vars, ledgerVars, executionVars, chainVars,
       roundVars, fileVars, walletVars

LEMMA WalletIncluded ==
    ASSUME TripSound, NEW t \in WalletTxs, IncludeWallet(t) \/ DeepenWallet(t)
    PROVE \E m \in WalletRecord :
             /\ m.facts # NoFacts /\ wallet' = [wallet EXCEPT ![t] = m]
             /\ walletPast' = [walletPast EXCEPT ![t] = @ \cup {m}]
             /\ t = "revoke" => "revoke" \in pool
             /\ ~Lasting(wallet[t]) /\ UNCHANGED <<tx, past, files>> /\ NoncesInOrder'
<1>1. \A u \in WalletTxs : wallet[u] \in WalletRecord /\ OnChain(u) = wallet[u]
  BY DEF TripSound, TripTyped, OnChain, WalletTxs
<1>2. CASE IncludeWallet(t)
  <2>1. PICK f \in WalletFacts : WalletBecomes(t, [facts |-> f, head |-> f.block])
    BY <1>2 DEF IncludeWallet
  <2>2. f.block \in Nat /\ f # NoFacts /\ MinConfirmationDepth \in Nat \ {0}
    BY WalletFactsType, FinalityAssumption
  <2>3. PICK m \in WalletRecord : m = [facts |-> f, head |-> f.block]
    BY <2>2 DEF WalletRecord
  <2>4. /\ wallet' = [wallet EXCEPT ![t] = m] /\ walletPast' = [walletPast EXCEPT ![t] = @ \cup {m}]
        /\ UNCHANGED <<tx, past, files>>
    BY <2>1, <2>3 DEF WalletBecomes, fileVars, execVars, chainVars
  <2>5. ~Lasting(m) /\ m.facts # NoFacts
    BY <2>2, <2>3 DEF Lasting
  <2>6. wallet'[t] = m /\ \A u \in WalletTxs \ {t} : wallet'[u] = wallet[u]
    BY <2>4 DEF TripSound, TripTyped
  <2>7. /\ OnChain(t)' = m /\ ~Deep(t)'
        /\ \A u \in Txs \ {t} : OnChain(u)' = OnChain(u)
    BY <2>4, <2>5, <2>6 DEF OnChain, Deep, Lasting, Txs, WalletTxs
  <2>8. IsNext(t) /\ ~Lasting(wallet[t]) /\ t \in Txs /\ files.prepared \in 0..2
    BY <1>1, <1>2 DEF IncludeWallet, IsNext, Mined, Lasting, Txs, WalletTxs, TripSound, TripTyped
  <2>9. t = "revoke" => files.prepared # 0 /\ "revoke" \in pool
    BY <1>2 DEF IncludeWallet, TripSound, RevocationAsked
  <2>10. NoncesInOrder'
    BY <2>4, <2>5, <2>7, <2>8, <2>9, IncludedInOrder DEF TripSound
  <2> QED
    BY <2>4, <2>5, <2>8, <2>9, <2>10
<1>3. CASE DeepenWallet(t)
  <2>1. /\ t \in Mined /\ ~Deep(t) /\ \A u \in Earlier(t) : Deep(u)
        /\ WalletBecomes(t, [wallet[t] EXCEPT !.head = @ + 1])
    BY <1>3 DEF DeepenWallet
  <2>2. PICK m : m = [wallet[t] EXCEPT !.head = @ + 1]
    OBVIOUS
  <2>3. m \in WalletRecord /\ m.facts = wallet[t].facts /\ m.facts # NoFacts
    BY <1>1, <2>1, <2>2 DEF WalletRecord, Mined
  <2>4. /\ wallet' = [wallet EXCEPT ![t] = m] /\ walletPast' = [walletPast EXCEPT ![t] = @ \cup {m}]
        /\ UNCHANGED <<tx, past, files>>
    BY <2>1, <2>2 DEF WalletBecomes, fileVars, execVars, chainVars
  <2>5. ~Lasting(wallet[t])
    BY <1>1, <2>1 DEF Deep, Lasting
  <2>6. wallet'[t] = m /\ \A u \in WalletTxs \ {t} : wallet'[u] = wallet[u]
    BY <2>4 DEF TripSound, TripTyped
  <2>7. OnChain(t)' = m /\ \A u \in Txs \ {t} : OnChain(u)' = OnChain(u)
    BY <2>4, <2>6 DEF OnChain, Txs, WalletTxs
  <2>8. OnChain(t)'.facts = OnChain(t).facts
    BY <1>1, <2>3, <2>7
  <2>9. NoncesInOrder'
    BY <2>1, <2>4, <2>7, <2>8, DeepenedInOrder DEF TripSound
  <2>10. t = "revoke" => "revoke" \in pool
    <3>1. wallet[t] \in walletPast[t] /\ wallet[t].facts # NoFacts
      BY <2>3 DEF TripSound, WalletLasts
    <3> QED
      BY <3>1 DEF TripSound, RevocationAsked
  <2> QED
    BY <2>3, <2>4, <2>5, <2>9, <2>10
<1> QED
  BY <1>2, <1>3

LEMMA SellMoved ==
    ASSUME TripSound, SellOnChain
    PROVE /\ \E m \in ChainRecord :
                /\ ~Lasting(tx[Sell]) /\ tx' = [tx EXCEPT ![Sell] = m]
                /\ past' = [past EXCEPT ![Sell] = @ \cup {m}]
          /\ UNCHANGED <<wallet, walletPast, files>> /\ NoncesInOrder'
<1>1. /\ Sell \in Actions /\ tx[Sell] \in ChainRecord /\ OnChain("sell") = tx[Sell]
      /\ MinConfirmationDepth \in Nat \ {0} /\ tx \in [Actions -> ChainRecord]
  BY RoundTripAssumption, FinalityAssumption DEF TripSound, ChainSound, ChainTyped, OnChain
<1>2. UNCHANGED <<wallet, walletPast, files>>
  BY DEF SellOnChain, roundVars, fileVars, walletVars
<1>3. \A u \in Txs \ {"sell"} : OnChain(u)' = OnChain(u)
  BY <1>2 DEF OnChain, Txs
<1>4. CASE IsNext("sell") /\ Include(Sell)
  <2>1. PICK f \in TxFacts : BecomesOnChain(Sell, f, f.block)
    BY <1>4 DEF Include
  <2>2. f.block \in Nat /\ f # NoFacts
    BY FactsType
  <2>3. PICK m \in ChainRecord : m = [facts |-> f, head |-> f.block]
    BY <2>2 DEF ChainRecord
  <2>4. tx' = [tx EXCEPT ![Sell] = m] /\ tx'[Sell] = m
    BY <1>1, <2>1, <2>3 DEF BecomesOnChain
  <2>5. past' = [past EXCEPT ![Sell] = @ \cup {m}]
    BY <2>1, <2>4 DEF BecomesOnChain
  <2>6. ~Lasting(tx[Sell]) /\ ~Lasting(m) /\ m.facts # NoFacts
    BY <1>1, <1>4, <2>2, <2>3 DEF Include, Lasting
  <2>7. OnChain("sell")' = m /\ ~Deep("sell")'
    BY <2>4, <2>6 DEF OnChain, Deep, Lasting
  <2>8. PICK t \in Txs : t = "sell"
    BY DEF Txs
  <2>9. files.prepared \in 0..2
    BY DEF TripSound, TripTyped
  <2>10. NoncesInOrder'
    BY <1>2, <1>3, <1>4, <2>6, <2>7, <2>8, <2>9, IncludedInOrder DEF TripSound
  <2> QED
    BY <1>2, <2>4, <2>5, <2>6, <2>10
<1>5. CASE (\A u \in Earlier("sell") : Deep(u)) /\ Deepen(Sell)
  <2>1. /\ tx[Sell].facts # NoFacts /\ tx[Sell].head < tx[Sell].facts.block + MinConfirmationDepth
        /\ BecomesOnChain(Sell, tx[Sell].facts, tx[Sell].head + 1)
    BY <1>5 DEF Deepen
  <2>2. tx[Sell].facts.block \in Nat /\ tx[Sell].head \in Nat
    BY <1>1, <2>1, FactsType DEF ChainRecord
  <2>3. PICK m \in ChainRecord : m = [facts |-> tx[Sell].facts, head |-> tx[Sell].head + 1]
    <3>1. tx[Sell].facts \in TxFacts \cup {NoFacts} /\ tx[Sell].head + 1 \in Nat
      BY <1>1, <2>2 DEF ChainRecord
    <3> QED
      BY <3>1 DEF ChainRecord
  <2>4. tx' = [tx EXCEPT ![Sell] = m] /\ tx'[Sell] = m
    BY <1>1, <2>1, <2>3 DEF BecomesOnChain
  <2>5. past' = [past EXCEPT ![Sell] = @ \cup {m}]
    BY <2>1, <2>4 DEF BecomesOnChain
  <2>6. ~Lasting(tx[Sell]) /\ ~Deep("sell")
    BY <1>1, <2>1, <2>2 DEF Lasting, Deep
  <2>7. OnChain("sell")' = m /\ OnChain("sell")'.facts = OnChain("sell").facts
    BY <1>1, <2>3, <2>4 DEF OnChain
  <2>8. PICK t \in Mined : t = "sell"
    BY <1>1, <2>1 DEF Mined
  <2>9. NoncesInOrder'
    BY <1>2, <1>3, <1>5, <2>6, <2>7, <2>8, DeepenedInOrder DEF TripSound
  <2> QED
    BY <1>2, <2>4, <2>5, <2>6, <2>9
<1> QED
  BY <1>4, <1>5 DEF SellOnChain

LEMMA DeepAreLasting ==
    ASSUME NEW t \in Txs
    PROVE Deep(t) <=> Lasting(OnChain(t))
BY DEF Deep, Lasting

\* A reorganisation takes only what is short of the confirmation depth.
LEMMA Reorganised ==
    ASSUME TripSound, NEW t \in Txs, ReorganiseWallet(t)
    PROVE /\ UNCHANGED <<files, past, walletPast>> /\ NoncesInOrder'
          /\ \A u \in WalletTxs : wallet'[u] = wallet[u] \/ (wallet'[u] = Unmined /\ ~Lasting(wallet[u]))
          /\ wallet' \in [WalletTxs -> WalletRecord]
          /\ tx' = tx \/ (tx' = [tx EXCEPT ![Sell] = Unmined] /\ ~Lasting(tx[Sell]))
<1> DEFINE dropped == {u \in Mined : NonceOf(u) >= NonceOf(t)}
<1>1. /\ t \in Mined /\ ~Deep(t)
      /\ wallet' = [u \in DOMAIN wallet |-> IF u \in dropped THEN Unmined ELSE wallet[u]]
      /\ tx' = [tx EXCEPT ![Sell] = IF "sell" \in dropped THEN Unmined ELSE @]
      /\ UNCHANGED <<files, past, walletPast>>
  BY DEF ReorganiseWallet, fileVars
<1>2. /\ Sell \in Actions /\ tx \in [Actions -> ChainRecord] /\ wallet \in [WalletTxs -> WalletRecord]
      /\ Unmined \in WalletRecord
  BY RoundTripAssumption
     DEF TripSound, TripTyped, ChainSound, ChainTyped, Unmined, WalletRecord
<1>3. /\ OnChain("sell") = tx[Sell] /\ \A u \in WalletTxs : OnChain(u) = wallet[u]
      /\ OnChain("sell")' = tx'[Sell] /\ \A u \in WalletTxs : OnChain(u)' = wallet'[u]
  BY DEF OnChain, WalletTxs
<1>4. \A u \in dropped : ~Deep(u)
  <2> SUFFICES ASSUME NEW u \in Mined, NonceOf(u) >= NonceOf(t), Deep(u)
               PROVE FALSE
    OBVIOUS
  <2>1. u # t
    BY <1>1
  <2>2. NonceOf(u) \in Int /\ NonceOf(t) \in Int /\ NonceOf(u) # NonceOf(t)
    BY <1>1, <2>1, NoncesAre, NoncesApart DEF NonceTable, Mined, TripSound, TripTyped
  <2> QED
    BY <1>1, <2>2 DEF TripSound, NoncesInOrder
<1>5. /\ wallet' \in [WalletTxs -> WalletRecord]
      /\ \A u \in WalletTxs : wallet'[u] = IF u \in dropped THEN Unmined ELSE wallet[u]
      /\ tx'[Sell] = IF "sell" \in dropped THEN Unmined ELSE tx[Sell]
      /\ "sell" \notin dropped => tx' = tx
  <2> HIDE DEF dropped
  <2> QED
    BY <1>1, <1>2
<1>6. \A u \in Txs : OnChain(u)' = IF u \in dropped THEN Unmined ELSE OnChain(u)
  <2> HIDE DEF dropped
  <2> QED
    BY <1>3, <1>5 DEF Txs, WalletTxs
<1>7. NoncesInOrder'
  <2>1. \A u \in Txs : OnChain(u)' =
            IF u \in Mined /\ NonceOf(u) >= NonceOf(t) THEN Unmined ELSE OnChain(u)
    BY <1>6
  <2> QED
    BY <1>1, <2>1, ReorganisedInOrder DEF TripSound
<1>8. \A u \in dropped : u \in Txs /\ ~Lasting(OnChain(u))
  BY <1>4, DeepAreLasting DEF Mined, Txs
<1>9. \A u \in WalletTxs : wallet'[u] = wallet[u] \/ (wallet'[u] = Unmined /\ ~Lasting(wallet[u]))
  <2> HIDE DEF dropped
  <2> QED
    BY <1>3, <1>5, <1>8
<1>10. tx' = tx \/ (tx' = [tx EXCEPT ![Sell] = Unmined] /\ ~Lasting(tx[Sell]))
  <2>1. CASE "sell" \in dropped
    <3>1. ~Lasting(tx[Sell])
      BY <1>3, <1>8, <2>1
    <3> QED
      BY <1>1, <2>1, <3>1
  <2> HIDE DEF dropped
  <2> QED
    BY <1>5, <2>1
<1> QED
  BY <1>1, <1>5, <1>7, <1>9, <1>10

\* All that a step of the chain may do to the transactions.
WalletMoves ==
    /\ wallet' \in [WalletTxs -> WalletRecord] /\ walletPast' \in [WalletTxs -> SUBSET WalletRecord]
    /\ \A t \in WalletTxs : Lasting(wallet[t]) => wallet'[t] = wallet[t]
    /\ WalletLasts' /\ NoncesInOrder'
    /\ \A m \in walletPast'["revoke"] : m.facts # NoFacts => "revoke" \in pool

LEMMA ChainStep ==
    ASSUME TripSound, WalletChain
    PROVE ChainMoves /\ WalletMoves
<1>1. /\ Sell \in Actions /\ tx \in [Actions -> ChainRecord] /\ past \in [Actions -> SUBSET ChainRecord]
      /\ Unmined \in past[Sell] /\ Unmined \in ChainRecord
      /\ wallet \in [WalletTxs -> WalletRecord] /\ walletPast \in [WalletTxs -> SUBSET WalletRecord]
      /\ WalletLasts /\ UNCHANGED obs
      /\ \A m \in walletPast["revoke"] : m.facts # NoFacts => "revoke" \in pool
  BY RoundTripAssumption, ChainLeavesRuns
     DEF TripSound, TripTyped, ChainSound, ChainTyped, WalletLasts, RevocationAsked, Unmined, ChainRecord
<1>2. ASSUME NEW t \in WalletTxs, IncludeWallet(t) \/ DeepenWallet(t)
      PROVE ChainMoves /\ WalletMoves
  <2>1. PICK m \in WalletRecord :
             /\ m.facts # NoFacts /\ wallet' = [wallet EXCEPT ![t] = m]
             /\ walletPast' = [walletPast EXCEPT ![t] = @ \cup {m}]
             /\ t = "revoke" => "revoke" \in pool
             /\ ~Lasting(wallet[t]) /\ UNCHANGED <<tx, past, files>> /\ NoncesInOrder'
    BY <1>2, WalletIncluded
  <2>2. /\ \A u \in WalletTxs : wallet'[u] = IF u = t THEN m ELSE wallet[u]
        /\ \A u \in WalletTxs : walletPast'[u] = IF u = t THEN walletPast[u] \cup {m} ELSE walletPast[u]
        /\ wallet' \in [WalletTxs -> WalletRecord] /\ walletPast' \in [WalletTxs -> SUBSET WalletRecord]
    BY <1>1, <2>1
  <2>3. ASSUME NEW u \in WalletTxs
        PROVE /\ Unmined \in walletPast'[u] /\ wallet'[u] \in walletPast'[u]
              /\ \A n \in walletPast'[u] : Lasting(n) => wallet'[u] = n
    <3>1. CASE u = t
      <4>1. \A n \in walletPast[t] : ~Lasting(n)
        BY <1>1, <2>1, <3>1 DEF WalletLasts
      <4> QED
        BY <1>1, <2>2, <3>1, <4>1 DEF WalletLasts
    <3>2. CASE u # t
      BY <1>1, <2>2, <3>2 DEF WalletLasts
    <3> QED
      BY <3>1, <3>2
  <2>4. WalletLasts'
    BY <1>1, <2>1, <2>3 DEF WalletLasts, Lasting, Unmined
  <2>5. \A n \in walletPast'["revoke"] : n.facts # NoFacts => "revoke" \in pool
    BY <1>1, <2>1, <2>2 DEF WalletTxs
  <2>6. \A u \in WalletTxs : Lasting(wallet[u]) => wallet'[u] = wallet[u]
    BY <2>1, <2>2
  <2> QED
    BY <2>1, <2>2, <2>4, <2>5, <2>6 DEF ChainMoves, WalletMoves
<1>3. ASSUME NEW t \in Txs, ReorganiseWallet(t)
      PROVE ChainMoves /\ WalletMoves
  <2>1. /\ UNCHANGED <<files, past, walletPast>> /\ NoncesInOrder'
        /\ \A u \in WalletTxs : wallet'[u] = wallet[u] \/ (wallet'[u] = Unmined /\ ~Lasting(wallet[u]))
        /\ wallet' \in [WalletTxs -> WalletRecord]
        /\ tx' = tx \/ (tx' = [tx EXCEPT ![Sell] = Unmined] /\ ~Lasting(tx[Sell]))
    BY <1>3, Reorganised
  <2>2. ChainMoves
    <3>1. past' = [past EXCEPT ![Sell] = @ \cup {Unmined}]
      <4>1. past[Sell] \cup {Unmined} = past[Sell]
        BY <1>1
      <4> QED
        BY <1>1, <2>1, <4>1
    <3> QED
      BY <1>1, <2>1, <3>1 DEF ChainMoves
  <2>3. WalletLasts'
    BY <1>1, <2>1 DEF WalletLasts, Lasting, Unmined
  <2> QED
    BY <1>1, <2>1, <2>2, <2>3 DEF WalletMoves
<1>4. CASE SellOnChain
  <2>1. /\ \E m \in ChainRecord :
              /\ ~Lasting(tx[Sell]) /\ tx' = [tx EXCEPT ![Sell] = m]
              /\ past' = [past EXCEPT ![Sell] = @ \cup {m}]
        /\ UNCHANGED <<wallet, walletPast, files>> /\ NoncesInOrder'
    BY <1>4, SellMoved
  <2>2. ChainMoves
    BY <1>1, <2>1 DEF ChainMoves
  <2>3. WalletLasts'
    <3>1. Unmined \in past'[Sell]
      BY <1>1, <2>1
    <3> QED
      BY <1>1, <2>1, <3>1 DEF WalletLasts, Lasting, Unmined
  <2> QED
    BY <1>1, <2>1, <2>2, <2>3 DEF WalletMoves
<1> QED
  BY <1>2, <1>3, <1>4 DEF WalletChain, WalletTxs, Txs

-----------------------------------------------------------------------------
(* A step of a run.  Most move the run only, and leave the files and the      *)
(* transports alone.                                                          *)

\* Where a run may go without a claim of its own.
Legal(r) ==
    /\ r.mode \in {"approval", "revoke"} => r.pc # "SEND"
    /\ r.mode = "revoke" => files.prepared # 0
    /\ r.mode = "revoke" /\ r.pc = "COMPLETE" => sends["revoke"] > 0
    /\ r.mode = "sell" =>
          /\ r.pc # "SUBMIT"
          /\ r.pc \in {"ADMIT", "GUARD"} => ApprovalFinal
          /\ r.pc \notin {"START", "ADMIT", "GUARD"} => files.sellGuard
          /\ r.pc = "RECORD" => IsFinal(Sell)
          /\ r.pc = "COMPLETE" => sends["revoke"] > 0 \/ AllowanceSpent

\* What such a step may do to the ledger.
LedgerMoves ==
    /\ state' \in [Actions -> IntentState \cup {"NONE"}]
    /\ state'[Sell] = "FILLED" => state[Sell] = "FILLED" \/ sends["revoke"] > 0 \/ AllowanceSpent
    /\ ReconTyped' /\ (recon'[Sell] \in {"SETTLED", "REVERTED"} => IsFinal(Sell))
    /\ ReadingKept /\ crossed' \in [Actions -> BOOLEAN]

ChainStands == UNCHANGED <<tx, past, wallet, walletPast, keeps>>

\* The chain and what was concluded of it, when only the ledger moves.
LEMMA StandingChain ==
    ASSUME TripSound, ChainStands, LedgerMoves
    PROVE /\ ChainSound' /\ WalletLasts'
          /\ ApprovalFinal' <=> ApprovalFinal
          /\ IsFinal(Sell)' <=> IsFinal(Sell)
          /\ AllowanceSpent' <=> AllowanceSpent
          /\ Mined' = Mined /\ \A t \in Txs : Deep(t)' <=> Deep(t)
<1>1. ChainSound'
  BY ChainKept DEF TripSound, ChainMoves, ChainStands, LedgerMoves
<1>2. \A t \in Txs : OnChain(t)' = OnChain(t)
  BY DEF ChainStands, OnChain
<1>3. /\ Mined' = Mined /\ \A t \in Txs : (Deep(t)' <=> Deep(t)) /\ (Succeeded(t)' <=> Succeeded(t))
  BY <1>2 DEF Mined, Deep, Succeeded, Txs
<1>4. WalletLasts'
  BY DEF TripSound, ChainStands, WalletLasts, Lasting
<1>5. IsFinal(Sell)' <=> IsFinal(Sell)
  BY DEF ChainStands, IsFinal
<1> QED
  BY <1>1, <1>3, <1>4, <1>5 DEF ApprovalFinal, AllowanceSpent, ChainStands, Txs

LEMMA OrderKept ==
    ASSUME NoncesInOrder, files'.prepared = files.prepared, Mined' = Mined,
           \A t \in Txs : Deep(t)' <=> Deep(t)
    PROVE NoncesInOrder'
<1>1. \A t \in Mined : t \in Txs
  BY DEF Mined, Txs
<1>2. \A t \in Mined : NonceOf(t)' = NonceOf(t)
  <2>1. NonceTable /\ NonceTable'
    BY NoncesAre, PTL
  <2> QED
    BY <1>1, <2>1 DEF NonceTable, Txs
<1> QED
  BY <1>1, <1>2 DEF NoncesInOrder

LEMMA RunMoves ==
    ASSUME TripSound, ChainStands, LedgerMoves, UNCHANGED <<files, sends, pool>>,
           approval' \in {"AUTHORIZED", "ADMITTED", "ATTEMPTED"},
           approval' = "ATTEMPTED" <=> approval = "ATTEMPTED",
           NEW w \in Workers, NEW r \in RunRecord, Legal(r), run' = [run EXCEPT ![w] = r],
           JobsTyped', \A v \in Workers \ {w} : job'[v] = job[v]
    PROVE TripSound'
<1>1. \A v \in Workers : run'[v] = IF v = w THEN r ELSE run[v]
  BY DEF TripSound, TripTyped
<1>2. TripTyped'
  BY DEF TripSound, TripTyped, LedgerMoves, ChainStands
<1>3. ChainSound' /\ WalletLasts' /\ (ApprovalFinal' <=> ApprovalFinal)
      /\ (IsFinal(Sell)' <=> IsFinal(Sell)) /\ (AllowanceSpent' <=> AllowanceSpent)
  BY StandingChain
<1>4. NoncesInOrder'
  BY StandingChain, OrderKept DEF TripSound
<1>5. SentOnce'
  <2>1. HandsApproval' \subseteq HandsApproval /\ HandsRevocation' \subseteq HandsRevocation
    BY <1>1 DEF HandsApproval, HandsRevocation, In, Legal
  <2>2. HandsSell' \subseteq HandsSell
    BY <1>1 DEF HandsSell, In, Legal
  <2> QED
    BY <2>1, <2>2 DEF SentOnce, ClaimedOnce, TripSound
<1>6. RevocationAsked'
  BY <1>1 DEF TripSound, RevocationAsked, Legal, ChainStands, In
<1>7. ApprovalFirst'
  BY <1>1, <1>3 DEF TripSound, ApprovalFirst, Legal
<1>8. SellConcluded'
  BY <1>1, <1>3 DEF TripSound, SellConcluded, LedgerMoves, Legal, In
<1>9. CompletionSpent'
  BY <1>1, <1>3 DEF TripSound, CompletionSpent, LedgerMoves, Legal, In
<1> QED
  BY <1>2, <1>3, <1>4, <1>5, <1>6, <1>7, <1>8, <1>9 DEF TripSound

LEMMA RestingLegal == Resting \in RunRecord /\ Legal(Resting)
BY DEF Resting, RunRecord, Places, Legal

\* A ledger that does not move.
LEMMA LedgerStands ==
    ASSUME TripSound, UNCHANGED <<state, recon, obs, crossed>>
    PROVE LedgerMoves
BY DEF TripSound, TripTyped, ChainSound, ChainTyped, SellConcluded, LedgerMoves, ReadingKept, ReconTyped

\* A step of the chain.
LEMMA StepWalletChain ==
    ASSUME TripSound, WalletChain
    PROVE TripSound'
<1>1. /\ ChainMoves /\ WalletMoves
      /\ UNCHANGED <<run, approval, files, sends, pool, keeps, job, recon, state, obs, crossed>>
  BY ChainStep, ChainLeavesRuns
<1>2. Sell \in Actions
  BY RoundTripAssumption
<1>3. IsFinal(Sell) => tx'[Sell] = tx[Sell] /\ IsFinal(Sell)'
  BY <1>1, <1>2, FinalKept DEF TripSound
<1>4. ApprovalFinal => ApprovalFinal'
  <2>1. OnChain("approve") = wallet["approve"] /\ OnChain("approve")' = wallet'["approve"]
    BY DEF OnChain
  <2> QED
    BY <1>1, <2>1 DEF ApprovalFinal, Deep, Succeeded, Lasting, WalletMoves, WalletTxs
<1>5. AllowanceSpent => AllowanceSpent'
  BY <1>1, <1>3 DEF AllowanceSpent, Succeeded, OnChain
<1>6. TripTyped'
  BY <1>1 DEF TripSound, TripTyped, WalletMoves, JobsTyped, ReconTyped
<1>7. ChainSound'
  <2>1. ReadingKept /\ crossed' \in [Actions -> BOOLEAN]
    BY <1>1 DEF ReadingKept, TripSound, ChainSound, ChainTyped
  <2> QED
    BY <1>1, <2>1, ChainKept DEF TripSound
<1>8. SentOnce'
  BY <1>1 DEF TripSound, SentOnce, ClaimedOnce, HandsApproval, HandsSell, HandsRevocation, In
<1>9. RevocationAsked'
  BY <1>1 DEF TripSound, RevocationAsked, WalletMoves, In
<1>10. ApprovalFirst' /\ SellConcluded' /\ CompletionSpent'
  BY <1>1, <1>3, <1>4, <1>5 DEF TripSound, ApprovalFirst, SellConcluded, CompletionSpent, In
<1> QED
  BY <1>1, <1>6, <1>7, <1>8, <1>9, <1>10 DEF TripSound, WalletMoves

\* The steps that claim a transaction, hand it over, or give a revocation its nonce.
LEMMA ClaimTyped ==
    ASSUME TripTyped, NEW w \in Workers, NEW pc \in Places, run' = [run EXCEPT ![w].pc = pc]
    PROVE /\ run' \in [Workers -> RunRecord]
          /\ \A v \in Workers : run'[v].mode = run[v].mode
          /\ \A v \in Workers : run'[v].pc = IF v = w THEN pc ELSE run[v].pc
BY DEF TripTyped, RunRecord

LEMMA StepApprovalGuard ==
    ASSUME TripSound, NEW w \in Workers, ApprovalGuard(w)
    PROVE TripSound'
<1>1. /\ In(w, "approval", "GUARD") /\ approval # "ATTEMPTED" /\ approval' = "ATTEMPTED"
      /\ Go(w, "SEND") /\ UNCHANGED <<files, sends, pool, job>>
      /\ ChainStands /\ UNCHANGED <<state, recon, obs, crossed>>
  BY DEF ApprovalGuard, Quiet, execVars, vars, ledgerVars, executionVars, chainVars, walletVars,
         ChainStands
<1>2. /\ run' \in [Workers -> RunRecord]
      /\ \A v \in Workers : run'[v].mode = run[v].mode
      /\ \A v \in Workers : run'[v].pc = IF v = w THEN "SEND" ELSE run[v].pc
  BY <1>1, ClaimTyped DEF Go, Places, TripSound
<1>3. LedgerMoves
  BY <1>1, LedgerStands
<1>4. ChainSound' /\ WalletLasts' /\ (ApprovalFinal' <=> ApprovalFinal)
      /\ (IsFinal(Sell)' <=> IsFinal(Sell)) /\ (AllowanceSpent' <=> AllowanceSpent)
  BY <1>1, <1>3, StandingChain
<1>5. NoncesInOrder'
  BY <1>1, <1>3, StandingChain, OrderKept DEF TripSound
<1>6. TripTyped'
  BY <1>1, <1>2 DEF TripSound, TripTyped, ChainStands, JobsTyped, ReconTyped
<1>7. SentOnce'
  <2>1. HandsApproval = {} /\ sends["approve"] = 0
    BY <1>1 DEF TripSound, SentOnce, ClaimedOnce
  <2>2. HandsApproval' = {w}
    BY <1>1, <1>2, <2>1 DEF HandsApproval, In
  <2>3. HandsSell' = HandsSell /\ HandsRevocation' = HandsRevocation
    BY <1>1, <1>2 DEF HandsSell, HandsRevocation, In
  <2> QED
    BY <1>1, <2>1, <2>2, <2>3 DEF TripSound, SentOnce, ClaimedOnce
<1>8. RevocationAsked' /\ ApprovalFirst' /\ SellConcluded' /\ CompletionSpent'
  BY <1>1, <1>2, <1>4
     DEF TripSound, RevocationAsked, ApprovalFirst, SellConcluded, CompletionSpent, ChainStands, In
<1> QED
  BY <1>4, <1>5, <1>6, <1>7, <1>8 DEF TripSound

LEMMA StepSellGuard ==
    ASSUME TripSound, NEW w \in Workers, SellGuard(w)
    PROVE TripSound'
<1>1. /\ In(w, "sell", "GUARD") /\ ~files.sellGuard /\ files' = [files EXCEPT !.sellGuard = TRUE]
      /\ Go(w, "SUBMIT") /\ UNCHANGED <<approval, sends, pool, job>>
      /\ ChainStands /\ UNCHANGED <<state, recon, obs, crossed>>
  BY DEF SellGuard, Quiet, execVars, vars, ledgerVars, executionVars, chainVars, walletVars,
         ChainStands
<1>2. /\ run' \in [Workers -> RunRecord]
      /\ \A v \in Workers : run'[v].mode = run[v].mode
      /\ \A v \in Workers : run'[v].pc = IF v = w THEN "SUBMIT" ELSE run[v].pc
  BY <1>1, ClaimTyped DEF Go, Places, TripSound
<1>3. LedgerMoves
  BY <1>1, LedgerStands
<1>4. ChainSound' /\ WalletLasts' /\ (ApprovalFinal' <=> ApprovalFinal)
      /\ (IsFinal(Sell)' <=> IsFinal(Sell)) /\ (AllowanceSpent' <=> AllowanceSpent)
      /\ Mined' = Mined /\ \A t \in Txs : Deep(t)' <=> Deep(t)
  BY <1>1, <1>3, StandingChain
<1>5. /\ files' \in [sellGuard: BOOLEAN, prepared: 0..2, revokeGuard: BOOLEAN]
      /\ files'.prepared = files.prepared /\ files'.sellGuard /\ files'.revokeGuard = files.revokeGuard
  BY <1>1 DEF TripSound, TripTyped
<1>6. NoncesInOrder'
  BY <1>4, <1>5, OrderKept DEF TripSound
<1>7. TripTyped'
  BY <1>1, <1>2, <1>5 DEF TripSound, TripTyped, ChainStands, JobsTyped, ReconTyped
<1>8. SentOnce'
  <2>1. HandsSell = {} /\ sends["sell"] = 0
    BY <1>1 DEF TripSound, SentOnce, ClaimedOnce
  <2>2. HandsSell' \subseteq {w}
    BY <1>1, <1>2, <2>1 DEF HandsSell, In
  <2>3. HandsApproval' = HandsApproval /\ HandsRevocation' = HandsRevocation
    BY <1>1, <1>2 DEF HandsApproval, HandsRevocation, In
  <2> QED
    BY <1>1, <1>5, <2>1, <2>2, <2>3 DEF TripSound, SentOnce, ClaimedOnce
<1>9. ApprovalFirst'
  BY <1>1, <1>2, <1>4, <1>5 DEF TripSound, ApprovalFirst, In
<1>10. RevocationAsked' /\ SellConcluded' /\ CompletionSpent'
  BY <1>1, <1>2, <1>4, <1>5
     DEF TripSound, RevocationAsked, SellConcluded, CompletionSpent, ChainStands, In
<1> QED
  BY <1>4, <1>6, <1>7, <1>8, <1>9, <1>10 DEF TripSound

LEMMA StepRevokeGuard ==
    ASSUME TripSound, NEW w \in Workers, RevokeGuard(w)
    PROVE TripSound'
<1>1. /\ In(w, "revoke", "GUARD") /\ ~files.revokeGuard /\ files' = [files EXCEPT !.revokeGuard = TRUE]
      /\ Go(w, "SEND") /\ UNCHANGED <<approval, sends, pool, job>>
      /\ ChainStands /\ UNCHANGED <<state, recon, obs, crossed>>
  BY DEF RevokeGuard, Quiet, execVars, vars, ledgerVars, executionVars, chainVars, walletVars,
         ChainStands
<1>2. /\ run' \in [Workers -> RunRecord]
      /\ \A v \in Workers : run'[v].mode = run[v].mode
      /\ \A v \in Workers : run'[v].pc = IF v = w THEN "SEND" ELSE run[v].pc
  BY <1>1, ClaimTyped DEF Go, Places, TripSound
<1>3. LedgerMoves
  BY <1>1, LedgerStands
<1>4. ChainSound' /\ WalletLasts' /\ (ApprovalFinal' <=> ApprovalFinal)
      /\ (IsFinal(Sell)' <=> IsFinal(Sell)) /\ (AllowanceSpent' <=> AllowanceSpent)
      /\ Mined' = Mined /\ \A t \in Txs : Deep(t)' <=> Deep(t)
  BY <1>1, <1>3, StandingChain
<1>5. /\ files' \in [sellGuard: BOOLEAN, prepared: 0..2, revokeGuard: BOOLEAN]
      /\ files'.prepared = files.prepared /\ files'.sellGuard = files.sellGuard /\ files'.revokeGuard
  BY <1>1 DEF TripSound, TripTyped
<1>6. NoncesInOrder'
  BY <1>4, <1>5, OrderKept DEF TripSound
<1>7. TripTyped'
  BY <1>1, <1>2, <1>5 DEF TripSound, TripTyped, ChainStands, JobsTyped, ReconTyped
<1>8. SentOnce'
  <2>1. HandsRevocation = {} /\ sends["revoke"] = 0
    BY <1>1 DEF TripSound, SentOnce, ClaimedOnce
  <2>2. HandsRevocation' = {w}
    BY <1>1, <1>2, <2>1 DEF HandsRevocation, In
  <2>3. HandsApproval' = HandsApproval /\ HandsSell' = HandsSell
    BY <1>1, <1>2 DEF HandsApproval, HandsSell, In
  <2> QED
    BY <1>1, <1>5, <2>1, <2>2, <2>3 DEF TripSound, SentOnce, ClaimedOnce
<1>9. RevocationAsked' /\ ApprovalFirst' /\ SellConcluded' /\ CompletionSpent'
  BY <1>1, <1>2, <1>4, <1>5
     DEF TripSound, RevocationAsked, ApprovalFirst, SellConcluded, CompletionSpent, ChainStands, In
<1> QED
  BY <1>4, <1>6, <1>7, <1>8, <1>9 DEF TripSound

\* A transaction handed over by the one run that claimed it.
LEMMA StepHandOver ==
    ASSUME TripSound, NEW w \in Workers, ApprovalSend(w) \/ RevokeSend(w)
    PROVE TripSound'
<1>1. PICK t \in WalletTxs, r \in RunRecord :
         /\ t = "approve" => In(w, "approval", "SEND") /\ r = Resting
         /\ t = "revoke" => In(w, "revoke", "SEND") /\ r.mode = "revoke" /\ r.pc = "OBSERVE"
         /\ run' = [run EXCEPT ![w] = r]
         /\ HandOver(t)
  <2>1. CASE ApprovalSend(w)
    BY <2>1, RestingLegal DEF ApprovalSend, End, WalletTxs
  <2>2. CASE RevokeSend(w)
    <3>1. PICK r : r = [run[w] EXCEPT !.pc = "OBSERVE"]
      OBVIOUS
    <3>2. r \in RunRecord /\ run' = [run EXCEPT ![w] = r] /\ r.mode = run[w].mode /\ r.pc = "OBSERVE"
      BY <2>2, <3>1 DEF RevokeSend, Go, TripSound, TripTyped, RunRecord, Places
    <3> QED
      BY <2>2, <3>2 DEF RevokeSend, In, WalletTxs
  <2> QED
    BY <2>1, <2>2
<1>2. /\ sends' = [sends EXCEPT ![t] = @ + 1] /\ pool \subseteq pool' /\ pool' \subseteq pool \cup {t}
      /\ UNCHANGED <<approval, files, job>> /\ ChainStands /\ UNCHANGED <<state, recon, obs, crossed>>
  BY <1>1 DEF HandOver, execVars, vars, ledgerVars, executionVars, chainVars, fileVars, ChainStands
<1>3. \A v \in Workers : run'[v] = IF v = w THEN r ELSE run[v]
  BY <1>1 DEF TripSound, TripTyped
<1>4. /\ sends' \in [{"approve", "sell", "revoke"} -> Nat]
      /\ sends'[t] = sends[t] + 1 /\ sends[t] \in Nat
      /\ \A u \in Txs \ {t} : sends'[u] = sends[u]
  BY <1>2 DEF TripSound, TripTyped, Txs, WalletTxs
<1>5. LedgerMoves
  BY <1>2, LedgerStands
<1>6. ChainSound' /\ WalletLasts' /\ (ApprovalFinal' <=> ApprovalFinal)
      /\ (IsFinal(Sell)' <=> IsFinal(Sell)) /\ (AllowanceSpent' <=> AllowanceSpent)
  BY <1>2, <1>5, StandingChain
<1>7. NoncesInOrder'
  BY <1>2, <1>5, StandingChain, OrderKept DEF TripSound
<1>8. TripTyped'
  BY <1>1, <1>2, <1>4 DEF TripSound, TripTyped, ChainStands, JobsTyped, ReconTyped
<1>9. SentOnce'
  <2>1. HandsSell' = HandsSell
    BY <1>1, <1>2, <1>3 DEF HandsSell, In, Resting, WalletTxs
  <2>2. CASE t = "approve"
    <3>1. w \in HandsApproval
      BY <1>1, <2>2 DEF HandsApproval
    <3>2. HandsApproval = {w} /\ sends["approve"] = 0 /\ approval = "ATTEMPTED"
      BY <3>1 DEF TripSound, SentOnce, ClaimedOnce
    <3>3. HandsApproval' = {} /\ HandsRevocation' = HandsRevocation
      BY <1>1, <1>3, <2>2, <3>2 DEF HandsApproval, HandsRevocation, In, Resting
    <3> QED
      BY <1>2, <1>4, <2>1, <2>2, <3>2, <3>3 DEF TripSound, SentOnce, ClaimedOnce, Txs
  <2>3. CASE t = "revoke"
    <3>1. w \in HandsRevocation
      BY <1>1, <2>3 DEF HandsRevocation
    <3>2. HandsRevocation = {w} /\ sends["revoke"] = 0 /\ files.revokeGuard
      BY <3>1 DEF TripSound, SentOnce, ClaimedOnce
    <3>3. HandsRevocation' = {} /\ HandsApproval' = HandsApproval
      BY <1>1, <1>3, <2>3, <3>2 DEF HandsApproval, HandsRevocation, In
    <3> QED
      BY <1>2, <1>4, <2>1, <2>3, <3>2, <3>3 DEF TripSound, SentOnce, ClaimedOnce, Txs
  <2> QED
    BY <2>2, <2>3 DEF WalletTxs
<1>10. sends["revoke"] > 0 => sends'["revoke"] > 0
  BY <1>4 DEF TripSound, TripTyped, Txs
<1>11. RevocationAsked'
  <2>1. "revoke" \in pool' => files'.prepared # 0 /\ sends'["revoke"] > 0
    <3>1. CASE t = "revoke"
      BY <1>1, <1>2, <1>4, <3>1 DEF TripSound, RevocationAsked, In
    <3>2. CASE t # "revoke"
      BY <1>2, <1>10, <3>2 DEF TripSound, RevocationAsked
    <3> QED
      BY <3>1, <3>2
  <2>2. \A v \in Workers : run'[v].mode = "revoke" => files'.prepared # 0
    BY <1>1, <1>2, <1>3 DEF TripSound, RevocationAsked, Resting, In, WalletTxs
  <2>3. \A m \in walletPast'["revoke"] : m.facts # NoFacts => "revoke" \in pool'
    BY <1>2 DEF TripSound, RevocationAsked, ChainStands
  <2>4. \A v \in Workers : In(v, "revoke", "COMPLETE")' => sends'["revoke"] > 0
    BY <1>1, <1>3, <1>10 DEF TripSound, RevocationAsked, In, Resting, WalletTxs
  <2> QED
    BY <2>1, <2>2, <2>3, <2>4 DEF RevocationAsked, In
<1>12. ApprovalFirst' /\ SellConcluded'
  BY <1>1, <1>2, <1>3, <1>6 DEF TripSound, ApprovalFirst, SellConcluded, Resting, In, WalletTxs
<1>13. CompletionSpent'
  BY <1>1, <1>2, <1>3, <1>6, <1>10 DEF TripSound, CompletionSpent, Resting, In, WalletTxs
<1> QED
  BY <1>6, <1>7, <1>8, <1>9, <1>11, <1>12, <1>13 DEF TripSound

\* submit_exact_signed_bytes, in the one run that wrote the guard of the sell.
SubmitSell(w) == Begin(w, "submit", Sell, FALSE) \/ SubmitGate(w) \/ SubmitPrior(w)

LEMMA StepSubmitSell ==
    ASSUME TripSound, NEW w \in Workers, In(w, "sell", "SUBMIT"),
           \/ SubmitSell(w) /\ UNCHANGED sends
           \/ SubmitTransport(w) /\ sends' = [sends EXCEPT !["sell"] = @ + 1],
           UNCHANGED <<run, fileVars, pool, wallet, walletPast, keeps>>
    PROVE TripSound'
<1>1. UNCHANGED <<approval, files>> /\ ChainStands /\ UNCHANGED <<state, recon, obs>>
  BY DEF SubmitSell, Begin, SubmitGate, SubmitPrior, SubmitTransport, fileVars, ChainStands,
         vars, ledgerVars, executionVars, chainVars
<1>2. job[w].pc # "ANSWERED"
  BY DEF SubmitSell, Begin, SubmitGate, SubmitPrior, SubmitTransport, At, Idle
<1>3. /\ JobsTyped' /\ \A v \in Workers \ {w} : job'[v] = job[v]
      /\ SubmitTransport(w) => job'[w].pc = "ANSWERED"
  <2>1. JobsTyped /\ Sell \in Actions /\ "submit" \in Calls
    BY RoundTripAssumption DEF TripSound, TripTyped, Calls
  <2>2. CASE Begin(w, "submit", Sell, FALSE)
    <3>1. PICK again \in BOOLEAN : again = FALSE
      OBVIOUS
    <3>2. Begin(w, "submit", Sell, again)
      BY <2>2, <3>1
    <3>3. JobsTyped'
      BY <2>1, <3>2, BeginJobs
    <3> QED
      BY <2>1, <2>2, <3>3 DEF Begin, JobsTyped, SubmitTransport, At, Idle
  <2>3. CASE SubmitGate(w) \/ SubmitPrior(w) \/ SubmitTransport(w)
    <3>1. PICK pc \in PlaceOf, ack \in {"none", "ACCEPTED", "UNKNOWN"} :
             Advance(w, pc, ack) /\ (SubmitTransport(w) => pc = "ANSWERED")
      BY <2>3 DEF SubmitGate, SubmitPrior, SubmitTransport, PlaceOf, At
    <3>2. job[w] # Idle
      BY <2>3 DEF SubmitGate, SubmitPrior, SubmitTransport, At, Idle
    <3>3. JobsTyped'
      BY <2>1, <3>1, <3>2, AdvanceJobs
    <3>4. /\ \A v \in Workers \ {w} : job'[v] = job[v]
          /\ job'[w].pc = pc
      BY <2>1, <3>1, <3>2 DEF Advance, JobsTyped
    <3> QED
      BY <3>1, <3>3, <3>4
  <2> QED
    BY <2>2, <2>3 DEF SubmitSell
<1>4. crossed' \in [Actions -> BOOLEAN]
  <2>1. CASE SubmitSell(w)
    BY <2>1 DEF SubmitSell, Begin, SubmitGate, SubmitPrior, chainVars, TripSound, ChainSound, ChainTyped
  <2>2. CASE SubmitTransport(w)
    BY <2>2 DEF SubmitTransport, TripSound, ChainSound, ChainTyped
  <2> QED
    BY <2>1, <2>2
<1>5. LedgerMoves
  BY <1>1, <1>4 DEF TripSound, TripTyped, SellConcluded, LedgerMoves, ReadingKept, ReconTyped
<1>6. ChainSound' /\ WalletLasts' /\ (ApprovalFinal' <=> ApprovalFinal)
      /\ (IsFinal(Sell)' <=> IsFinal(Sell)) /\ (AllowanceSpent' <=> AllowanceSpent)
  BY <1>1, <1>5, StandingChain
<1>7. NoncesInOrder'
  BY <1>1, <1>5, StandingChain, OrderKept DEF TripSound
<1>8. /\ HandsSell = {w} /\ sends["sell"] = 0 /\ files.sellGuard
  <2>1. w \in HandsSell
    BY <1>2 DEF HandsSell
  <2> QED
    BY <2>1 DEF TripSound, SentOnce, ClaimedOnce
<1>9. /\ sends' \in [{"approve", "sell", "revoke"} -> Nat]
      /\ sends'["approve"] = sends["approve"] /\ sends'["revoke"] = sends["revoke"]
      /\ sends'["sell"] \in {0, 1}
      /\ sends'["sell"] = 1 => SubmitTransport(w)
  BY <1>8 DEF TripSound, TripTyped
<1>10. TripTyped'
  BY <1>1, <1>3, <1>9 DEF TripSound, TripTyped, ChainStands, ReconTyped
<1>11. SentOnce'
  <2>1. HandsSell' \subseteq {w} /\ (sends'["sell"] = 1 => HandsSell' = {})
    <3>1. \A v \in Workers \ {w} : v \notin HandsSell'
      BY <1>3, <1>8 DEF HandsSell, In
    <3>2. sends'["sell"] = 1 => w \notin HandsSell'
      BY <1>3, <1>9 DEF HandsSell
    <3> QED
      BY <3>1, <3>2 DEF HandsSell
  <2>2. HandsApproval' = HandsApproval /\ HandsRevocation' = HandsRevocation
    BY DEF HandsApproval, HandsRevocation, In
  <2> QED
    BY <1>1, <1>8, <1>9, <2>1, <2>2 DEF TripSound, SentOnce, ClaimedOnce
<1>12. RevocationAsked' /\ ApprovalFirst' /\ SellConcluded' /\ CompletionSpent'
  BY <1>1, <1>6, <1>9
     DEF TripSound, RevocationAsked, ApprovalFirst, SellConcluded, CompletionSpent, ChainStands, In
<1> QED
  BY <1>6, <1>7, <1>10, <1>11, <1>12 DEF TripSound

\* revoke-prepare: nothing of a revocation can be on the chain before it.
LEMMA StepRevokePrepare ==
    ASSUME TripSound, NEW w \in Workers, RevokePrepare(w)
    PROVE TripSound'
<1>1. /\ RevokeNonce \in {1, 2} /\ files.prepared = 0
      /\ files' = [files EXCEPT !.prepared = RevokeNonce]
      /\ End(w) /\ UNCHANGED <<approval, sends, pool, job>>
      /\ ChainStands /\ UNCHANGED <<state, recon, obs, crossed>>
  BY DEF RevokePrepare, RevokeNonce, SellNonce, Quiet, execVars, vars, ledgerVars, executionVars,
         chainVars, walletVars, ChainStands
<1>2. \A v \in Workers : run'[v] = IF v = w THEN Resting ELSE run[v]
  BY <1>1 DEF End, TripSound, TripTyped
<1>3. /\ files' \in [sellGuard: BOOLEAN, prepared: 0..2, revokeGuard: BOOLEAN]
      /\ files'.prepared = RevokeNonce /\ files'.sellGuard = files.sellGuard
      /\ files'.revokeGuard = files.revokeGuard
  BY <1>1 DEF TripSound, TripTyped
<1>4. LedgerMoves
  BY <1>1, LedgerStands
<1>5. ChainSound' /\ WalletLasts' /\ (ApprovalFinal' <=> ApprovalFinal)
      /\ (IsFinal(Sell)' <=> IsFinal(Sell)) /\ (AllowanceSpent' <=> AllowanceSpent)
      /\ Mined' = Mined /\ \A t \in Txs : Deep(t)' <=> Deep(t)
  BY <1>1, <1>4, StandingChain
<1>6. "revoke" \notin Mined
  <2>1. "revoke" \notin pool /\ wallet["revoke"] \in walletPast["revoke"]
    BY <1>1 DEF TripSound, RevocationAsked, WalletLasts, WalletTxs
  <2> QED
    BY <2>1 DEF TripSound, RevocationAsked, Mined, OnChain
<1>7. NoncesInOrder'
  <2>1. NonceTable /\ NonceTable'
    BY NoncesAre, PTL
  <2>2. \A t \in Mined : t \in Txs /\ NonceOf(t)' = NonceOf(t)
    BY <1>6, <2>1 DEF NonceTable, Mined, Txs
  <2> QED
    BY <1>5, <1>6, <2>2 DEF TripSound, NoncesInOrder
<1>8. TripTyped'
  BY <1>1, <1>3, RestingLegal DEF End, TripSound, TripTyped, ChainStands, JobsTyped, ReconTyped
<1>9. SentOnce'
  <2>1. /\ HandsApproval' \subseteq HandsApproval /\ HandsSell' \subseteq HandsSell
        /\ HandsRevocation' \subseteq HandsRevocation
    BY <1>1, <1>2 DEF HandsApproval, HandsSell, HandsRevocation, In, Resting
  <2> QED
    BY <1>1, <1>3, <2>1 DEF TripSound, SentOnce, ClaimedOnce
<1>10. RevocationAsked'
  BY <1>1, <1>2, <1>3 DEF TripSound, RevocationAsked, ChainStands, In, Resting
<1>11. SellConcluded'
  <2>1. RevokeNonce = 2 => SellEnded
    BY DEF RevokeNonce, SellNonce
  <2>2. SellEnded => recon[Sell] \in {"SETTLED", "REVERTED"}
    BY DEF SellEnded
  <2> QED
    BY <1>1, <1>2, <1>3, <1>5, <2>1, <2>2 DEF TripSound, SellConcluded, SellNonce, Resting, In
<1>12. ApprovalFirst' /\ CompletionSpent'
  BY <1>1, <1>2, <1>3, <1>5 DEF TripSound, ApprovalFirst, CompletionSpent, In, Resting
<1> QED
  BY <1>5, <1>7, <1>8, <1>9, <1>10, <1>11, <1>12 DEF TripSound

-----------------------------------------------------------------------------
(* The steps that claim nothing. *)

\* Nothing but the run moves, and the ledger as it may.
RunOnly(w) ==
    /\ ChainStands /\ LedgerMoves /\ UNCHANGED <<files, sends, pool>>
    /\ approval' \in {"AUTHORIZED", "ADMITTED", "ATTEMPTED"}
    /\ approval' = "ATTEMPTED" <=> approval = "ATTEMPTED"
    /\ JobsTyped' /\ \A v \in Workers \ {w} : job'[v] = job[v]

LEMMA GoMoves ==
    ASSUME TripSound, NEW w \in Workers, RunOnly(w), NEW pc \in Places, Go(w, pc),
           \A r \in RunRecord : r.mode = run[w].mode /\ r.pc = pc => Legal(r)
    PROVE TripSound'
<1>1. PICK r : r = [run[w] EXCEPT !.pc = pc]
  OBVIOUS
<1>2. run[w] \in RunRecord
  BY DEF TripSound, TripTyped
<1>3. r \in RunRecord /\ r.mode = run[w].mode /\ r.pc = pc /\ run' = [run EXCEPT ![w] = r]
  BY <1>1, <1>2 DEF Go, RunRecord
<1>4. Legal(r)
  BY <1>3
<1> QED
  BY <1>3, <1>4, RunMoves DEF RunOnly

LEMMA EndMoves ==
    ASSUME TripSound, NEW w \in Workers, RunOnly(w), End(w)
    PROVE TripSound'
<1>1. PICK r \in RunRecord : r = Resting /\ Legal(r)
  BY RestingLegal
<1>2. run' = [run EXCEPT ![w] = r]
  BY <1>1 DEF End
<1> QED
  BY <1>1, <1>2, RunMoves DEF RunOnly

\* A step that writes nothing at all.
LEMMA QuietMoves ==
    ASSUME TripSound, NEW w \in Workers, Quiet, UNCHANGED fileVars
    PROVE RunOnly(w)
<1>1. ChainStands /\ UNCHANGED <<state, recon, obs, crossed, job, approval, files, sends, pool>>
  BY DEF Quiet, fileVars, execVars, vars, ledgerVars, executionVars, chainVars, walletVars,
         ChainStands
<1>2. LedgerMoves
  BY <1>1, LedgerStands
<1> QED
  BY <1>1, <1>2 DEF RunOnly, TripSound, TripTyped, JobsTyped

LEMMA StepStart ==
    ASSUME TripSound, NEW w \in Workers, NEW mode \in Modes, Start(w, mode)
    PROVE TripSound'
<1>1. Quiet /\ UNCHANGED fileVars
  BY DEF Start, Quiet
<1>2. PICK r : r = [mode |-> mode, pc |-> "START", left |-> Providers]
  OBVIOUS
<1>3. r \in RunRecord /\ Legal(r) /\ run' = [run EXCEPT ![w] = r]
  BY <1>2 DEF Start, RunRecord, Places, Legal
<1> QED
  BY <1>1, <1>3, QuietMoves, RunMoves DEF RunOnly

LEMMA StepStop ==
    ASSUME TripSound, NEW w \in Workers, Stop(w)
    PROVE TripSound'
<1>1. /\ ChainStands /\ UNCHANGED <<state, recon, obs, crossed, approval, files, sends, pool>>
      /\ End(w) /\ Finish(w)
  BY DEF Stop, fileVars, vars, ledgerVars, executionVars, chainVars, walletVars, ChainStands, Finish
<1>2. JobsTyped' /\ \A v \in Workers \ {w} : job'[v] = job[v]
  BY <1>1, FinishJobs DEF Finish, TripSound, TripTyped, JobsTyped
<1>3. LedgerMoves
  BY <1>1, LedgerStands
<1>4. RunOnly(w)
  BY <1>1, <1>2, <1>3 DEF RunOnly, TripSound, TripTyped
<1> QED
  BY <1>1, <1>4, EndMoves

LEMMA StepApprovalBegin ==
    ASSUME TripSound, NEW w \in Workers, ApprovalBegin(w)
    PROVE TripSound'
<1>1. run[w].mode = "approval" /\ Go(w, "ADMIT") /\ RunOnly(w)
  BY QuietMoves DEF ApprovalBegin, In
<1>2. \A r \in RunRecord : r.mode = run[w].mode /\ r.pc = "ADMIT" => Legal(r)
  BY <1>1 DEF Legal
<1> QED
  BY <1>1, <1>2, GoMoves DEF Places

LEMMA StepApprovalAdmit ==
    ASSUME TripSound, NEW w \in Workers, ApprovalAdmit(w)
    PROVE TripSound'
<1>1. /\ ChainStands /\ UNCHANGED <<state, recon, obs, crossed, job, files, sends, pool>>
      /\ run[w].mode = "approval" /\ Go(w, "GUARD")
      /\ approval' = IF approval = "AUTHORIZED" THEN "ADMITTED" ELSE approval
  BY DEF ApprovalAdmit, In, Quiet, execVars, vars, ledgerVars, executionVars, chainVars,
         walletVars, ChainStands
<1>2. LedgerMoves
  BY <1>1, LedgerStands
<1>3. RunOnly(w)
  BY <1>1, <1>2 DEF RunOnly, TripSound, TripTyped, JobsTyped
<1>4. \A r \in RunRecord : r.mode = run[w].mode /\ r.pc = "GUARD" => Legal(r)
  BY <1>1 DEF Legal
<1> QED
  BY <1>1, <1>3, <1>4, GoMoves DEF Places

\* Without a guard on disk the approval is read, and found final and successful.
LEMMA StepSellBegin ==
    ASSUME TripSound, NEW w \in Workers, SellBegin(w)
    PROVE TripSound'
<1>1. run[w].mode = "sell" /\ RunOnly(w)
  BY QuietMoves DEF SellBegin, In
<1>2. CASE files.sellGuard
  <2>1. Go(w, "OBSERVE")
    BY <1>2 DEF SellBegin
  <2>2. \A r \in RunRecord : r.mode = run[w].mode /\ r.pc = "OBSERVE" => Legal(r)
    BY <1>1, <1>2 DEF Legal
  <2> QED
    BY <1>1, <2>1, <2>2, GoMoves DEF Places
<1>3. CASE ~files.sellGuard
  <2>1. Go(w, "ADMIT") /\ \E V : Confirms("approve", "SETTLED", V)
    BY <1>3 DEF SellBegin
  <2>2. PICK t, settlement, V : t = "approve" /\ t \in WalletTxs /\ Confirms(t, settlement, V)
    BY <2>1 DEF WalletTxs
  <2>3. Deep(t) /\ Succeeded(t)
    BY <2>2, ConfirmedIsFinal DEF TripSound
  <2>4. ApprovalFinal
    BY <2>2, <2>3 DEF ApprovalFinal
  <2>5. \A r \in RunRecord : r.mode = run[w].mode /\ r.pc = "ADMIT" => Legal(r)
    BY <1>1, <2>4 DEF Legal
  <2> QED
    BY <1>1, <2>1, <2>5, GoMoves DEF Places
<1> QED
  BY <1>2, <1>3

-----------------------------------------------------------------------------
(* The sell's own calls of the runtime. *)

\* A call of the runtime that a run begins.
LEMMA BeginCall ==
    ASSUME TripSound, NEW w \in Workers, NEW call \in Calls, Begin(w, call, Sell, FALSE),
           UNCHANGED <<fileVars, walletVars, keeps>>
    PROVE RunOnly(w)
<1>1. /\ ChainStands /\ UNCHANGED <<state, recon, obs, crossed, approval, files, sends, pool>>
  BY DEF Begin, fileVars, vars, ledgerVars, executionVars, chainVars, walletVars, ChainStands
<1>2. LedgerMoves
  BY <1>1, LedgerStands
<1>3. PICK again \in BOOLEAN : again = FALSE
  OBVIOUS
<1>4. Begin(w, call, Sell, again)
  BY <1>3
<1>5. JobsTyped'
  BY <1>4, BeginJobs, RoundTripAssumption DEF TripSound, TripTyped
<1>6. \A v \in Workers \ {w} : job'[v] = job[v]
  BY DEF Begin, TripSound, TripTyped, JobsTyped
<1> QED
  BY <1>1, <1>2, <1>5, <1>6 DEF RunOnly, TripSound, TripTyped

\* admit_exact_signed_bytes, between the checks of the run and its guard.
LEMMA StepSellAdmit ==
    ASSUME TripSound, NEW w \in Workers, SellCall(w, "ADMIT", "admit", "GUARD")
    PROVE TripSound'
<1>1. /\ run[w].mode = "sell" /\ run[w].pc = "ADMIT" /\ ApprovalFinal
      /\ UNCHANGED <<fileVars, walletVars, keeps>>
  BY DEF SellCall, In, TripSound, ApprovalFirst
<1>2. CASE Begin(w, "admit", Sell, FALSE) /\ UNCHANGED run
  <2>1. RunOnly(w)
    BY <1>1, <1>2, BeginCall DEF Calls
  <2>2. Go(w, "ADMIT")
    BY <1>1, <1>2 DEF Go, TripSound, TripTyped, RunRecord
  <2>3. \A r \in RunRecord : r.mode = run[w].mode /\ r.pc = "ADMIT" => Legal(r)
    BY <1>1 DEF Legal
  <2> QED
    BY <2>1, <2>2, <2>3, GoMoves DEF Places
<1>3. CASE job[w].call = "admit" /\ AdmitExactSignedBytes(w) /\ Go(w, "GUARD")
  <2>1. /\ ChainStands /\ UNCHANGED <<recon, obs, crossed, approval, files, sends, pool>>
        /\ state' = [state EXCEPT ![job[w].action] = "SIGNED"] /\ Finish(w)
    BY <1>1, <1>3 DEF AdmitExactSignedBytes, MoveIntent, LedgerRest, RuntimeRest, executionVars,
                      fileVars, walletVars, chainVars, ChainStands
  <2>2. /\ state' \in [Actions -> IntentState \cup {"NONE"}]
        /\ state'[Sell] = "FILLED" => state[Sell] = "FILLED"
    BY <2>1, RoundTripAssumption DEF TripSound, TripTyped, IntentState
  <2>3. LedgerMoves
    BY <2>1, <2>2 DEF TripSound, TripTyped, ChainSound, ChainTyped, SellConcluded, LedgerMoves,
                      ReadingKept, ReconTyped
  <2>4. RunOnly(w)
    BY <2>1, <2>3, FinishJobs DEF Finish, RunOnly, TripSound, TripTyped, JobsTyped
  <2>5. \A r \in RunRecord : r.mode = run[w].mode /\ r.pc = "GUARD" => Legal(r)
    BY <1>1 DEF Legal
  <2> QED
    BY <1>3, <2>4, <2>5, GoMoves DEF Places
<1> QED
  BY <1>2, <1>3 DEF SellCall

\* The answer of the transport is recorded by the run that guarded the sell.
LEMMA StepSellRecordAttempt ==
    ASSUME TripSound, NEW w \in Workers, SellCall(w, "SUBMIT", "submit", "OBSERVE")
    PROVE TripSound'
<1>1. /\ In(w, "sell", "SUBMIT") /\ files.sellGuard /\ run[w].mode = "sell"
      /\ UNCHANGED <<fileVars, walletVars, keeps>>
  BY DEF SellCall, In, TripSound, ApprovalFirst
<1>2. CASE Begin(w, "submit", Sell, FALSE) /\ UNCHANGED run
  BY <1>1, <1>2, StepSubmitSell DEF SubmitSell, walletVars
<1>3. CASE job[w].call = "submit" /\ RecordSubmissionAttempt(w) /\ Go(w, "OBSERVE")
  <2>1. /\ ChainStands /\ UNCHANGED <<recon, obs, crossed, approval, files, sends, pool>>
        /\ state' = state \/ state' = [state EXCEPT ![job[w].action] = "SUBMITTED"]
        /\ Finish(w)
    BY <1>1, <1>3 DEF RecordSubmissionAttempt, MoveIntent, LedgerRest,
                      fileVars, walletVars, chainVars, ChainStands
  <2>2. /\ state' \in [Actions -> IntentState \cup {"NONE"}]
        /\ state'[Sell] = "FILLED" => state[Sell] = "FILLED"
    BY <2>1, RoundTripAssumption DEF TripSound, TripTyped, IntentState
  <2>3. LedgerMoves
    BY <2>1, <2>2 DEF TripSound, TripTyped, ChainSound, ChainTyped, SellConcluded, LedgerMoves,
                      ReadingKept, ReconTyped
  <2>4. RunOnly(w)
    BY <2>1, <2>3, FinishJobs DEF Finish, RunOnly, TripSound, TripTyped, JobsTyped
  <2>5. \A r \in RunRecord : r.mode = run[w].mode /\ r.pc = "OBSERVE" => Legal(r)
    BY <1>1 DEF Legal
  <2> QED
    BY <1>3, <2>4, <2>5, GoMoves DEF Places
<1> QED
  BY <1>2, <1>3 DEF SellCall

-----------------------------------------------------------------------------
(* The sell is observed, recorded and reconciled. *)

\* A step that moves the sell, but not its conclusion.
LEMMA LedgerMoved ==
    ASSUME TripSound, ReadingKept, UNCHANGED <<recon, crossed>>,
           NEW to \in IntentState, state' = state \/ state' = [state EXCEPT ![Sell] = to],
           to = "FILLED" => sends["revoke"] > 0 \/ AllowanceSpent
    PROVE LedgerMoves
<1>1. /\ state' \in [Actions -> IntentState \cup {"NONE"}]
      /\ state'[Sell] \in {state[Sell], to}
  BY RoundTripAssumption DEF TripSound, TripTyped
<1>2. state'[Sell] = "FILLED" => state[Sell] = "FILLED" \/ sends["revoke"] > 0 \/ AllowanceSpent
  BY <1>1
<1>3. /\ ReconTyped' /\ (recon'[Sell] \in {"SETTLED", "REVERTED"} => IsFinal(Sell))
      /\ crossed' \in [Actions -> BOOLEAN]
  BY DEF TripSound, TripTyped, ChainSound, ChainTyped, SellConcluded, ReconTyped
<1> QED
  BY <1>1, <1>2, <1>3 DEF LedgerMoves

LEMMA StepSellObserve ==
    ASSUME TripSound, NEW w \in Workers, SellObserve(w)
    PROVE TripSound'
<1>1. RunOnly(w) /\ run[w].mode = "sell" /\ files.sellGuard
  BY QuietMoves DEF SellObserve, In, TripSound, ApprovalFirst
<1>2. CASE End(w)
  BY <1>1, <1>2, EndMoves
<1>3. CASE IsFinal(Sell) /\ Go(w, "RECORD")
  <2>2. \A r \in RunRecord : r.mode = run[w].mode /\ r.pc = "RECORD" => Legal(r)
    BY <1>1, <1>3 DEF Legal
  <2> QED
    BY <1>1, <1>3, <2>2, GoMoves DEF Places
<1> QED
  BY <1>2, <1>3 DEF SellObserve

LEMMA StepSellHalt ==
    ASSUME TripSound, NEW w \in Workers, SellHalt(w)
    PROVE TripSound'
<1>1. /\ ChainStands /\ UNCHANGED <<recon, obs, crossed, job, approval, files, sends, pool>>
      /\ state' = [state EXCEPT ![Sell] = "SAFE_HALT"] /\ End(w)
  BY DEF SellHalt, MoveIntent, LedgerRest, RuntimeRest, executionVars, chainVars, fileVars,
         walletVars, ChainStands
<1>2. PICK to \in IntentState : to = "SAFE_HALT"
  BY DEF IntentState
<1>3. LedgerMoves
  BY <1>1, <1>2, LedgerMoved DEF ReadingKept
<1>4. RunOnly(w)
  BY <1>1, <1>3 DEF RunOnly, TripSound, TripTyped, JobsTyped
<1> QED
  BY <1>1, <1>4, EndMoves

\* What a run records of a sell it found deep enough is what is on the chain.
LEMMA FinalReadingKept ==
    ASSUME ChainSound, NEW p \in Providers, NEW r \in FinalReadings(p), RecordReading(Sell, r),
           UNCHANGED <<tx, past>>, tx[Sell].facts # NoFacts
    PROVE ReadingKept
<1>1. PICK at \in {0, Cardinality(obs[Sell])} :
         r = [provider |-> p, at |-> at, id |-> 0, presence |-> "INCLUDED",
              facts |-> tx[Sell].facts, head |-> tx[Sell].head]
  BY DEF FinalReadings
<1>2. /\ Sell \in Actions /\ tx[Sell] \in ChainRecord /\ tx[Sell] \in past[Sell]
      /\ IsFiniteSet(obs[Sell])
  BY RoundTripAssumption DEF ChainSound, ChainTyped, DeepStays
<1>3. Cardinality(obs[Sell]) \in 0..MaxObs
  <2>1. /\ IsFiniteSet(obs[Sell] \cup {r})
        /\ Cardinality(obs[Sell] \cup {r}) =
              IF r \in obs[Sell] THEN Cardinality(obs[Sell]) ELSE Cardinality(obs[Sell]) + 1
    BY <1>2, FS_AddElement
  <2>2. Cardinality(obs[Sell]) \in Nat
    BY <1>2, FS_CardinalityType
  <2>3. Cardinality(obs[Sell] \cup {r}) <= MaxObs /\ MaxObs \in Nat
    BY ExecutionAssumption DEF RecordReading
  <2>4. Cardinality(obs[Sell]) <= MaxObs
    BY <2>1, <2>2, <2>3
  <2> QED
    BY <2>2, <2>3, <2>4
<1>4. r \in Reading
  <2>1. /\ at \in 0..MaxObs /\ tx[Sell].facts \in TxFacts \cup {NoFacts} /\ tx[Sell].head \in Nat
        /\ "INCLUDED" \in ChainPresence
    BY <1>2, <1>3, ExecutionAssumption DEF ChainRecord, ChainPresence
  <2> QED
    BY <1>1, <2>1 DEF Reading
<1>5. [facts |-> r.facts, head |-> r.head] \in past[Sell]
  BY <1>1, <1>2 DEF ChainRecord
<1>6. r.presence = "INCLUDED" <=> r.facts # NoFacts
  BY <1>1
<1> QED
  BY <1>2, <1>4, <1>5, <1>6 DEF RecordReading, ReadingKept

\* record_chain_observation may halt the sell or take it further, and ends nothing.
LEMMA ReadingMoves ==
    ASSUME NEW r, RecordReading(Sell, r)
    PROVE \E to \in IntentState \ {"FILLED"} :
             state' = state \/ state' = [state EXCEPT ![Sell] = to]
<1>1. "SAFE_HALT" \in IntentState \ {"FILLED"} /\ "INCLUDED" \in IntentState \ {"FILLED"}
      /\ "CONFIRMED" \in IntentState \ {"FILLED"}
  BY DEF IntentState
<1> QED
  BY <1>1 DEF RecordReading, ObservationEffect, MoveIntent, AdvancedState

LEMMA StepSellRecord ==
    ASSUME TripSound, NEW w \in Workers, SellRecord(w)
    PROVE TripSound'
<1>1. /\ run[w].mode = "sell" /\ files.sellGuard /\ IsFinal(Sell) /\ run[w] \in RunRecord
      /\ ChainStands /\ UNCHANGED <<recon, crossed, job, approval, files, sends, pool, tx, past>>
  BY DEF SellRecord, In, TripSound, TripTyped, ApprovalFirst, SellConcluded, LedgerRest, chainVars,
         fileVars, walletVars, ChainStands
<1>2. PICK p \in run[w].left : \E r \in FinalReadings(p) :
          /\ RecordReading(Sell, r)
          /\ run' = [run EXCEPT ![w].left = @ \ {p},
                               ![w].pc = IF run[w].left = {p} THEN "RECONCILE" ELSE "RECORD"]
  BY DEF SellRecord
<1>3. PICK r \in FinalReadings(p) :
          /\ RecordReading(Sell, r)
          /\ run' = [run EXCEPT ![w].left = @ \ {p},
                               ![w].pc = IF run[w].left = {p} THEN "RECONCILE" ELSE "RECORD"]
  BY <1>2
<1>4. p \in Providers
  BY <1>1, <1>2 DEF RunRecord
<1>5. ReadingKept
  BY <1>1, <1>3, <1>4, FinalReadingKept DEF TripSound, IsFinal
<1>6. PICK to \in IntentState : to # "FILLED" /\ (state' = state \/ state' = [state EXCEPT ![Sell] = to])
  BY <1>3, ReadingMoves
<1>7. RunOnly(w)
  <2>1. LedgerMoves
    BY <1>1, <1>5, <1>6, LedgerMoved
  <2> QED
    BY <1>1, <2>1 DEF RunOnly, TripSound, TripTyped, JobsTyped
<1>8. PICK pc \in Places : pc = IF run[w].left = {p} THEN "RECONCILE" ELSE "RECORD"
  BY DEF Places
<1>9. PICK next : next = [run[w] EXCEPT !.left = @ \ {p}, !.pc = pc]
  OBVIOUS
<1>10. next \in RunRecord /\ next.mode = "sell" /\ next.pc \in {"RECONCILE", "RECORD"}
       /\ run' = [run EXCEPT ![w] = next]
  BY <1>1, <1>3, <1>8, <1>9 DEF RunRecord
<1>11. Legal(next)
  BY <1>1, <1>10 DEF Legal
<1> QED
  BY <1>7, <1>10, <1>11, RunMoves DEF RunOnly

\* A reconciliation never completes the sell, and a verdict is of what is final.
LEMMA ReconcileMoves ==
    ASSUME ChainSound, ReconTyped, ReconcileExternalAction(Sell)
    PROVE /\ \E to \in IntentState \ {"FILLED"} :
                state' = state \/ state' = [state EXCEPT ![Sell] = to]
          /\ ReconTyped'
          /\ recon' = recon \/ (recon'[Sell] \in {"SETTLED", "REVERTED"} => IsFinal(Sell))
<1>1. /\ "SAFE_HALT" \in IntentState \ {"FILLED"} /\ "RECONCILED" \in IntentState \ {"FILLED"}
      /\ "REJECTED" \in IntentState \ {"FILLED"} /\ Sell \in Actions
  BY RoundTripAssumption DEF IntentState
<1>2. CASE ReconcileFirst(Sell)
  <2>1. CASE VerdictOf(Sell) = "CONFIRMED" /\ SettledEffect(Sell)
             /\ recon' = [recon EXCEPT ![Sell] = "SETTLED"]
    <3>1. state' = [state EXCEPT ![Sell] = "RECONCILED"]
      BY <2>1 DEF SettledEffect, RecoverSafeHalt
    <3>2. IsFinal(Sell)
      BY <1>1, <2>1, VerdictIsFinal
    <3> QED
      BY <1>1, <2>1, <3>1, <3>2 DEF ReconTyped
  <2>2. CASE VerdictOf(Sell) = "REVERTED" /\ RevertedEffect(Sell)
             /\ recon' = [recon EXCEPT ![Sell] = "REVERTED"]
    <3>1. state' = state \/ state' = [state EXCEPT ![Sell] = "REJECTED"]
      BY <2>2 DEF RevertedEffect, RecoverSafeHalt
    <3>2. IsFinal(Sell)
      BY <1>1, <2>2, VerdictIsFinal
    <3> QED
      BY <1>1, <2>2, <3>1, <3>2 DEF ReconTyped
  <2>3. CASE /\ VerdictOf(Sell) = "AMBIGUOUS"
             /\ IF state[Sell] \in {"SAFE_HALT", "REJECTED", "FILLED"}
                THEN UNCHANGED <<state, resv>> ELSE MoveIntent(Sell, "SAFE_HALT")
             /\ recon' = [recon EXCEPT ![Sell] = "AMBIGUOUS"]
    <3>1. state' = state \/ state' = [state EXCEPT ![Sell] = "SAFE_HALT"]
      BY <2>3 DEF MoveIntent
    <3> QED
      BY <1>1, <2>3, <3>1 DEF ReconTyped
  <2> QED
    BY <1>2, <2>1, <2>2, <2>3 DEF ReconcileFirst
<1>3. CASE ReconcileAgain(Sell)
  BY <1>1, <1>3 DEF ReconcileAgain, RecoverSafeHalt, ReconTyped
<1> QED
  BY <1>2, <1>3 DEF ReconcileExternalAction

LEMMA StepSellReconcile ==
    ASSUME TripSound, NEW w \in Workers, SellReconcile(w)
    PROVE TripSound'
<1>1. /\ run[w].mode = "sell" /\ files.sellGuard /\ Go(w, "ALLOWANCE")
      /\ ChainStands /\ UNCHANGED <<obs, crossed, job, approval, files, sends, pool>>
  BY DEF SellReconcile, In, TripSound, ApprovalFirst, ReconcileExternalAction, execVars,
         executionVars, chainVars, fileVars, walletVars, ChainStands
<1>2. LedgerMoves
  <2>1. CASE ReconcileExternalAction(Sell)
    <3>1. PICK to \in IntentState : to # "FILLED" /\ (state' = state \/ state' = [state EXCEPT ![Sell] = to])
      BY <2>1, ReconcileMoves DEF TripSound, TripTyped
    <3>2. /\ state' \in [Actions -> IntentState \cup {"NONE"}]
          /\ state'[Sell] = "FILLED" => state[Sell] = "FILLED"
      BY <3>1, RoundTripAssumption DEF TripSound, TripTyped
    <3>3. ReconTyped' /\ (recon'[Sell] \in {"SETTLED", "REVERTED"} => IsFinal(Sell))
      BY <2>1, ReconcileMoves DEF TripSound, TripTyped, SellConcluded
    <3> QED
      BY <1>1, <3>2, <3>3 DEF LedgerMoves, ReadingKept, TripSound, ChainSound, ChainTyped
  <2>2. CASE UNCHANGED execVars
    BY <1>1, <2>2, LedgerStands DEF execVars, vars, ledgerVars
  <2> QED
    BY <2>1, <2>2 DEF SellReconcile
<1>3. RunOnly(w)
  BY <1>1, <1>2 DEF RunOnly, TripSound, TripTyped, JobsTyped
<1>4. \A r \in RunRecord : r.mode = run[w].mode /\ r.pc = "ALLOWANCE" => Legal(r)
  BY <1>1 DEF Legal
<1> QED
  BY <1>1, <1>3, <1>4, GoMoves DEF Places

\* A successful sell with no allowance after it has spent the allowance, for good,
\* or a revocation was under way.
LEMMA NothingAllowed ==
    ASSUME TripSound, NEW V \in Blocks, "sell" \in V, ~Allowed(V), ApprovalFinal,
           VerdictOf(Sell) = "CONFIRMED"
    PROVE sends["revoke"] > 0 \/ AllowanceSpent
<1>1. IsFinal(Sell) /\ tx[Sell].facts.status = "SUCCESS"
  BY VerdictIsFinal, RoundTripAssumption DEF TripSound
<1>2. Succeeded("sell")
  BY <1>1 DEF Succeeded, OnChain
<1>3. "approve" \in V /\ V \subseteq Mined
  <2>1. "approve" \in Mined /\ "sell" \in Mined
    BY DEF Blocks, TripSound, NoncesInOrder
  <2>2. NonceOf("approve") < NonceOf("sell")
    BY NoncesAre DEF NonceTable
  <2> QED
    BY <2>1, <2>2 DEF Blocks
<1>4. CASE "revoke" \in V
  <2>1. wallet["revoke"].facts # NoFacts /\ wallet["revoke"] \in walletPast["revoke"]
    BY <1>3, <1>4 DEF Mined, OnChain, TripSound, WalletLasts, WalletTxs
  <2> QED
    BY <2>1 DEF TripSound, RevocationAsked
<1>5. CASE "revoke" \notin V
  <2>1. ~keeps
    BY <1>2, <1>3, <1>5 DEF Allowed, ApprovalFinal
  <2> QED
    BY <1>1, <1>2, <2>1 DEF AllowanceSpent
<1> QED
  BY <1>4, <1>5

LEMMA StepSellAllowance ==
    ASSUME TripSound, NEW w \in Workers, SellAllowance(w)
    PROVE TripSound'
<1>1. RunOnly(w) /\ run[w].mode = "sell" /\ files.sellGuard /\ ApprovalFinal
  BY QuietMoves DEF SellAllowance, In, TripSound, ApprovalFirst
<1>2. CASE End(w)
  BY <1>1, <1>2, EndMoves
<1>3. ASSUME NEW V \in Blocks, "sell" \in V, VerdictOf(Sell) = "CONFIRMED", ~Allowed(V),
             Go(w, "COMPLETE")
      PROVE TripSound'
  <2>1. sends["revoke"] > 0 \/ AllowanceSpent
    BY <1>1, <1>3, NothingAllowed
  <2>2. \A r \in RunRecord : r.mode = run[w].mode /\ r.pc = "COMPLETE" => Legal(r)
    BY <1>1, <2>1 DEF Legal
  <2> QED
    BY <1>1, <1>3, <2>2, GoMoves DEF Places
<1> QED
  BY <1>2, <1>3 DEF SellAllowance

\* complete_settlement, after what either mode saw of the allowance.
LEMMA StepCompletion ==
    ASSUME TripSound, NEW w \in Workers, NEW mode \in {"sell", "revoke"}, Complete(w, mode)
    PROVE TripSound'
<1>1. /\ ChainStands /\ UNCHANGED <<recon, obs, crossed, job, approval, files, sends, pool>>
      /\ state' = [state EXCEPT ![Sell] = "FILLED"] /\ End(w) /\ In(w, mode, "COMPLETE")
  BY DEF Complete, CompleteSettlement, MoveIntent, LedgerRest, RuntimeRest, executionVars,
         chainVars, fileVars, walletVars, ChainStands
<1>2. sends["revoke"] > 0 \/ AllowanceSpent
  BY <1>1 DEF TripSound, RevocationAsked, CompletionSpent
<1>3. PICK to \in IntentState : to = "FILLED"
  BY DEF IntentState
<1>4. LedgerMoves
  BY <1>1, <1>2, <1>3, LedgerMoved DEF ReadingKept
<1>5. RunOnly(w)
  BY <1>1, <1>4 DEF RunOnly, TripSound, TripTyped, JobsTyped
<1> QED
  BY <1>1, <1>5, EndMoves

-----------------------------------------------------------------------------
(* A revocation. *)

LEMMA StepRevokeBegin ==
    ASSUME TripSound, NEW w \in Workers, RevokeBegin(w)
    PROVE TripSound'
<1>1. /\ RunOnly(w) /\ run[w].mode = "revoke" /\ files.prepared # 0
  BY QuietMoves DEF RevokeBegin, In, TripSound, RevocationAsked
<1>2. PICK pc \in {"OBSERVE", "LIVE"} : Go(w, pc)
  BY DEF RevokeBegin
<1>3. \A r \in RunRecord : r.mode = run[w].mode /\ r.pc = pc => Legal(r)
  BY <1>1 DEF Legal
<1> QED
  BY <1>1, <1>2, <1>3, GoMoves DEF Places

LEMMA StepRevokeLive ==
    ASSUME TripSound, NEW w \in Workers, RevokeLive(w)
    PROVE TripSound'
<1>1. /\ RunOnly(w) /\ run[w].mode = "revoke" /\ files.prepared # 0 /\ Go(w, "GUARD")
  BY QuietMoves DEF RevokeLive, In, TripSound, RevocationAsked
<1>2. \A r \in RunRecord : r.mode = run[w].mode /\ r.pc = "GUARD" => Legal(r)
  BY <1>1 DEF Legal
<1> QED
  BY <1>1, <1>2, GoMoves DEF Places

\* A revocation that is confirmed was handed over.
LEMMA StepRevokeObserve ==
    ASSUME TripSound, NEW w \in Workers, RevokeObserve(w)
    PROVE TripSound'
<1>1. /\ RunOnly(w) /\ run[w].mode = "revoke" /\ files.prepared # 0 /\ Go(w, "COMPLETE")
  BY QuietMoves DEF RevokeObserve, In, TripSound, RevocationAsked
<1>2. sends["revoke"] > 0
  <2>1. PICK V \in Blocks : Confirms("revoke", "REVOKED", V)
    BY DEF RevokeObserve
  <2>2. PICK t, settlement : t = "revoke" /\ t \in WalletTxs /\ Confirms(t, settlement, V)
    BY <2>1 DEF WalletTxs
  <2>3. \E m \in walletPast[t] : m.facts # NoFacts
    BY <2>2, ConfirmedIsFinal DEF TripSound
  <2> QED
    BY <2>2, <2>3 DEF TripSound, RevocationAsked
<1>3. \A r \in RunRecord : r.mode = run[w].mode /\ r.pc = "COMPLETE" => Legal(r)
  BY <1>1, <1>2 DEF Legal
<1> QED
  BY <1>1, <1>3, GoMoves DEF Places

-----------------------------------------------------------------------------
(* The round trip. *)

LEMMA StepOperator ==
    ASSUME TripSound, Operator
    PROVE TripSound'
<1>1. /\ ChainStands /\ UNCHANGED <<run, recon, obs, crossed, job, approval, files, sends, pool>>
      /\ state' = [state EXCEPT ![Sell] = "CANCELLED"]
  BY DEF Operator, Abandon, Transition, MoveIntent, RuntimeRest, executionVars, chainVars,
         roundVars, fileVars, walletVars, ChainStands
<1>2. PICK to \in IntentState : to = "CANCELLED"
  BY DEF IntentState
<1>3. LedgerMoves
  BY <1>1, <1>2, LedgerMoved DEF ReadingKept
<1>4. /\ ChainSound' /\ WalletLasts' /\ (ApprovalFinal' <=> ApprovalFinal)
      /\ (IsFinal(Sell)' <=> IsFinal(Sell)) /\ (AllowanceSpent' <=> AllowanceSpent)
  BY <1>1, <1>3, StandingChain
<1>5. NoncesInOrder'
  BY <1>1, <1>3, StandingChain, OrderKept DEF TripSound
<1>6. TripTyped'
  BY <1>1, <1>3 DEF TripSound, TripTyped, LedgerMoves, ChainStands, JobsTyped
<1>7. SentOnce'
  BY <1>1 DEF TripSound, SentOnce, ClaimedOnce, HandsApproval, HandsSell, HandsRevocation, In
<1>8. RevocationAsked' /\ ApprovalFirst' /\ SellConcluded' /\ CompletionSpent'
  BY <1>1, <1>3, <1>4 DEF TripSound, RevocationAsked, ApprovalFirst, SellConcluded,
                          CompletionSpent, LedgerMoves, ChainStands, In
<1> QED
  BY <1>4, <1>5, <1>6, <1>7, <1>8 DEF TripSound

LEMMA StepStutter ==
    ASSUME TripSound, UNCHANGED tripVars
    PROVE TripSound'
<1>1. /\ ChainStands
      /\ UNCHANGED <<run, state, recon, obs, crossed, job, approval, files, sends, pool>>
  BY DEF tripVars, execVars, vars, ledgerVars, executionVars, chainVars, roundVars, fileVars,
         walletVars, ChainStands
<1>2. LedgerMoves
  BY <1>1, LedgerStands
<1>3. /\ ChainSound' /\ WalletLasts' /\ (ApprovalFinal' <=> ApprovalFinal)
      /\ (IsFinal(Sell)' <=> IsFinal(Sell)) /\ (AllowanceSpent' <=> AllowanceSpent)
  BY <1>1, <1>2, StandingChain
<1>4. NoncesInOrder'
  BY <1>1, <1>2, StandingChain, OrderKept DEF TripSound
<1>5. TripTyped'
  BY <1>1 DEF TripSound, TripTyped, ChainStands, JobsTyped, ReconTyped
<1>6. SentOnce'
  BY <1>1 DEF TripSound, SentOnce, ClaimedOnce, HandsApproval, HandsSell, HandsRevocation, In
<1>7. RevocationAsked' /\ ApprovalFirst' /\ SellConcluded' /\ CompletionSpent'
  BY <1>1, <1>3 DEF TripSound, RevocationAsked, ApprovalFirst, SellConcluded,
                    CompletionSpent, ChainStands, In
<1> QED
  BY <1>3, <1>4, <1>5, <1>6, <1>7 DEF TripSound

LEMMA InitTrip == TripInit => TripSound
<1> SUFFICES ASSUME TripInit
             PROVE TripSound
  OBVIOUS
<1>1. /\ run = [w \in Workers |-> Resting]
      /\ approval = "AUTHORIZED" /\ files = NoFiles /\ pool = {}
      /\ sends = [t \in {"approve", "sell", "revoke"} |-> 0]
      /\ wallet = [t \in {"approve", "revoke"} |-> Unmined]
      /\ walletPast = [t \in {"approve", "revoke"} |-> {Unmined}]
      /\ RuntimeInit("RESERVED", TRUE)
  BY DEF TripInit
<1>2. /\ state = [a \in Actions |-> "RESERVED"] /\ recon = [a \in Actions |-> "NONE"]
      /\ job = [w \in Workers |-> Idle] /\ crossed = [a \in Actions |-> FALSE]
      /\ tx = [a \in Actions |-> Unmined] /\ past = [a \in Actions |-> {Unmined}]
      /\ obs = [a \in Actions |-> {}] /\ Sell \in Actions
  BY <1>1, RoundTripAssumption DEF RuntimeInit
<1>3. TripTyped
  <2>1. Resting \in RunRecord /\ Unmined \in WalletRecord
    BY RestingLegal DEF WalletRecord, Unmined
  <2>2. state \in [Actions -> IntentState \cup {"NONE"}] /\ JobsTyped /\ ReconTyped
    BY <1>2 DEF IntentState, JobsTyped, ReconTyped
  <2> QED
    BY <1>1, <2>1, <2>2 DEF TripTyped, NoFiles, WalletTxs
<1>4. ChainSound
  <2>1. ChainTyped
    BY <1>2, FS_EmptySet DEF ChainTyped, ChainRecord, Unmined
  <2> QED
    BY <1>2, <2>1 DEF ChainSound, ReadingsTrue, DeepStays, Lasting, Unmined
<1>5. \A w \in Workers : run[w].mode = "none" /\ run[w].pc = "IDLE"
  BY <1>1 DEF Resting
<1>6. SentOnce
  <2>1. HandsApproval = {} /\ HandsSell = {} /\ HandsRevocation = {}
    BY <1>5 DEF HandsApproval, HandsSell, HandsRevocation, In
  <2> QED
    BY <1>1, <2>1 DEF SentOnce, ClaimedOnce
<1>7. WalletLasts /\ RevocationAsked
  BY <1>1, <1>2, <1>5 DEF WalletLasts, RevocationAsked, Lasting, Unmined, WalletTxs, In
<1>8. Mined = {}
  BY <1>1, <1>2 DEF Mined, OnChain, Unmined
<1>9. NoncesInOrder
  BY <1>8 DEF NoncesInOrder
<1>10. ApprovalFirst /\ SellConcluded /\ CompletionSpent
  BY <1>1, <1>2, <1>5 DEF ApprovalFirst, SellConcluded, CompletionSpent, NoFiles, SellNonce, In
<1> QED
  BY <1>3, <1>4, <1>6, <1>7, <1>9, <1>10 DEF TripSound

LEMMA StepSellMode ==
    ASSUME TripSound, NEW w \in Workers, SellMode(w)
    PROVE TripSound'
<1>1. CASE Begin(w, "submit", Sell, FALSE) /\ In(w, "sell", "SUBMIT") /\ UNCHANGED roundVars
  BY <1>1, StepSubmitSell DEF SubmitSell, roundVars, walletVars
<1>2. CASE SellTransport(w)
  BY <1>2, StepSubmitSell DEF SellTransport, SubmitSell
<1> QED
  BY <1>1, <1>2, StepSellBegin, StepSellAdmit, StepSellGuard, StepSellRecordAttempt,
     StepSellObserve, StepSellHalt, StepSellRecord, StepSellReconcile, StepSellAllowance,
     StepCompletion DEF SellMode

LEMMA StepRevokeModes ==
    ASSUME TripSound, NEW w \in Workers, RevokeModes(w)
    PROVE TripSound'
BY StepRevokePrepare, StepRevokeBegin, StepRevokeLive, StepRevokeGuard, StepHandOver,
   StepRevokeObserve, StepCompletion DEF RevokeModes

LEMMA StepTrip ==
    ASSUME TripSound, [TripNext]_tripVars
    PROVE TripSound'
<1>1. ASSUME NEW w \in Workers, ApprovalMode(w)
      PROVE TripSound'
  BY <1>1, StepApprovalBegin, StepApprovalAdmit, StepApprovalGuard, StepHandOver DEF ApprovalMode
<1> QED
  BY <1>1, StepStop, StepSellMode, StepRevokeModes, StepStart, StepWalletChain, StepOperator,
     StepStutter DEF TripNext

LEMMA AlwaysTrip == TripSpec => []TripSound
BY InitTrip, StepTrip, PTL DEF TripSpec

\* However often the program of the round trip is run, side by side or after it died
\* anywhere, it hands each of its transactions over once.
THEOREM EachSentOnceCorrect == TripSpec => []EachSentOnce
<1>1. TripSound => EachSentOnce
  BY DEF TripSound, TripTyped, SentOnce, ClaimedOnce, EachSentOnce
<1> QED
  BY <1>1, AlwaysTrip, PTL

\* The sell is handed over when its approval is final and successful, and not before
\* (_assert_sell_fresh, before the guard of the sell).
THEOREM FinalApprovalCorrect == TripSpec => []SellNeedsFinalApproval
<1>1. TripSound => SellNeedsFinalApproval
  BY DEF TripSound, TripTyped, SentOnce, ClaimedOnce, ApprovalFirst, ApprovalFinal,
         SellNeedsFinalApproval
<1> QED
  BY <1>1, AlwaysTrip, PTL

\* A revocation at the nonce after the sell's waits for the sell to be final
\* (_expected_revoke_nonce).
THEOREM NextNonceCorrect == TripSpec => []NextNonceRevokesFinalSell
<1>1. TripSound => NextNonceRevokesFinalSell
  BY DEF TripSound, SellConcluded, NextNonceRevokesFinalSell
<1> QED
  BY <1>1, AlwaysTrip, PTL

\* A round trip that is complete left the router nothing to spend, in any block there
\* will be, unless a revocation was handed over.
THEOREM NoAllowanceCorrect == TripSpec => []FilledLeavesNoAllowance
<1>1. TripSound => FilledLeavesNoAllowance
  <2> SUFFICES ASSUME TripSound, state[Sell] = "FILLED", sends["revoke"] = 0, Allowed(Mined)
               PROVE FALSE
    BY DEF FilledLeavesNoAllowance
  <2>1. AllowanceSpent
    BY DEF TripSound, CompletionSpent
  <2>2. "sell" \in Mined /\ Succeeded("sell") /\ ~keeps
    BY <2>1 DEF AllowanceSpent, IsFinal, Mined, OnChain
  <2> QED
    BY <2>2 DEF Allowed
<1> QED
  BY <1>1, AlwaysTrip, PTL
=============================================================================
