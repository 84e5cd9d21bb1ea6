----------------------------- MODULE ChainWatch -----------------------------
(***************************************************************************)
(* The evidence qntyspot/execution_contract.py judges, gathered from a     *)
(* chain that grows and reorganises by providers that lag, disagree and    *)
(* are recorded late; some of them may report anything.  The chain and the *)
(* providers are external: only the judgement (ChainTruth) is the code's.  *)
(***************************************************************************)
EXTENDS ChainTruth

CONSTANTS
    Providers,
    Faulty,             \* providers that may report anything
    MaxHead,            \* bound on the height of the chain
    MaxForks,           \* bound on reorganisations
    MaxObs              \* bound on observations recorded

ASSUME ProviderAssumption ==
    /\ Faulty \subseteq Providers /\ IsFiniteSet(Faulty)
    /\ Cardinality(Faulty) < MinAgreeingProviders
ASSUME BoundAssumption == MaxHead \in Nat /\ MaxForks \in Nat /\ MaxObs \in Nat

VARIABLES
    chain,              \* the chain now: its height and the transaction's facts on it
    past,               \* the chain at every moment so far, the present one included
    fork,               \* reorganisations so far; part of a block's identity
    deep,               \* TRUE once a reorganisation undid a block that was final
    obs                 \* observations recorded

watchVars == <<chain, past, fork, deep, obs>>

FactsAt(block, hash, status) ==
    [block |-> block, hash |-> hash, status |-> status,
     input |-> IF status = "SUCCESS" THEN 1 ELSE 0, output |-> IF status = "SUCCESS" THEN 1 ELSE 0]

Become(height, facts) ==
    /\ chain' = [height |-> height, facts |-> facts]
    /\ past' = past \cup {[at |-> Cardinality(past), chain |-> chain']}

\* The chain grows by a block that may include the transaction.
Mine ==
    /\ chain.height < MaxHead
    /\ \/ Become(chain.height + 1, chain.facts)
       \/ /\ chain.facts = NoFacts
          /\ \E status \in ReceiptStatus :
                Become(chain.height + 1, FactsAt(chain.height + 1, fork, status))
    /\ UNCHANGED <<fork, deep, obs>>

\* The blocks from the one that included the transaction on are replaced; the new
\* ones may include it, with another outcome.
Reorganise ==
    /\ fork < MaxForks
    /\ chain.facts # NoFacts
    /\ fork' = fork + 1
    /\ \/ Become(chain.height, NoFacts)
       \/ \E b \in chain.facts.block..chain.height, status \in ReceiptStatus :
             Become(chain.height, FactsAt(b, fork', status))
    /\ deep' = (deep \/ chain.height - chain.facts.block >= MinConfirmationDepth)
    /\ UNCHANGED obs

\* Before its first inclusion the transaction is unseen, after a reorganisation
\* it waits to be included again.
Reading(p, at, facts, h) ==
    [provider |-> p, at |-> at, id |-> h,
     presence |-> IF facts # NoFacts THEN "INCLUDED" ELSE IF at = 0 THEN "ABSENT" ELSE "PENDING",
     facts |-> facts, head |-> h]

\* An honest provider reports the chain of some moment, perhaps long past: it
\* lags, or what it said then is recorded only now.  It may not name its head.
HonestReadings(p) ==
    UNION {{Reading(p, m.at, m.chain.facts, h) : h \in {NoHead, m.chain.height}} : m \in past}

\* A faulty one reports any block of the present chain's length as deep.
FaultyReadings(p) ==
    {Reading(p, Cardinality(past), FactsAt(b, f, s), MaxHead) :
        b \in 1..chain.height, f \in 0..fork, s \in ReceiptStatus}

\* record_chain_observation, in whatever order the observations were made.
Observe(p) ==
    /\ Cardinality(obs) < MaxObs
    /\ \E r \in IF p \in Faulty THEN FaultyReadings(p) ELSE HonestReadings(p) : obs' = obs \cup {r}
    /\ UNCHANGED <<chain, past, fork, deep>>

WatchInit ==
    /\ chain = [height |-> 0, facts |-> NoFacts]
    /\ past = {[at |-> 0, chain |-> chain]}
    /\ fork = 0
    /\ deep = FALSE
    /\ obs = {}

WatchNext == Mine \/ Reorganise \/ \E p \in Providers : Observe(p)

WatchSpec == WatchInit /\ [][WatchNext]_watchVars

-----------------------------------------------------------------------------
(* Properties. *)

Concluded == Verdict(obs, FALSE) \in {"CONFIRMED", "REVERTED"}

\* What the code concludes is on the chain and final, whichever providers lag or
\* lie (fewer of them than must agree) and in whatever order their records
\* arrive, as long as no reorganisation reached below the confirmation depth.
ConclusionIsFinal ==
    Concluded /\ ~deep =>
        /\ chain.facts = SettledFacts(obs)
        /\ chain.facts.status = (IF Verdict(obs, FALSE) = "CONFIRMED" THEN "SUCCESS" ELSE "REVERTED")
        /\ chain.height - chain.facts.block >= MinConfirmationDepth

\* A conclusion may be withdrawn, never turned into its opposite: what some of the
\* records support, in whatever order they were stored, the others may make
\* ambiguous, and not even a chain that was reorganised below the depth the code
\* relies on makes them support the contrary.
ConclusionNeverFlips ==
    \A part \in SUBSET obs :
        {Verdict(part, FALSE), Verdict(obs, FALSE)} # {"CONFIRMED", "REVERTED"}
=============================================================================
