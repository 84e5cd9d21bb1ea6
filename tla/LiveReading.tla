----------------------------- MODULE LiveReading -----------------------------
(***************************************************************************)
(* How live terms are read (qntyspot/ink_v0f_preauth.py, ink.py): two      *)
(* providers are asked in turn for their heads, for the pool and the       *)
(* router at the lower of the two heads, and for the allowance, while the  *)
(* chain grows and is replaced under the questions.  What they agree on    *)
(* gives the terms that are frozen for signing; before they are signed the *)
(* market is read again and the frozen terms must still hold without being *)
(* resized.  The chain and the providers are external.                     *)
(*                                                                         *)
(* A reading that the code refuses ends in Raise.  So do readings that can *)
(* only refuse: the router's pinned code and addresses, the taker's nonce, *)
(* the base fee, the native balance.  Identities, deadlines and the life   *)
(* of what is frozen are in Preauth.                                       *)
(***************************************************************************)
EXTENDS InkTerms, Sequences

CONSTANTS
    Endpoints,          \* the two canonical endpoints, in the order they are asked
    Untrusted,          \* providers that may report anything
    Intents,            \* committed bounds of reserved intents
    Risk,               \* the frozen risk policy
    LedgerFacts,        \* what the ledger may say of capital, positions and inventory
    Market,             \* the pools the chain may have
    MaxHeadLag, MaxAge, \* bounds on the heads, in blocks
    MaxHeight,          \* bound on the height of the chain
    MaxReplaced         \* bound on its reorganisations

ASSUME ReadingAssumption ==
    /\ Len(Endpoints) = 2 /\ Endpoints[1] # Endpoints[2]
    /\ Endpoints[1] \notin Untrusted \/ Endpoints[2] \notin Untrusted
    /\ Market \subseteq Pools
    /\ \A b \in Intents : /\ {b.maxInput, b.minOutput} \subseteq Nat \ {0} /\ b.side \in Sides
                          /\ {b.impact, b.slippage} \subseteq 0..Bps
    /\ {Risk.impact, Risk.slippage} \subseteq 0..Bps

VARIABLES
    blocks,              \* of the chain: pool and allowance after each
    versions,           \* the chain at every moment so far
    replaced,           \* reorganisations so far
    job,                \* the reading under way
    frozen,             \* the terms frozen for signing
    offered             \* the reading at which they were last found to hold

readingVars == <<sizing, blocks, versions, replaced, job, frozen, offered>>
blockVars == <<blocks, versions, replaced>>

NoJob == [doing |-> "none"]
NoTerms == [input |-> 0]

Now(b) == blocks' = b /\ versions' = versions \cup {b}

-----------------------------------------------------------------------------
(* The chain, and what a provider answers. *)

\* A block trades with the pool or sets the allowance to what was approved.
Allowances == {0} \cup (IF frozen = NoTerms THEN {} ELSE {frozen.input})

NewBlock ==
    /\ Len(blocks) < MaxHeight
    /\ \E pool \in Market, allowance \in Allowances \cup {blocks[Len(blocks)].allowance} :
          Now(Append(blocks, [pool |-> pool, allowance |-> allowance]))
    /\ UNCHANGED <<sizing, replaced, job, frozen, offered>>

ReplaceBlock ==
    /\ replaced < MaxReplaced
    /\ \E pool \in Market :
          Now([blocks EXCEPT ![Len(blocks)] = [pool |-> pool, allowance |-> 0]])
    /\ replaced' = replaced + 1
    /\ UNCHANGED <<sizing, job, frozen, offered>>

\* An honest provider answers from the chain as it was at some moment.
Heads(p) == IF p \in Untrusted THEN 1..MaxHeight ELSE {Len(v) : v \in versions}
PoolsAt(p, n) ==
    IF p \in Untrusted THEN Market ELSE {v[n].pool : v \in {w \in versions : Len(w) >= n}}
AllowancesAt(p, n) ==
    IF p \in Untrusted THEN Allowances ELSE {v[n].allowance : v \in {w \in versions : Len(w) >= n}}

-----------------------------------------------------------------------------
(* One reading. *)

Common(j) == Lesser(j.heads[1], j.heads[2])

\* The mutant takes the first provider's word.
Agreed_First(replies) == Len(replies) = 2

Agreed(replies) == Len(replies) = 2 /\ replies[1] = replies[2]

HeadsNear(j) ==
    /\ Len(j.heads) = 2
    /\ j.heads[1] - Common(j) <= MaxHeadLag /\ j.heads[2] - Common(j) <= MaxHeadLag

\* _heads_for_market: the market's heads are judged again, not asked for again.
BlockFresh(j) ==
    /\ HeadsNear(j)
    /\ j.heads[1] - Common(j) <= MaxAge /\ j.heads[2] - Common(j) <= MaxAge

MarketRead(j) == HeadsNear(j) /\ Agreed(j.pools)

\* The token paths read the allowance; a native BUY has none.
NeedsAllowance(j) == j.path = "TOKEN"

AllowanceRead(j) == NeedsAllowance(j) => Agreed(j.allowances)

Begin(doing, bounds, path) ==
    /\ job = NoJob
    /\ path = "NATIVE" => bounds.side = "BUY"
    /\ job' = [doing |-> doing, bounds |-> bounds, path |-> path,
               heads |-> <<>>, pools |-> <<>>, allowances |-> <<>>]
    /\ UNCHANGED <<sizing, blockVars, frozen, offered>>

BeginDerive == frozen = NoTerms /\ \E b \in Intents, path \in {"TOKEN", "NATIVE"} : Begin("DERIVE", b, path)

\* The approval of a token path is settled first, at exactly the frozen amount.
BeginRevalidate ==
    /\ frozen # NoTerms
    /\ Begin("REVALIDATE", frozen.bounds, frozen.path)

Asked(replies) == Endpoints[Len(replies) + 1]

\* InkShadowAdapter.observe: both heads, then the pool at the lower of them.
AskHead ==
    /\ job # NoJob /\ Len(job.heads) < 2
    /\ \E h \in Heads(Asked(job.heads)) : job' = [job EXCEPT !.heads = Append(@, h)]
    /\ UNCHANGED <<sizing, blockVars, frozen, offered>>

AskPool ==
    /\ job # NoJob /\ HeadsNear(job) /\ Len(job.pools) < 2
    /\ \E r \in PoolsAt(Asked(job.pools), Common(job)) : job' = [job EXCEPT !.pools = Append(@, r)]
    /\ UNCHANGED <<sizing, blockVars, frozen, offered>>

\* observe_allowance_for_market, at the same block number.
AskAllowance ==
    /\ job # NoJob /\ NeedsAllowance(job)
    /\ MarketRead(job) /\ BlockFresh(job) /\ Len(job.allowances) < 2
    /\ \E r \in AllowancesAt(Asked(job.allowances), Common(job)) :
          job' = [job EXCEPT !.allowances = Append(@, r)]
    /\ UNCHANGED <<sizing, blockVars, frozen, offered>>

-----------------------------------------------------------------------------
(* What may be done with it. *)

WithinRisk(b, pool, x) ==
    /\ b.impact <= Risk.impact /\ b.slippage <= Risk.slippage
    /\ x <= b.maxInput
    /\ ImpactWithin(pool, b.side, x, Lesser(b.impact, Risk.impact))

WithinConcurrency(facts) ==
    facts.openPositions < Risk.maxOpen /\ facts.inFlight < Risk.maxInFlight

EntryAdmissible(b, pool, x, facts) ==
    /\ WithinRisk(b, pool, x)
    /\ b.maxInput <= Risk.maxEntry
    /\ x <= facts.held /\ facts.held <= Risk.maxCumulative
    /\ WithinConcurrency(facts)

\* An exit asks for the inventory of its whole bound, and is never kept in by a
\* ceiling of positions.
ExitAdmissible(b, pool, x, facts) ==
    WithinRisk(b, pool, x) /\ b.maxInput <= facts.inventory

Admissible(b, pool, x) ==
    \E facts \in LedgerFacts :
        IF b.side = "BUY" THEN EntryAdmissible(b, pool, x, facts) ELSE ExitAdmissible(b, pool, x, facts)

\* build_ink_v0f_human_signing_preview and build_ink_v0f_native_buy_preview.
Preview(b, path, pool, block, x) ==
    [bounds |-> b, path |-> path, pool |-> pool, block |-> block,
     input |-> x, floor |-> AmountOutMin(Risk, b, x, Output(pool, b.side, x))]

\* build_ink_v0f_approval_action: no allowance may be left from before.
Approvable(j) == NeedsAllowance(j) => j.allowances[1] = 0

\* derive_live_ink_v0f_preview; the envelope and the approval repeat its terms.
Freeze ==
    LET b == job.bounds
        pool == job.pools[1]
        ceiling == Lesser(b.impact, Risk.impact)
        sized == Sized(pool, b.side, b.maxInput, ceiling)
    IN /\ job # NoJob /\ job.doing = "DERIVE" /\ frozen = NoTerms
       /\ MarketRead(job) /\ BlockFresh(job) /\ AllowanceRead(job)
       /\ Sizable(pool, b.side, b.maxInput, ceiling)
       /\ Admissible(b, pool, sized)
       /\ Approvable(job)
       /\ frozen' = Preview(b, job.path, pool, Common(job), sized)
       /\ job' = NoJob
       /\ UNCHANGED <<sizing, blockVars, offered>>

\* The frozen amount is quoted again: its floor must be no looser than a fresh one
\* and no more than what the pool pays now.
StillHolds(terms, pool) ==
    LET output == Output(pool, terms.bounds.side, terms.input) IN
    /\ output > 0
    /\ terms.floor >= AmountOutMin(Risk, terms.bounds, terms.input, output)
    /\ terms.floor <= output

\* revalidate_ink_v0f_same_amount and its native forms.
Revalidate ==
    LET pool == job.pools[1] IN
    /\ job # NoJob /\ job.doing = "REVALIDATE"
    /\ MarketRead(job) /\ BlockFresh(job) /\ AllowanceRead(job)
    /\ Admissible(frozen.bounds, pool, frozen.input)
    /\ StillHolds(frozen, pool)
    /\ NeedsAllowance(job) => job.allowances[1] = frozen.input
    /\ offered' = [input |-> frozen.input, pool |-> pool, block |-> Common(job)]
    /\ job' = NoJob
    /\ UNCHANGED <<sizing, blockVars, frozen>>

\* An answer that cannot be used, or none.
Raise ==
    /\ job # NoJob
    /\ job' = NoJob
    /\ UNCHANGED <<sizing, blockVars, frozen, offered>>

\* What was frozen is given up: the action ends or the deadline passes.
Expire ==
    /\ frozen # NoTerms /\ job = NoJob
    /\ frozen' = NoTerms /\ offered' = NoTerms
    /\ UNCHANGED <<sizing, blockVars, job>>

-----------------------------------------------------------------------------
ReadingInit ==
    /\ \E pool \in Market, allowance \in {0, 1} :
          blocks = <<[pool |-> pool, allowance |-> allowance]>>
    /\ versions = {blocks}
    /\ replaced = 0
    /\ job = NoJob
    /\ frozen = NoTerms /\ offered = NoTerms

ReadingNext ==
    \/ NewBlock \/ ReplaceBlock
    \/ BeginDerive \/ BeginRevalidate
    \/ AskHead \/ AskPool \/ AskAllowance
    \/ Freeze \/ Revalidate \/ Raise \/ Expire

ReadingSpec == ReadingInit /\ [][ReadingNext]_readingVars

-----------------------------------------------------------------------------
OnChain(reading) ==
    \E v \in versions : Len(v) >= reading.block /\ v[reading.block].pool = reading.pool

\* Terms are frozen, and found to hold, only for a pool that some block of the
\* height they name really had, though one provider may report anything, and
\* either may lag or answer from blocks that were replaced between two questions.
TermsAreOfTheChain ==
    /\ frozen # NoTerms => OnChain(frozen)
    /\ offered # NoTerms => OnChain(offered)

\* For the pool they were frozen for and, once offered, for the pool read last:
\* the limit price of the intent and both slippages are kept by the floor, both
\* impact ceilings by the amount, and what was offered is paid in full.
TermsKeepTheLimit ==
    LET b == frozen.bounds
        kept(pool) ==
            LET output == Output(pool, b.side, frozen.input) IN
            /\ ImpactWithin(pool, b.side, frozen.input, b.impact)
            /\ ImpactWithin(pool, b.side, frozen.input, Risk.impact)
            /\ frozen.floor * b.maxInput >= b.minOutput * frozen.input
            /\ \A slippage \in {b.slippage, Risk.slippage} :
                  frozen.floor * Bps >= output * (Bps - slippage)
    IN /\ frozen # NoTerms => kept(frozen.pool)
       /\ offered # NoTerms =>
              /\ kept(offered.pool) /\ offered.input = frozen.input
              /\ frozen.floor <= Output(offered.pool, b.side, frozen.input)
=============================================================================
