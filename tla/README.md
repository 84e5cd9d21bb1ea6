# QntySpot: a verification development

QntySpot is a single-operator spot trading program: policies bound how much
capital may be risked, cycles of buy and sell rungs turn policies into economic
intents, a SQLite ledger holds the capital of every intent from before anything
could happen outside the process until its outcome is known, and an execution
runtime takes intents to a blockchain with transactions that somebody else
signs. This directory models the parts of it in which order, concurrency and
failure matter, checks them with TLC and proves the core with TLAPS.

## The system

| component | state it keeps | operations | modelled in |
|---|---|---|---|
| spot ledger (`ledger/store.py`, `states.py`, `ledger/schema.py`) | policies, cycles, intents, reservations, receipts, event log | admit, open, close, continue, create, transition, append receipt, recover a halt | `SpotLedger`, `CapitalAccount` |
| restart recovery (`ledger/recovery.py`) | none but its plan in memory | `recover()` | `LedgerRecovery` |
| replay (`ledger/replay.py`, `execution_replay.py`) | rebuilds tables from the log | `replay_into`, `assert_replay_equivalence`, its execution form | `LedgerReplay`, `ExecutionReplay` |
| chain truth (`execution_contract.py`) | none; judges records | `evaluate_chain_truth` | `ChainTruth`, `ChainWatch` |
| execution runtime (`ledger/execution.py`) | sessions, envelopes, approvals, signed transactions, attempts, observations, reconciliations, operator controls, prepare records | reserve, envelope, approve, bundle, admit, submit, observe, reconcile, complete, resume, kill | `Execution`, `Preauth`, `RoundTrip` |
| schema upgrade (`ledger/execution_schema.py`) | the execution tables and their version | create, five migrations, check | `SchemaUpgrade` |
| authority root (`authority_root.py`, capability ladder of `execution_contract.py`) | the accepted grant, sessions, the kill switch | verify, require capability, accept, open a session | `Authority` |
| sell preparation (`ops/..._roundtrip_prepare_v0.py`) | prepare records, the sidecar file | find or resume, rehearse, record, carry, simulate, reserve, freeze, print | `PrepareSaga` |
| its driver (`ops/..._roundtrip_driver_v0.py`) | `state.json`, `grant.json` | load, preflight, commit a grant, prepare | `GrantDriver` |
| round trip program (`ops/..._roundtrip_execute_v0.py`) | the sell's and the revocation's guard files, the revocation's request | approve, sell, prepare a revocation, revoke | `RoundTrip` |
| ink terms and live reading (`ink.py`, `ink_v0f_*.py`, `prelive_economics.py`) | none; they ask two providers | quote, size, derive a preview, revalidate | `InkTerms`, `LiveReading` |
| operations (`operations.py`) | the lock, backups | acquire, close, inspect, back up, verify | `Operations` |

How they interact. The ledger, the runtime, recovery and the preparation share
one SQLite database. Each writing call of `SpotLedger` is one `BEGIN IMMEDIATE`
transaction (`store.py:127`), so calls of different connections interleave
whole. The runtime nests its ledger calls in transactions of its own, but a
single *call* of the runtime may use several transactions with a check of
authority before them and, in a submission, a network call between them.
Recovery is a loop of transactions that acts on one earlier reading. The
programs of an operator are sequences of the runtime's calls with files beside
the database and questions to two RPC providers between them. Anything may stop
between two transactions, and be started again, or twice.

### What is hard about it, and what correct means

- Ledger: capital held in four scopes under caps of several policies; an
  intent's capital must follow its lifecycle; fills come in parts; inventory is
  sized from stale readings and carried from cycle to cycle.
- Recovery: a stale plan, an exception or a crash in the middle of it. Nothing
  that may exist outside is freed; everything that was running ends.
- Replay: the log must tell what the tables hold, whatever the order of calls.
- Chain truth: lagging, late, contradictory and lying providers of a chain that
  reorganises. What is concluded must be so, and must not flip.
- Runtime: bytes cross to the network between two transactions; callers race
  each other, the kill switch, recovery and resumption. Capital stays held for
  what may have left; only what the chain finally did is accounted. Approvals
  and swaps share a wallet's nonces and are decided from stale readings.
- Preparation, driver, round trip: a dozen transactions, files and questions,
  made by runs that die, resume, overtake each other and keep the clock or the
  reading they started with. What is durable must suffice to resume, nothing may
  be printed or sent twice.
- Schema upgrade: steps that commit on their own, and a second process.
- Terms: rounding against limits, and readings of a moving chain.
- Operations: a lock told by two tables; two backups to one file.

`PROJECT.json` lists each hazard at its line with the properties that would
find it going wrong, or the reason there is none.

## The modules

`SpotLedger` has one variable per table: `admitted` (policies), `cycle`,
`carry` (the payload of a continuation's event), `state` and `bounds`
(intents), `resv` (budget_reservations), `receipts`, `recon` (the verdict in
reconciliations, which the ledger reads), and `seen`, the inventory a caller
has read. Each writing method is an action of its name: `AdmitPolicy`,
`OpenCycle`, `CloseCycle`, `ContinueInventoryIntoSuccessorCycle`,
`CreateIntent`, `Transition`, `AppendFillReceipt`, `RecoverSafeHalt`;
`ReadInventory` is the read an exit rung is sized from. A call that raises is an
action that is not enabled. `TRANSITIONS`, `TransitionAllowed` and
`ReservationEffect` are the lifecycle table, the evidence a transition demands
and its budget consequence.

`CapitalAccount` is what the ledger promises of capital without any of that:
orders of an account with a limit, whose capital is free, held, spent, frozen or
given back. `SpotLedger` implements it (`ImplementsAccount`) under the mapping
`HoldOf`, which reads the lifecycle and asks the reservation only whether it was
ever taken. The refinement contains the allocation limit as an invariant.

`LedgerReplay` puts the event log beside `SpotLedger`: each call appears again
with the events it appends, and `Applied` is what `replay_into` does with one.
Replaying a log is replaying what precedes its last events and then those, so
the module keeps what the replay has `rebuilt` so far instead of the log, which
needs no bound. `ExecutionReplay` does the same beside `Execution` and adds the
bindings `execution_replay.py` demands between execution rows and log.

`LedgerRecovery` extends `SpotLedger` with the process that recovers:
`RecoverRead` takes the snapshot and makes the plan, `RecoverStep` carries out
one action of it, `RecoverRaise` is the refused transition that ends the loop,
`RecoverReturn` its end, `Crash` a stop anywhere. `Worker` is any other
connection. `origin` says whether an action has a signed transaction or an
external reference.

`ChainTruth` has the operators of `evaluate_chain_truth`, clause by clause and
in its order. `ChainWatch` is where its evidence comes from: a chain that grows
(`Mine`) and is replaced (`Reorganise`), honest providers that report any past
moment of it, faulty ones that report anything, recorded in any order.

`Execution` extends `LedgerRecovery` and `ChainTruth` with the runtime. `Begin`
is `_authorize`, where the kill switch is read; each call's transaction is a
later action, so the switch may be engaged in between, and those calls that read
it again in their transaction do so here. `submit_exact_signed_bytes` is four
steps: the durable gate (`SubmitGate`), the look at earlier attempts
(`SubmitPrior`), the transport (`SubmitTransport`) and the record
(`RecordSubmissionAttempt`). `RecordChainObservation` and
`ReconcileExternalAction` include everything the code does in the transaction:
the verdict, the advance of the intent, the receipt, the recovery of a halted
one. `Resume` is `resume_quarantined_exact_signed_bytes`. `OtherProcess` is another
process recovering or recording an external reference. `Include`, `Deepen` and
`Reorganise` are the chain, `ReadingsOf` its providers, `crossed` the fact
nobody records: that the bytes left.

`Preauth` is the runtime before anything is signed. A bundle (`DeriveBundle`,
`DeriveNativeBuy`, `DeriveNativeSell`) reads outside its transaction and is
persisted (`PersistBundle`, ...) in one that checks part of it again
(`StillPermitted`); `RecordExecutionEnvelope` and `RecordApprovalAction` are the
single calls; `EnvelopeFits`, `ApprovalFits` and `NonceFree` are the unique
indexes and triggers; `AdmitSwap` and `AdmitApproval` admit signed bytes;
`GuardApproval` commits the attempt and `TransportApproval` sends it. `Release`
is the cancellation of an action. Its actions begin reserved (reserving is in
`Execution`, and so is the capital ceiling), `DRAFT` stands for every lifecycle
that is not `AUTHORIZED`, and the router is the spender of every approval.

`RoundTrip` extends `Execution` with the program that approves, sells and
revokes. A run is in a mode and at a place in it; between any two places it may
die (`Stop`), and it may be started again or beside another. What survives it
are the ledger, the files (`files`) and the wallet's chain (`wallet`, and
`Execution`'s `tx` for the sell), which includes transactions in the order of
their nonces, deepens, and replaces what is not yet final.

`Authority` has what permits an effect: `LADDER` and what the kill switch leaves
of it, grants (`Verifies`, `EffectiveLevel`, `RequireEffectiveCapability`), a
session's consistency with its record (`Authorize`), the high-water mark of
accepted grants (`Acceptable`: the method's rules and the table's trigger) and the
switch. It is a base without a next-state relation of its own.

`PrepareSaga` extends `SpotLedger` and `Authority` with the program that prepares
the native sale of a bought position. A run (`job`) holds the clock, the receipt,
the plan and the phase it last saw. `Load` resumes the one record there is or
goes on to `FindSource` (the walk over zero-effect leftovers), `Prospect` (the
rehearsal on a copy of the database) and `RecordPreparePlan`; then one action per
transaction, each followed by `AdvancePreparePhase` until the record has caught
up. `reserve_action` and the preauthorisation are two steps each, their
authorisation and their transaction. `CreateSidecar` and `WriteSidecar` are the
exclusive creation of the file and its content. `Die` is a process that stops or
a refusal: a check the model refuses leaves nothing else enabled. `RecordSigned`
and `RecoverCancels` are the operator's other programs.

At this commit the rehearsal never succeeds: its last check calls `sha256_hex`, a name
its module does not bind (`prepare_v0.py:707`; the import at 1180 is local to
`main`). `Prospect` therefore ends at `NAME_ERROR`, from which a run can only die,
unless the run is one of `Repaired`: those of a version that binds the name.
With `Repaired = {}` the module is the program as it is; what it can still do is
resume a plan that another version recorded before it died, and
`PrepareInit` has such tables as well as those without a plan (`PlanLeft`).

`SchemaUpgrade` is `apply_execution_schema` and its migrations, in the steps
that SQLite commits: where `conn.executescript` ends the transaction that was
open, the statements after it are steps of their own. `GrantDriver` is the
driver: every phase writes the run's own copy of the state over the file.
`Operations` has the lock's two halves, the in-process table and `flock`, taken
and dropped in the code's order, and the backup as it appears in the file system.

`InkTerms` has the pool's integer quote, its price impact, the search for the
largest input under the impact ceiling (one step of the loop at a time) and the
minimum output. `LiveReading` reads a market from two providers, question by
question (`AskHead`, `AskPool`, `AskAllowance`) while the chain moves, freezes a
preview and revalidates it. Units are scaled (tenths instead of basis points, a
fee of a tenth), as TLC's integers have 32 bits.

The theorems stand in modules of their own, one for each component, each over
the component's specification: `SpotLedgerProofs` (and in it the sums over finite
sets), `LedgerRecoveryProofs` on top of it, `ExecutionProofs` on top of that,
`ReplayProofs` and `RoundTripProofs` on top of `Execution`'s, `PreauthProofs`,
`PrepareProofs`, and `PartsProofs` for the parts that share no state with the
ledger. A part of `PartsProofs` has its own specification (`LockSpec`,
`BackupSpec`, `DriverSpec`, `SchemaSpec`, `SizingSpec`, `ReadingSpec`,
`WatchSpec`), and its theorem says nothing of what the other parts do meanwhile.

The `MC` modules give the constants their values. A definition named
`X_Something` is `X` with a plausible mistake, kept to show that a property would
notice it; it is not part of any specification.

## The runs

| run | what it shows | states |
|---|---|---|
| `ledger_capital` | two policies share an instrument and a network, a tighter third may be admitted at any moment; three intents reserve, fill in parts, end and halt in any order: types, caps, the account of capital as a refinement, out-of-bounds fills halt | 82 thousand |
| `recovery` | without the execution tables: crashes, stale plans, refused transitions, competing workers; includes the liveness property | 55 thousand |
| `execution_submission` | two callers, kill switch, deaths, one crash and recovery, resumption, with the log beside them; capital follows lifecycle, stays held for bytes that left, an attempt on record never happens afresh, recovery abandons nothing that has a transaction, and the replay accepts the log | 446 thousand |
| `execution_settlement` | two lagging providers, a block replaced by another, settlements within and outside bounds and reverts: only what is final is accounted, ambiguity is frozen | 2.3 million |
| `prepare` | two runs of the preparation in a version whose rehearsal can succeed, two moments, two grants of one epoch, a leftover of an older version, a plan left by another one, the kill switch and a recovery: the recorded phase stands for what is durable, nothing precedes its plan, requests are printed once, the accepted grant never rolls back | 635 thousand |
| `round_trip` | two runs of the round trip program in any mode over one wallet's chain: each transaction leaves once, the sale only on a final approval, a revocation at the next nonce only behind a final sale, no allowance is left by a completed trip | 582 thousand |
| `preauth` | bundles, single envelopes and approvals for a buy and a sell of one wallet, cancellations and the kill switch: no allowance is signed without its swap, no nonce is signed twice, an approval leaves once, nothing is authorised after the switch | 2.9 million |
| `parts` | lock, backups, driver, schema upgrade, sizing, live reading, chain watch, and the inventory of a ledger on its own: the instance gives them no state in common, so each behaviour lets one of them act. Of the inventory: a buy, two half exits sized from readings of any age, and a chain of two carries, with the event log beside them: conservation, whole carries, overselling only where a carry overtook a reading, and a replay that equals the tables at every commit | 480 thousand, 77 of them the inventory's |
| `restart_reference` (violation) | recovery releases the hold of an action whose external reference was recorded after its reading, against `recovery.py:100` | |
| `rehearsal` (violation) | in the program as it is, a run whose rehearsal accepts everything ends before it records the plan: `_prospective_prepare_plan` uses a name that is not bound (`prepare_v0.py:707`), against `prepare_v0.py:654` | |
| `sidecar` (violation) | the program as it is resumes a plan another version left, and a run that finds its own sidecar cannot go on: it calls a function that does not exist, against `prepare_v0.py:161` | |
| `schema_upgrade` (violation) | a process that dies in the migration to version 6 leaves the prepare table unguarded, and the next call stamps it, against `execution_schema.py:1203` and `:1208-1211` | |

`prepare` speaks of this commit too. A run that is not `Repaired` does what a repaired
one does that dies right after its rehearsal, so with fewer runs in `Repaired` the
behaviours, as far as the ledger and the file go, are fewer; what the run checks is
what the program has to keep once the import is there, and what it keeps already
when it resumes. The two violations are found with `Repaired = {}`: that of `rehearsal`
from an empty table of plans, that of `sidecar` from a plan left in it, since
without one no run gets as far as the sidecar.

`sidecar` has a second face: `RequestsPrintedOnce` holds because a run that finds
the file ends there. A repair that lets it go on would print the requests again,
and must then look for signatures again before it does: today that is looked up
only at the start.

`OpenStaysGuarded` in `parts` is the other side of `schema_upgrade`: the signed
transactions of a database that somebody has open stay append-only and bound to
their envelopes, whatever migrates beside it. The defect is confined to
`prepare_records`, whose guards no check asks for.

### Bounds, and why they suffice

- Sizes and caps are a few units: caps and floors are comparisons of sums, and a
  unit either fits or does not. The inventory in `parts` has two exits of a half
  sized from holdings of one and of two, so that rounding down matters.
- `ledger_capital` (`CapitalBound`) keeps opened cycles open, which no capital
  rule looks at, and leaves EXPIRED and REJECTED to CANCELLED, which they equal
  in every guard and effect there; `recovery` has neither bound.
  The inventory in `parts` (`InventoryBound`) has one intent at a time between ARMED
  and its end, one abandoned intent, and HALTED cycles left to COMPLETED ones, which
  they equal in every guard.
- `MaxCrashes` is 2 for recovery (a crash during the recovery of a crash) and 1
  or 0 with the runtime, where recovery is only one of the actors.
- `MaxObs`, `MaxHead`, `MaxForks`, `MaxVersions` bound the evidence. Four
  observations let each of two providers contradict itself; one reorganisation
  at a confirmation depth of one reaches both above and below that depth.
  `execution_submission` needs one observation (one provider must agree);
  `execution_settlement` and `round_trip` have three of two providers.
- `prepare` has two moments, which is what it takes for a policy or a clock to be
  out of date, and one plan for each pair of a moment and a receipt that can be
  used at it. What a run plans follows from these two and the price; two runs of
  one moment with different prices make different plans for one source, of which
  `RecordPreparePlan` refuses the second as it refuses any other.
- `preauth` bounds the rows with `MaxEnvelopes` and `MaxApprovals` = 2, one for
  each action or two that compete for one; one planner may have a derivation of
  any age in hand, and two submitters race for one approval.
- `parts`: three handles of two processes for the lock (two in one process,
  where the in-process table decides, one outside it), two copiers, two driver
  runs and two receipts, two processes upgrading from each old version. The
  sizing covers every pool, side, desired input and ceiling of small sets, where
  integer rounding is at its coarsest. The live reading has two heights and one
  replaced block, of which a lag of one provider and a stale pair both follow.
- Callers, providers and runs are interchangeable (symmetry); the runs that use
  symmetry check safety only.
- Deadlock is not checked: every bounded run ends, when all intents have.

### The clock

In `SpotLedger`, `LedgerRecovery`, `Execution`, `Preauth` and `RoundTrip`
deadlines and validity windows are not modelled. A guard that reads
`now_epoch_s` may hold or fail at any moment; here the call may always be
attempted, which adds behaviours and hides none of the safety violations. A
record whose identity contains the time of its making equals an earlier one only
when made within the same second; where that matters (`RevokePrepare`,
`ApprovalAdmit`) both cases are there. In `LiveReading` the age of a block is
counted in blocks, and a deadline may pass at any moment (`Expire`). In `Authority` and `PrepareSaga` the clock is a variable:
grants and policies expire, and a run reads it once and keeps what it read, as
the program does. Liveness is checked only of recovery, which reads no clock.

### Fairness

Only `LedgerRecovery` has it: weak fairness of `Recovery`. While its process
lives the loop of `recover()` goes on, and a restart whose recovery raised is
started again, as the operator's documents ask. With at most `MaxCrashes`
crashes, every intent that was running when the process stopped ends
(`RunningIntentsEnd`). No other part of the program has a loop of its own, so
nothing else can be said to happen eventually.

## What is proved

Every safety invariant, action property and refinement that a passing run checks
on a small instance is also a theorem, for every value of the constants that
satisfies their assumptions: any number of policies, cycles, actions, callers,
runs and providers, any amounts, no bound on time. The one exception is
`RunningIntentsEnd`, which is liveness. `PROJECT.json` lists the theorems; each
module starts from the inductive invariant that is named here, and proves that it
holds initially, that every action preserves it, and what follows from it.

**`SpotLedgerProofs`.** `CapitalFollowsLifecycle` is inductive with the type. A
transition is split by what `ReservationEffect` does on entering the state, using
that no edge of the lifecycle enters a holding state from a terminal one or
RESERVED from a holding one (`LifecycleEdges`); creating an intent changes its
exposure, and there the proof needs that an intent without a row has no
reservation. `OutOfBoundsFillIsHalted` is not inductive alone, as creating an
intent gives it new bounds; `BoundedFills` adds that no receipt precedes its
intent. What adds up sums rests on the lemmas at the top of the module: the sum
over a set is the sum of its parts, changes by what one member's value changes,
and is monotone. They are proved by induction over the subsets of a finite set, in
a form whose summand is a function and not an operator, and `HeldIsSum`,
`TotalsAreSums` and `CarriesAreSums` are the bridge to the models' own sums.
From them follow `CapsBindEveryReservation`; the refinement of `CapitalAccount`
(`HoldsTold` says that a hold that was told of an order is the reservation the
table has), step by step; `BaseConserved` and `CarryMovesEverything`, which also need
that a cycle never opened is untouched and that nothing is carried from nowhere.
`OnlyCarriedCyclesOversold` has a hypothesis, `BuyingLadders`: the exits of a
cycle are shares of what it holds that add up to no more than the whole, which
`policy.py:257-271` demands of a ladder. `SellsWithinShares` then bounds every exit
by its share of all the cycle ever held, whatever the age of its reading. The run
evaluates the hypothesis on its instance (`InventoryLadders`).

**`LedgerRecoveryProofs`.** `RecoveryTypeOK` says that what is to be done is
planned. `OriginFits` relates where an action's bytes may be to its lifecycle, so
that capital of a signed action is not in reach of an abandonment planned before
(`SignedCapitalNeverFreed`). `MovedHaveEnded` covers the recovery at work: what is
off its list has ended.

**`ExecutionProofs`.** Three layers. `ExecSound` has the types and the capital.
`ExecGood` adds where an action's records place it (`OriginPlaced`,
`AttemptsPlaced`), that a call past the durable gate found the bytes on record
(`SubmissionsSigned`), that signed bytes have their capital (`SignedIsReserved`),
and the chain (`ChainSound`: an honest reading was so once, and what was at the
confirmation depth once is so now). From these follow `CrossedIsHeld` and
`AttemptedNeverSignedAgain`. `ExecComplete` adds that a conclusion is what the chain
did, with the receipt it settled and the evidence it was drawn from
(`ConclusionsTrue`, `AccountedSettled`), whence `FilledMatchesChain` and
`AmbiguityIsFrozen`.

**`ReplayProofs`.** The equality of what a replay has rebuilt with the tables is
itself the invariant (`ReplaySound`); each call is matched with what its events
do. For the runtime (`ReplayExecSound`) it goes with `ExecComplete` and with the
bindings of envelopes, signed bytes and reverts to their events.

**`PreauthProofs`.** `OneWalletOneToken` (authorised approvals of one wallet and
token are one), `AdmittedBundled` (what was admitted was a bundle's, and its envelope
stays), `SentOnce` (a guard is followed by one transport), `NoncesApart` (the signed
transactions of a wallet differ in nonce).

**`RoundTripProofs`.** `SentOnce` has the same form for all three transactions: a
claim that can be made once leaves one run, and no other, about to hand over.
`NoncesInOrder`, `WalletLasts` and `ApprovalFirst` carry finality from one
transaction of the wallet to those before it; `SellConcluded` and
`CompletionSpent` say what a completed trip found.

**`PrepareProofs`.** `Done(n, c, k)` is what phase k of a plan stands for.
Records and runs are sound when the work of their phase, or of the place a run
is at, is done; `Kept` is what no step of anybody undoes, a cancellation by
recovery included, so a run stays sound while others work (`JobStays`). A record
needs in addition that its successor holds what was carried from its own source,
which takes `OneSourceEach`. `OneHolder` follows the file: who creates it
may print, and nobody else. With these, every step is a call of the ledger or leaves it
alone (`PrepareCallsLedger`); a run reads the inventory of a cycle that has a row
because phase 3 was done. The tables a preparation starts from satisfy the ledger's
inductive invariants (`LedgerSoundness`), so what the step lemmas of
`SpotLedgerProofs` keep, the preparation keeps: the capital, the conservation of
inventory, and that a carry leaves nothing behind. The theorems hold for every set of
`Repaired` runs, the empty one of this commit included, and from tables with a
plan that was left as well as without.

**`PartsProofs`.** `LockSound` (the path in memory is there for a handle that has the
kernel's lock, and one handle of all has it); `BackupSound` (what is whole was
written after every copy under way began); `DriverSound` (each copy of the state
names the linked grant or none); `SchemaSound`; `WatchSound` (records are of moments
that were, depth is kept), with a counting argument for honest providers among
those that must agree; the sizing, where the margin of an amount follows a surplus
that first grows and then falls (`MarginFollowsSurplus`), so that the room is an
interval (`RoomIsAnInterval`) and the search, which halves what it is between, ends
at its upper end; `ReadingSound` (what the trusted of two endpoints told was on the
chain at the height they name, and frozen terms keep their limits).

### The assumptions

They are named in the modules that declare the constants, and TLC evaluates each
on its instances. Beyond types: actions and cycles are finitely many
(`FiniteAssumption`); the runtime works on a database with the execution tables,
which it creates itself (`RuntimeAssumption`, `ledger/execution.py:286-303`); the
facts of an included transaction name a block and a status (`FactsAssumption`,
`execution_contract.py:1184-1193`); fewer providers are faulty than must agree
(`ProviderAssumption`), and one of two endpoints tells the truth
(`ReadingAssumption`), which is what the program trusts them for; slippages and
ceilings are between nothing and the whole, as `policy.py:113-114` and `318-319`
demand; a marker for a missing value is no session, plan or grant. `PrepareSaga`
assumes of a plan that it sells in the cycle it carries to and that its policy is
not one of those the position came by: the program names the policy after the
second in which it plans (`prepare_v0.py:592-612`). The first cycle's intents are
buys, and what an older version left in the next is a sell (`LegAssumption`).
`Repaired` is any set of runs (`RepairedAssumption`).

### What stays with TLC

Liveness (`RunningIntentsEnd`) and `ENABLED` (`SidecarKeepsNobody`,
`RehearsedIsRecorded`) are out of the prover's reach, and the four violations are
counterexamples. Every mutant that
TLC notices leaves the proof of its property with a step that fails.

Two models were corrected by their proofs. The plan of a preparation was recorded
for two sources if it had the same successor policy, which the table's
`UNIQUE` column refuses (`execution_schema.py:398`), and `PlanPrecedesEffects`
spoke of a plan where policy, cycle and sell belong to the policy's record.
`HoldOf` had cases that overlapped.

## What else the models showed

Disagreements of a comment or document with the code that no run is kept for:

- `execution.py:205-207` says of a resumable action that "the held bytes have
  provably never crossed the transport seam". The resumption looks for attempts on
  record; an action whose bytes left before the attempt was recorded is resumed too. The effect is harmless:
  the capital stays held and the same bytes go out with the same nonce
  (`CrossedIsHeld`, `AttemptedNeverSignedAgain`).
- `recovery.py:12-15` says of a RESERVED intent that nothing could have happened
  outside; the ledger takes receipts in RESERVED (`store.py:81`), and recovery
  then abandons an intent with a fill.
- `prepare_v0.py:240`: two runs can leave two prepare records on one carry chain.
  It takes a run that stalls until its own policy has expired and a second one
  that began before the first recorded its plan.
- `execute_v0.py:1290`: "Ambiguous/in-flight SELL truth is never allowed to race
  a revoke." A run of the revocation that began at the sell's own nonce, before there
  was a guard of the sell, hands it over beside a sell that began meanwhile; only
  the chain decides which of the two takes the nonce.

Consequences that are nobody's stated promise, worth knowing:

- Round trip. A run that dies between the reconciliation and the completion
  leaves RECONCILED; every rerun then raises in `_advance_to_chain_state`
  (`execution.py:3263`), and only a restart's recovery or a final revocation
  completes the intent, while a rerun that meets an RPC error halts it. A crash
  between the guard file and the transport leaves the sell observe-only and the
  revocation refused. The re-admission of an approval compares a time of
  freezing, so it matches only within the same second.
- Preauthorisation. Nothing ever moves an envelope's or an approval's lifecycle
  on, so after a cancellation its nonce and its (taker, token, spender) slot stay
  taken. `record_execution_envelope` does not compare the session with the one
  that reserved: such an envelope can never be used. The admission of an approval
  does not compare its nonce with those of authorised envelopes. An action may be
  cancelled after its approval was handed over. A bundle repeated with the same
  identities matches only with the same `created_at`.
- Schema. Databases of versions 2 to 5 as those versions made them, without
  `prepare_records`, are refused as partially applied; the migration from version
  1 fails, since the triggers it creates name that table; the one from 5 does its
  work and then raises on COMMIT. A stale reading can set the version back until
  the next call.
- Replay. Snapshot, policies and events are read by separate statements without a
  transaction, so another writer makes a divergence that is not there. Adding the
  execution tables to a ledger with fills makes the execution replay refuse it.
  `assert_execution_replay_equivalence` compares the execution rows only, the
  caps are not asked again, and the core replay of a ledger with releases after a
  submission diverges, by design. `LedgerReplay` takes one reading at
  a commit for granted.
- Driver. The preparation is given the receipt's path and not the snapshot. A run
  that was overtaken sets the phase back.
- Operations. An inspection's shared lock makes a concurrent `acquire` fail though
  nobody holds the lock. A second backup to the same file that fails removes the
  first one's verified file after it was reported; a crash leaves a partial file
  that blocks the next backup.
- Reading. Readings are addressed by block number and not by hash, so pool and
  allowance may be of different forks at one height, while
  `ink_v0f_preauth.py:3-5` speaks of the exact block of the pool's observation.
  The minimum output may exceed the output quoted at derivation; that is refused
  only at revalidation. Two reserved entries count each other as in flight and
  refuse each other.

## Not modelled

- `execution_contract.py` beyond what is listed: frozen records with validated
  fields and digests. `exact_signed_bytes.py`, `keccak.py`, `ink_v0f_signed_swap.py`
  and calldata: decoding and cryptography; that bytes match their scope is taken
  as admission's verdict. `identity.py`, `canon.py`: digests; identities are values.
- The accepted-intent intake: each step is a pure function of the files given.
- `robinhood.py`, `robinhood_chain_truth.py`, `solana.py`: read-only adapters of
  venues that no execution path uses. `raw_evidence.py` writes what was read.
- `economics.py`, `policy.py` and the break-even costs of `prelive_economics.py`
  beyond the roundings: arithmetic and validation of given values.
- Authority: signatures, issuance and the expired-recovery proof.
- Scripts and drivers of single experiments other than the preparation, its
  driver and the round trip. Reporting and redaction.

## The plan

1. *Done*: the ledger, its proofs and its abstract account; recovery; replay of
   both; chain truth; execution; preauthorisation; authority; the preparation, its
   driver and the round trip; schema upgrade; operations; terms and live reading.
2. *Done*: the proofs of every property but liveness.
3. *Done*: that the preparation's steps are calls of the ledger or leave it alone, and
   what the ledger's proofs then say of it. Recovery was proved the same way.
4. The expired-recovery proof of the authority root beside `RoundTrip`.
