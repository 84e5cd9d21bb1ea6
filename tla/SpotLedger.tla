----------------------------- MODULE SpotLedger -----------------------------
(***************************************************************************)
(* The spot ledger of qntyspot/ledger/store.py over the lifecycle table of *)
(* qntyspot/states.py: policies, cycles, economic intents, the capital     *)
(* each intent reserves, the fill receipts observed for it, and the base   *)
(* inventory a cycle derives from them.                                    *)
(*                                                                         *)
(* Every write of the class SpotLedger runs in one BEGIN IMMEDIATE         *)
(* transaction, so every action below is one such transaction: it commits  *)
(* whole or (an exception) leaves the database as it was.  A call the code *)
(* refuses is an action that is not enabled.                               *)
(*                                                                         *)
(* The clock is not modelled.  A guard that reads now_epoch_s (a policy    *)
(* that is current, a deadline) may hold or not at any moment; here the    *)
(* call may always be attempted, which only adds behaviours.               *)
(***************************************************************************)
EXTENDS Integers, FiniteSets, FiniteSetsExt, Functions

CONSTANTS
    Policies,           \* policies that may be admitted
    PolicyInfo,         \* [Policies -> PolicyRecord]: identity facts and budget
    Cycles,             \* cycle identities (policy_id:cycle_index)
    CycleInfo,          \* [Cycles -> [policy, index]]
    Actions,            \* economic action identities
    ActionInfo,         \* [Actions -> ActionRecord]: one rung of one cycle
    Refs,               \* external references a fill receipt may carry
    Amounts,            \* atomic amounts a receipt may report
    ExecutionSurface    \* TRUE when the B1 execution tables exist

VARIABLES
    admitted,           \* rows of policies
    cycle,              \* status of each cycle row, "NONE" without a row
    carry,              \* inventory_carry payload of each cycle's CYCLE_OPENED event
    state,              \* intents.state, "NONE" without a row
    bounds,             \* intents.bounds_json: maximum input, minimum output
    resv,               \* budget_reservations.status, "NONE" without a row
    receipts,           \* rows of fill_receipts
    recon,              \* reconciliations.verdict as the ledger reads it
    seen                \* the inventory_atomic value a caller last read per cycle

ledgerVars == <<admitted, cycle, carry, state, bounds, resv, receipts, recon, seen>>

-----------------------------------------------------------------------------
(* The lifecycle of states.py. *)

IntentState ==
    {"ARMED", "TRIGGERED", "QUOTE_PINNED", "SIMULATED", "RESERVED", "SIGNED",
     "SUBMITTED", "INCLUDED", "CONFIRMED", "RECONCILED", "FILLED",
     "CANCELLED", "EXPIRED", "REJECTED", "SAFE_HALT"}

TERMINAL_STATES == {"FILLED", "CANCELLED", "EXPIRED", "REJECTED", "SAFE_HALT"}
PRE_COMMITMENT_STATES == {"ARMED", "TRIGGERED", "QUOTE_PINNED", "SIMULATED", "RESERVED"}
EXTERNALLY_AMBIGUOUS_STATES == {"SIGNED", "SUBMITTED", "INCLUDED", "CONFIRMED"}
BUDGET_HOLDING_STATES == {"RESERVED", "RECONCILED"} \cup EXTERNALLY_AMBIGUOUS_STATES

Abandoned == {"CANCELLED", "EXPIRED", "REJECTED", "SAFE_HALT"}

TRANSITIONS ==
    [ARMED        |-> {"TRIGGERED"} \cup Abandoned,
     TRIGGERED    |-> {"QUOTE_PINNED"} \cup Abandoned,
     QUOTE_PINNED |-> {"SIMULATED"} \cup Abandoned,
     SIMULATED    |-> {"RESERVED"} \cup Abandoned,
     RESERVED     |-> {"SIGNED", "INCLUDED"} \cup Abandoned,
     SIGNED       |-> {"SUBMITTED", "REJECTED", "SAFE_HALT"},
     SUBMITTED    |-> {"INCLUDED", "REJECTED", "SAFE_HALT"},
     INCLUDED     |-> {"CONFIRMED", "REJECTED", "SAFE_HALT"},
     CONFIRMED    |-> {"RECONCILED", "SAFE_HALT"},
     RECONCILED   |-> {"FILLED", "SAFE_HALT"},
     FILLED |-> {}, CANCELLED |-> {}, EXPIRED |-> {}, REJECTED |-> {}, SAFE_HALT |-> {}]

(* store.py: endings that free capital, and states that accept a receipt. *)
RELEASING_STATES == {"CANCELLED", "EXPIRED", "REJECTED"}
RECEIPT_STATES ==
    {"RESERVED", "SUBMITTED", "INCLUDED", "CONFIRMED", "RECONCILED", "SAFE_HALT"}

ReservationStatus == {"ACTIVE", "COMMITTED", "RELEASED", "QUARANTINED"}
CycleStatus == {"OPEN", "COMPLETED", "HALTED"}

-----------------------------------------------------------------------------
(* What the constants are. *)

PolicyRecord ==
    [instrument: STRING, quote: STRING, network: STRING, maxCycles: Nat \ {0},
     allocation: Nat, perOrder: Nat, perInstrument: Nat, perNetwork: Nat,
     global: Nat, reservedCash: Nat]

\* An ENTRY rung spends a fixed size; an EXIT rung spends num/den of the
\* inventory.  floor is the minimum output per unit of input.
ActionRecord ==
    [cycle: Cycles, side: {"BUY", "SELL"}, kind: {"ENTRY", "EXIT"},
     size: Nat \ {0}, num: Nat, den: Nat \ {0}, floor: Nat \ {0}]

ASSUME PolicyAssumption == PolicyInfo \in [Policies -> PolicyRecord]
ASSUME CycleAssumption ==
    /\ CycleInfo \in [Cycles -> [policy: Policies, index: Nat]]
    /\ "none" \notin Cycles
ASSUME ActionAssumption == ActionInfo \in [Actions -> ActionRecord]
ASSUME FiniteAssumption == IsFiniteSet(Actions) /\ IsFiniteSet(Cycles)
ASSUME AmountsAssumption == Amounts \subseteq Nat \ {0}
ASSUME SurfaceAssumption == ExecutionSurface \in BOOLEAN

CycleOf(a) == ActionInfo[a].cycle
PolicyOf(a) == CycleInfo[CycleOf(a)].policy
Instrument(p) == PolicyInfo[p].instrument
Network(p) == PolicyInfo[p].network

\* The sells of a cycle are exit rungs, and the shares of its inventory they sell
\* come to no more than one: num/den is share/whole for every one of them.  It is
\* what parse_policy admits of a policy that enters by buying.
SellsOf(c) == {a \in Actions : CycleOf(a) = c /\ ActionInfo[a].side = "SELL"}
SellsAreShares(whole, share) ==
    /\ \A c \in Cycles, a \in Actions :
          a \in SellsOf(c) => /\ ActionInfo[a].kind = "EXIT"
                             /\ share[a] * ActionInfo[a].den = whole * ActionInfo[a].num
    /\ \A c \in Cycles : MapThenSumSet(LAMBDA a : share[a], SellsOf(c)) <= whole

NoCarry == [from |-> "none", amount |-> 0]
NoBounds == [maxInput |-> 0, minOutput |-> 0]

ReceiptRow == [ref: Refs, action: Actions, input: Amounts, output: Amounts]

-----------------------------------------------------------------------------
(* What the ledger derives from its rows. *)

\* Quote capital an intent puts at risk: a SELL returns quote and risks none.
Exposure(a) == IF ActionInfo[a].side = "BUY" THEN bounds[a].maxInput ELSE 0

\* The mutant counts open reservations only, not spent or quarantined capital.
HeldBy_OpenOnly(a) == IF resv[a] = "ACTIVE" THEN Exposure(a) ELSE 0

\* Held by an intent's reservation.  Everything except RELEASED counts.
HeldBy(a) == IF resv[a] \in {"NONE", "RELEASED"} THEN 0 ELSE Exposure(a)

HeldIn(S) == MapThenSumSet(HeldBy, S)
HeldByPolicy(p) == HeldIn({a \in Actions : PolicyOf(a) = p})
HeldOnInstrument(i) == HeldIn({a \in Actions : Instrument(PolicyOf(a)) = i})
HeldOnNetwork(n) == HeldIn({a \in Actions : Network(PolicyOf(a)) = n})
HeldGlobally == HeldIn(Actions)

\* The caps a policy puts on the portfolio: its own instrument's and network's
\* cap, and its global cap net of reserved cash (never below zero).
GlobalLimit(p) ==
    IF PolicyInfo[p].global >= PolicyInfo[p].reservedCash
    THEN PolicyInfo[p].global - PolicyInfo[p].reservedCash ELSE 0

\* The mutant reads the caps of the intent's own policy only.
WithinCaps_OwnPolicyOnly(a) ==
    LET p == PolicyOf(a)
        amount == Exposure(a)
    IN /\ amount <= PolicyInfo[p].perOrder
       /\ amount + HeldByPolicy(p) <= PolicyInfo[p].allocation
       /\ amount + HeldOnInstrument(Instrument(p)) <= PolicyInfo[p].perInstrument
       /\ amount + HeldOnNetwork(Network(p)) <= PolicyInfo[p].perNetwork
       /\ amount + HeldGlobally <= GlobalLimit(p)

\* The guard of the one INSERT ... WHERE that takes budget.
WithinCaps(a) ==
    LET p == PolicyOf(a)
        amount == Exposure(a)
    IN /\ amount <= PolicyInfo[p].perOrder
       /\ amount + HeldByPolicy(p) <= PolicyInfo[p].allocation
       /\ \A q \in admitted :
            /\ Instrument(q) = Instrument(p) =>
                 amount + HeldOnInstrument(Instrument(p)) <= PolicyInfo[q].perInstrument
            /\ Network(q) = Network(p) =>
                 amount + HeldOnNetwork(Network(p)) <= PolicyInfo[q].perNetwork
            /\ amount + HeldGlobally <= GlobalLimit(q)

ReceiptsOf(a) == {r \in receipts : r.action = a}
InputOf(r) == r.input
OutputOf(r) == r.output
TotalIn(rows) == MapThenSumSet(InputOf, rows)
TotalOut(rows) == MapThenSumSet(OutputOf, rows)
CeilDiv(n, d) == (n + d - 1) \div d

\* The cumulative fill of an intent against its committed bounds: never more
\* input than the maximum, and an output floor pro rata to the input, rounded up.
RowsWithinBounds(rows, b) ==
    /\ TotalIn(rows) <= b.maxInput
    /\ TotalOut(rows) >= CeilDiv(b.minOutput * TotalIn(rows), b.maxInput)

HasSettledReceipt(a) == recon[a] = "SETTLED" /\ ReceiptsOf(a) # {}
HasBoundReverted(a) == recon[a] = "REVERTED"

\* Base units moved in and out of a cycle.  Only FILLED intents move inventory.
FilledIn(c, side) ==
    {a \in Actions : CycleOf(a) = c /\ ActionInfo[a].side = side /\ state[a] = "FILLED"}
BaseAcquired(c) == TotalOut({r \in receipts : r.action \in FilledIn(c, "BUY")})
BaseDisposed(c) == TotalIn({r \in receipts : r.action \in FilledIn(c, "SELL")})

CarriedFrom(c) == {d \in Cycles : carry[d].from = c}
CarryAmount(c) == carry[c].amount
CarriedOut(c) == MapThenSumSet(CarryAmount, CarriedFrom(c))

\* The mutant forgets that carried inventory has left its source.
Inventory_KeepsCarried(c) == CarryAmount(c) + BaseAcquired(c) - BaseDisposed(c)

Inventory(c) == CarryAmount(c) + BaseAcquired(c) - BaseDisposed(c) - CarriedOut(c)

-----------------------------------------------------------------------------
(* Admission. *)

\* A portfolio has one quote instrument.  Re-admitting a policy is a no-op.
AdmitPolicy(p) ==
    /\ \A q \in admitted : PolicyInfo[q].quote = PolicyInfo[p].quote
    /\ p \notin admitted
    /\ admitted' = admitted \cup {p}
    /\ UNCHANGED <<cycle, carry, state, bounds, resv, receipts, recon, seen>>

-----------------------------------------------------------------------------
(* Cycles. *)

OpenCycle(c) ==
    /\ CycleInfo[c].policy \in admitted
    /\ CycleInfo[c].index < PolicyInfo[CycleInfo[c].policy].maxCycles
    /\ cycle[c] = "NONE"
    /\ cycle' = [cycle EXCEPT ![c] = "OPEN"]
    /\ UNCHANGED <<admitted, carry, state, bounds, resv, receipts, recon, seen>>

\* Closing looks only at the cycle's own status, never at its intents.
CloseCycle(c, status) ==
    /\ cycle[c] = "OPEN"
    /\ status \in {"COMPLETED", "HALTED"}
    /\ cycle' = [cycle EXCEPT ![c] = status]
    /\ UNCHANGED <<admitted, carry, state, bounds, resv, receipts, recon, seen>>

\* Every intent of the cycle has ended, and none of them ambiguously.
IntentsSettled(c) ==
    \A a \in Actions :
        CycleOf(a) = c /\ state[a] # "NONE" => state[a] \in TERMINAL_STATES \ {"SAFE_HALT"}

SameAsset(p, q) ==
    /\ Instrument(p) = Instrument(q)
    /\ Network(p) = Network(q)
    /\ PolicyInfo[p].quote = PolicyInfo[q].quote

\* Completes the source cycle and opens the successor with its inventory.
ContinueGuard(c, d) ==
    /\ CycleInfo[d].policy \in admitted
    /\ CycleInfo[d].index < PolicyInfo[CycleInfo[d].policy].maxCycles
    /\ cycle[c] = "OPEN"
    /\ d # c
    /\ SameAsset(CycleInfo[c].policy, CycleInfo[d].policy)
    /\ cycle[d] = "NONE"
    /\ IntentsSettled(c)
    /\ CarriedFrom(c) = {}
    /\ Inventory(c) \in Nat \ {0}

\* The mutant carries what the source traded and drops what it was carried.
ContinueInventory_TradedOnly(c, d) ==
    /\ ContinueGuard(c, d)
    /\ cycle' = [cycle EXCEPT ![c] = "COMPLETED", ![d] = "OPEN"]
    /\ carry' = [carry EXCEPT ![d] = [from |-> c, amount |-> BaseAcquired(c) - BaseDisposed(c)]]
    /\ UNCHANGED <<admitted, state, bounds, resv, receipts, recon, seen>>

ContinueInventoryIntoSuccessorCycle(c, d) ==
    /\ ContinueGuard(c, d)
    /\ cycle' = [cycle EXCEPT ![c] = "COMPLETED", ![d] = "OPEN"]
    /\ carry' = [carry EXCEPT ![d] = [from |-> c, amount |-> Inventory(c)]]
    /\ UNCHANGED <<admitted, state, bounds, resv, receipts, recon, seen>>

-----------------------------------------------------------------------------
(* Intents. *)

\* A caller reads the inventory an exit rung is sized from.  The read and the
\* create_intent that uses it are separate calls.  No rung can be sized from a
\* negative reading, so it leaves the earlier one to whoever still has it.
ReadInventory(c) ==
    /\ cycle[c] # "NONE"
    /\ Inventory(c) \in Nat \ {seen[c]}
    /\ seen' = [seen EXCEPT ![c] = Inventory(c)]
    /\ UNCHANGED <<admitted, cycle, carry, state, bounds, resv, receipts, recon>>

\* The mutant rounds an exit rung's share up.
InputSize_RoundsUp(a) ==
    LET i == ActionInfo[a]
    IN IF i.kind = "ENTRY" THEN i.size ELSE CeilDiv(seen[i.cycle] * i.num, i.den)

\* build_intent: an entry rung has a fixed size, an exit rung a share of the
\* inventory the caller read, rounded down.
InputSize(a) ==
    LET i == ActionInfo[a]
    IN IF i.kind = "ENTRY" THEN i.size ELSE (seen[i.cycle] * i.num) \div i.den

\* create_intent needs the cycle's row and a fresh identity.  It does not ask
\* whether the cycle is still open.
CreateIntent(a) ==
    /\ cycle[CycleOf(a)] # "NONE"
    /\ state[a] = "NONE"
    /\ InputSize(a) > 0
    /\ ActionInfo[a].side = "BUY" => InputSize(a) <= PolicyInfo[PolicyOf(a)].perOrder
    /\ state' = [state EXCEPT ![a] = "ARMED"]
    /\ bounds' = [bounds EXCEPT ![a] =
           [maxInput |-> InputSize(a), minOutput |-> InputSize(a) * ActionInfo[a].floor]]
    /\ UNCHANGED <<admitted, cycle, carry, resv, receipts, recon, seen>>

\* The mutant writes the intent's state where the reservation's status belongs.
Reserve_WritesState(a) ==
    IF Exposure(a) = 0
    THEN UNCHANGED resv
    ELSE /\ resv[a] = "NONE"
         /\ WithinCaps(a)
         /\ resv' = [resv EXCEPT ![a] = "RESERVED"]

\* Takes the reservation when the caps allow it; a zero exposure takes none.
Reserve(a) ==
    IF Exposure(a) = 0
    THEN UNCHANGED resv
    ELSE /\ resv[a] = "NONE"
         /\ WithinCaps(a)
         /\ resv' = [resv EXCEPT ![a] = "ACTIVE"]

\* The mutant frees the capital of a halted action.
SettleReservation_FreesHalted(a, status) ==
    IF resv[a] = "ACTIVE"
    THEN resv' = [resv EXCEPT ![a] = IF status = "QUARANTINED" THEN "RELEASED" ELSE status]
    ELSE UNCHANGED resv

\* Only an ACTIVE reservation is ever settled.
SettleReservation(a, status) ==
    IF resv[a] = "ACTIVE" THEN resv' = [resv EXCEPT ![a] = status] ELSE UNCHANGED resv

\* The mutant lets a signed action be rejected without a reverted outcome.
TransitionAllowed_RejectsUnproven(a, to) ==
    /\ state[a] # "NONE"
    /\ to \in TRANSITIONS[state[a]]
    /\ to \in {"RECONCILED", "FILLED"} /\ ExecutionSurface => HasSettledReceipt(a)

\* What transition() demands before it moves an intent to a state: a legal
\* edge, and recorded evidence where the state asserts an outcome.
TransitionAllowed(a, to) ==
    /\ state[a] # "NONE"
    /\ to \in TRANSITIONS[state[a]]
    /\ to \in {"RECONCILED", "FILLED"} /\ ExecutionSurface => HasSettledReceipt(a)
    /\ to \in RELEASING_STATES /\ state[a] \in EXTERNALLY_AMBIGUOUS_STATES =>
         ExecutionSurface /\ HasBoundReverted(a)

\* The budget consequence of entering a state.
ReservationEffect(a, to) ==
    \/ to = "RESERVED" /\ Reserve(a)
    \/ to = "FILLED" /\ SettleReservation(a, "COMMITTED")
    \/ to \in RELEASING_STATES /\ SettleReservation(a, "RELEASED")
    \/ to = "SAFE_HALT" /\ SettleReservation(a, "QUARANTINED")
    \/ to \notin {"RESERVED", "FILLED", "SAFE_HALT"} \cup RELEASING_STATES /\ UNCHANGED resv

\* The write of transition(): the state and its budget consequence together.
MoveIntent(a, to) ==
    /\ TransitionAllowed(a, to)
    /\ ReservationEffect(a, to)
    /\ state' = [state EXCEPT ![a] = to]

Transition(a, to) ==
    /\ MoveIntent(a, to)
    /\ UNCHANGED <<admitted, cycle, carry, bounds, receipts, recon, seen>>

\* recover_safe_halt_from_terminal_chain_truth, its reconciliation on record.
RecoverSafeHalt(a, to) ==
    /\ state[a] = "SAFE_HALT"
    /\ resv[a] = IF Exposure(a) = 0 THEN "NONE" ELSE "QUARANTINED"
    /\ state' = [state EXCEPT ![a] = to]
    /\ resv' = [resv EXCEPT ![a] =
           IF Exposure(a) = 0 THEN @ ELSE IF to = "RECONCILED" THEN "ACTIVE" ELSE "RELEASED"]

-----------------------------------------------------------------------------
(* Receipts. *)

\* The mutant checks each receipt alone instead of the cumulative fill.
ReceiptStateEffect_EachAlone(a, row) ==
    IF state[a] # "SAFE_HALT" /\ ~RowsWithinBounds({row}, bounds[a])
    THEN /\ SettleReservation(a, "QUARANTINED")
         /\ state' = [state EXCEPT ![a] = "SAFE_HALT"]
    ELSE UNCHANGED <<state, resv>>

\* A fill outside the committed bounds halts the intent in the same transaction.
ReceiptStateEffect(a, row) ==
    IF state[a] # "SAFE_HALT" /\ ~RowsWithinBounds(ReceiptsOf(a) \cup {row}, bounds[a])
    THEN /\ SettleReservation(a, "QUARANTINED")
         /\ state' = [state EXCEPT ![a] = "SAFE_HALT"]
    ELSE UNCHANGED <<state, resv>>

\* _append_fill_receipt_in_transaction: never refused for disagreeing with the
\* bounds, refused for a reference already used or a state no fill belongs to.
InsertReceipt(row) ==
    /\ state[row.action] \in RECEIPT_STATES
    /\ \A r \in receipts : r.ref # row.ref
    /\ receipts' = receipts \cup {row}
    /\ ReceiptStateEffect(row.action, row)

\* append_fill_receipt: the V0A door, shut once the execution tables exist.
AppendFillReceipt(row) ==
    /\ ~ExecutionSurface
    /\ InsertReceipt(row)
    /\ UNCHANGED <<admitted, cycle, carry, bounds, recon, seen>>

-----------------------------------------------------------------------------
(* The ledger on its own: any caller, on any connection, one call at a time. *)

LedgerInit ==
    /\ admitted = {}
    /\ cycle = [c \in Cycles |-> "NONE"]
    /\ carry = [c \in Cycles |-> NoCarry]
    /\ state = [a \in Actions |-> "NONE"]
    /\ bounds = [a \in Actions |-> NoBounds]
    /\ resv = [a \in Actions |-> "NONE"]
    /\ receipts = {}
    /\ recon = [a \in Actions |-> "NONE"]
    /\ seen = [c \in Cycles |-> 0]

LedgerNext ==
    \/ \E p \in Policies : AdmitPolicy(p)
    \/ \E c \in Cycles : OpenCycle(c) \/ ReadInventory(c)
    \/ \E c \in Cycles, status \in CycleStatus : CloseCycle(c, status)
    \/ \E c, d \in Cycles : ContinueInventoryIntoSuccessorCycle(c, d)
    \/ \E a \in Actions : CreateIntent(a)
    \/ \E a \in Actions, to \in IntentState : Transition(a, to)
    \/ \E row \in ReceiptRow : AppendFillReceipt(row)

LedgerSpec == LedgerInit /\ [][LedgerNext]_ledgerVars

-----------------------------------------------------------------------------
(* Properties. *)

\* Every table holds rows of its own type.
TypeOK ==
    /\ admitted \subseteq Policies
    /\ cycle \in [Cycles -> CycleStatus \cup {"NONE"}]
    /\ carry \in [Cycles -> [from: Cycles \cup {"none"}, amount: Nat]]
    /\ state \in [Actions -> IntentState \cup {"NONE"}]
    /\ bounds \in [Actions -> [maxInput: Nat, minOutput: Nat]]
    /\ resv \in [Actions -> ReservationStatus \cup {"NONE"}]
    /\ receipts \subseteq ReceiptRow
    /\ recon \in [Actions -> {"NONE", "SETTLED", "REVERTED", "AMBIGUOUS"}]
    /\ seen \in [Cycles -> Nat]

\* The capital of an intent is what its lifecycle says it is, at every commit:
\* active exactly while the action may still happen, spent exactly when it is
\* filled, frozen only while its outcome is unknown, free only after an ending
\* that frees it, and never taken by a sale.  It is what integrity_check()
\* (store.py) asserts of the rows, and more: a holding intent never lacks its
\* reservation.
CapitalFollowsLifecycle ==
    \A a \in Actions :
        IF Exposure(a) = 0
        THEN resv[a] = "NONE"
        ELSE /\ resv[a] = "ACTIVE" <=> state[a] \in BUDGET_HOLDING_STATES
             /\ resv[a] = "COMMITTED" <=> state[a] = "FILLED"
             /\ resv[a] = "QUARANTINED" => state[a] = "SAFE_HALT"
             /\ resv[a] = "RELEASED" => state[a] \in RELEASING_STATES

\* Whenever the capital held in some scope grows, it ends within the tightest cap
\* that any policy admitted at that moment puts on the scope.  (A policy admitted
\* later may be tighter than what is already held; it only blocks new holds.)
CapsBindEveryReservation ==
    [][\A q \in admitted :
         /\ HeldOnInstrument(Instrument(q))' > HeldOnInstrument(Instrument(q)) =>
              HeldOnInstrument(Instrument(q))' <= PolicyInfo[q].perInstrument
         /\ HeldOnNetwork(Network(q))' > HeldOnNetwork(Network(q)) =>
              HeldOnNetwork(Network(q))' <= PolicyInfo[q].perNetwork
         /\ HeldGlobally' > HeldGlobally =>
              HeldGlobally' <= PolicyInfo[q].global - PolicyInfo[q].reservedCash]_ledgerVars

\* An intent whose receipts together fall outside its committed bounds is halted:
\* a second partial fill cannot slip past the bound the first one respected, and
\* no later step brings such an intent back.
OutOfBoundsFillIsHalted ==
    \A a \in Actions :
        ReceiptsOf(a) # {} /\ ~RowsWithinBounds(ReceiptsOf(a), bounds[a]) =>
            state[a] = "SAFE_HALT"

\* Base inventory is neither created nor lost by moving it between cycles: what
\* the cycles hold together is what filled buys acquired less what filled sells
\* disposed of.
BaseConserved ==
    MapThenSumSet(Inventory, Cycles) =
        TotalOut({r \in receipts : state[r.action] = "FILLED" /\ ActionInfo[r.action].side = "BUY"})
      - TotalIn({r \in receipts : state[r.action] = "FILLED" /\ ActionInfo[r.action].side = "SELL"})

\* A continuation moves all of the source's inventory, including what the source
\* had itself been carried, and leaves none behind.
CarryMovesEverything ==
    [][\A c, d \in Cycles :
         carry'[d] # carry[d] /\ carry'[d].from = c =>
             Inventory(d)' = Inventory(c) /\ Inventory(c)' = 0]_ledgerVars

\* The exit rungs of a cycle never sell more than the cycle holds, even when two
\* of them are sized from the same reading, as long as the cycle's inventory has
\* not been carried away (an exit sized before the carry may still be created
\* after it: create_intent does not ask whether the cycle is open).
OnlyCarriedCyclesOversold ==
    \A c \in Cycles : Inventory(c) < 0 => CarriedFrom(c) # {}

-----------------------------------------------------------------------------
(* The account of capital that the ledger implements. *)

\* What an intent's capital is, read from the lifecycle; the reservation's row
\* only tells the endings apart that came before it took any.
HoldOf(a) ==
    IF Exposure(a) = 0 THEN "FREE"
    ELSE CASE state[a] \in BUDGET_HOLDING_STATES -> "HELD"
           [] state[a] = "FILLED" -> "SPENT"
           [] state[a] = "SAFE_HALT" /\ resv[a] # "NONE" -> "FROZEN"
           [] state[a] \in RELEASING_STATES /\ resv[a] # "NONE" -> "RETURNED"
           [] OTHER -> "FREE"

Allocation(p) == PolicyInfo[p].allocation

Account ==
    INSTANCE CapitalAccount WITH
        Orders <- Actions, AccountOf <- PolicyOf, LimitOf <- Allocation,
        size <- [a \in Actions |-> Exposure(a)],
        hold <- [a \in Actions |-> HoldOf(a)]

\* Every step of the ledger is a step of the account, or none: whatever else a
\* call writes, capital is taken once, within the allocation, and leaves a holding
\* state only as spent, frozen or given back (store.py _reserve, _settle_reservation).
ImplementsAccount == Account!AccountSpec
=============================================================================
