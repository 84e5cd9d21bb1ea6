------------------------------- MODULE MCParts -------------------------------
(***************************************************************************)
(* The parts of the program that share no state, checked side by side in   *)
(* one run: the process lock and its inspections, the backups, the driver  *)
(* of the preparation, the upgrade of the schema, the sizing of a swap,    *)
(* the live reading of its terms, the judgement of what providers report   *)
(* of a transaction, and the inventory of a ledger on its own, with its    *)
(* log.  The instance lets one of them act in each behaviour; the others   *)
(* stay as they began.                                                     *)
(***************************************************************************)
EXTENDS Operations, GrantDriver, SchemaUpgrade, LiveReading, ChainWatch, LedgerReplay, TLC

CONSTANTS d1, d2, h1, h2, h3, i1, i2, x, z, p1, p2, c1, c2, c3, a1, a2, a3, a4

VARIABLE acting         \* the part that this behaviour is about

\* Two handles in one process and one in another; each process also inspects.
HandleHomes == (h1 :> d1) @@ (h2 :> d1) @@ (h3 :> d2)
ReporterSeats == (i1 :> d1) @@ (i2 :> d2)

\* In tenths instead of basis points, with a fee of one tenth.  The BUY is
\* narrowed in the shallow pool and whole in the deep one.
MCEndpoints == <<x, z>>
MCMarket == [base : {60}, quote : {20, 40}]
MCIntents == {[side |-> "BUY", maxInput |-> 12, minOutput |-> 7, impact |-> 5, slippage |-> 2],
              [side |-> "BUY", maxInput |-> 12, minOutput |-> 25, impact |-> 5, slippage |-> 2],
              [side |-> "SELL", maxInput |-> 9, minOutput |-> 4, impact |-> 5, slippage |-> 1]}
MCRisk == [impact |-> 5, slippage |-> 2, maxEntry |-> 12, maxCumulative |-> 20,
           maxOpen |-> 1, maxInFlight |-> 1]
MCFacts == [held : {12}, openPositions : {0}, inFlight : {0, 1}, inventory : {9}]

\* A cycle buys, its exit rungs sell shares of what it holds, and what is left is
\* carried to a successor, which may carry it again.
AmpleBudget ==
    [instrument |-> "X", quote |-> "USD", network |-> "ink", maxCycles |-> 2, allocation |-> 9,
     perOrder |-> 2, perInstrument |-> 9, perNetwork |-> 9, global |-> 9, reservedCash |-> 0]
Entry(c, n) ==
    [cycle |-> c, side |-> "BUY", kind |-> "ENTRY", size |-> n, num |-> 0, den |-> 1, floor |-> 1]
Exit(c, n, d) ==
    [cycle |-> c, side |-> "SELL", kind |-> "EXIT", size |-> 1, num |-> n, den |-> d, floor |-> 1]

MCPolicyInfo == [p \in {p1, p2} |-> AmpleBudget]
MCCycleInfo ==
    (c1 :> [policy |-> p1, index |-> 0]) @@ (c2 :> [policy |-> p1, index |-> 1])
 @@ (c3 :> [policy |-> p2, index |-> 0])
MCActionInfo ==
    (a1 :> Entry(c1, 2)) @@ (a2 :> Exit(c1, 1, 2)) @@ (a3 :> Exit(c1, 1, 2)) @@ (a4 :> Exit(c2, 1, 1))

\* The two halves of c1 and the whole of c2 are ladders the code admits.
ASSUME InventoryLadders == \E share \in [Actions -> 0..2] : SellsAreShares(2, share)

RefSymmetry == Permutations(Refs)

\* Bound: one intent at a time is between ARMED and its end, one at most ends
\* unfilled, and EXPIRED and REJECTED are left to CANCELLED, which they equal in
\* every guard and effect as long as no execution surface exists.
OneInFlight ==
    Cardinality({a \in Actions :
        state[a] \notin {"NONE", "ARMED"} \cup TERMINAL_STATES}) <= 1
OneAbandoned == Cardinality({a \in Actions : state[a] \in Abandoned}) <= 1
EndByCancelling == \A a \in Actions : state[a] \notin {"EXPIRED", "REJECTED"}

\* Bound: HALTED is left to COMPLETED, which it equals in every guard; and the last
\* cycle of the chain, which has no exit rung, is not read.
FewCycleStates == \A c \in Cycles : cycle[c] # "HALTED" /\ seen[c3] = 0

InventoryBound == OneInFlight /\ OneAbandoned /\ EndByCancelling /\ FewCycleStates

bookVars == <<ledgerVars, replayVars>>
hostVars == <<lockVars, backupVars, driverVars, schemaVars>>
partVars == <<hostVars, readingVars, watchVars, bookVars, acting>>

FirstCase == CHOOSE c \in Case : TRUE
Unsized == [pool |-> FirstCase.pool, side |-> FirstCase.side, desired |-> FirstCase.desired,
            ceiling |-> FirstCase.ceiling, step |-> "DESIRED", lo |-> 0, hi |-> 0, selected |-> 0]

PartsInit ==
    /\ acting \in {"LOCK", "BACKUP", "DRIVER", "SCHEMA", "SIZING", "READING", "WATCH", "LEDGER"}
    /\ LockInit /\ BackupInit /\ DriverInit /\ SchemaInit /\ ReadingInit /\ WatchInit
    /\ ReplayInit
    /\ IF acting = "SIZING" THEN SizingInit ELSE sizing = Unsized
    /\ acting # "SCHEMA" => Empty
    /\ acting # "LOCK" => ~present
    /\ acting # "READING" => blocks = CHOOSE c \in {<<[pool |-> p, allowance |-> 0]>> : p \in Market} : TRUE

OtherNext ==
    \/ acting = "LOCK" /\ LockNext /\ UNCHANGED <<driverVars, schemaVars, readingVars, watchVars>>
    \/ acting = "BACKUP" /\ BackupNext
       /\ UNCHANGED <<driverVars, schemaVars, readingVars, watchVars>>
    \/ acting = "DRIVER" /\ DriverNext
       /\ UNCHANGED <<lockVars, backupVars, schemaVars, readingVars, watchVars>>
    \/ acting = "SCHEMA" /\ SchemaNext
       /\ UNCHANGED <<lockVars, backupVars, driverVars, readingVars, watchVars>>
    \/ acting = "SIZING" /\ SizingNext
       /\ UNCHANGED <<hostVars, blockVars, job, frozen, offered, watchVars>>
    \/ acting = "READING" /\ ReadingNext /\ UNCHANGED <<hostVars, watchVars>>
    \/ acting = "WATCH" /\ WatchNext /\ UNCHANGED <<hostVars, readingVars>>

PartsNext ==
    /\ UNCHANGED acting
    /\ \/ acting = "LEDGER" /\ ReplayNext /\ UNCHANGED <<hostVars, readingVars, watchVars>>
       \/ UNCHANGED bookVars /\ OtherNext

PartsSpec == PartsInit /\ [][PartsNext]_partVars
=============================================================================
