----------------------------- MODULE PrepareSaga -----------------------------
(***************************************************************************)
(* The resumable preparation of the native sell of a position that was     *)
(* bought (ops/ink_v0f_native_sell_roundtrip_prepare_v0.py): one immutable *)
(* plan is made durable, and then, each in a transaction of its own, the   *)
(* successor policy is admitted, the inventory carried into its cycle, the *)
(* exit intent created and simulated, the authority and the session        *)
(* recorded, the intent reserved, the approval and envelope frozen, the    *)
(* sidecar file written and the signing requests printed.  After each part *)
(* the plan's record advances by a phase.                                  *)
(*                                                                         *)
(* An operator starts a run of the program whenever he likes, beside       *)
(* another or after one that died; a run reads the clock once, when it     *)
(* starts.  What a run refuses is a step that is not enabled: then it can  *)
(* only die, as it may at any other moment, on any check against the       *)
(* chain's state, which is not modelled.                                   *)
(*                                                                         *)
(* At this commit a run that has no plan to resume always ends before it   *)
(* records one: _prospective_prepare_plan uses sha256_hex, which is bound  *)
(* nowhere in its module (line 707).  A plan there is was left by another  *)
(* version, and this one resumes it.  Repaired are the runs of a version   *)
(* that binds the name; with none, the module is the program as it is.     *)
(***************************************************************************)
EXTENDS SpotLedger, Authority

CONSTANTS
    Runs,               \* processes running the program
    Repaired,           \* those of a version whose rehearsal binds sha256_hex
    BuyCycle,           \* the cycle of the first live buy
    LegacyCycle,        \* successor the program's older version may have left
    LegacyStates,       \* states its sell may have been left in
    Plans,              \* what a run may plan; each has its session (Sessions)
    PlanInfo,           \* [Plans -> [built, grant, cycle, action]]
    PolicyExpiry,       \* [Policies -> Nat]
    Quantity            \* EXPECTED_INVENTORY_ATOMIC, what the buy acquired

VARIABLES
    prepare,            \* prepare_records: plan and phase, by source cycle
    preauth,            \* plans whose approval and envelope are on record
    signed,             \* plans with a signed transaction on record
    sidecar,            \* the .sell-prepared.json file
    printed,            \* how often each plan's signing requests were printed
    job                 \* where each run is, and what it holds in memory

sagaVars == <<prepare, preauth, signed, sidecar, printed, job>>
prepareVars == <<ledgerVars, authorityVars, sagaVars>>

ASSUME PlanAssumption ==
    /\ Plans = Sessions
    /\ PlanInfo \in [Plans -> [built: Nat, grant: Grants, cycle: Cycles, action: Actions]]
    /\ PolicyExpiry \in [Policies -> Nat]
    /\ Quantity \in Nat \ {0}
ASSUME RepairedAssumption == Repaired \subseteq Runs
ASSUME SourceAssumption ==
    /\ BuyCycle \in Cycles /\ LegacyCycle \in Cycles \ {BuyCycle}
    /\ LegacyStates \subseteq IntentState
\* What was bought is in the receipts' range; the first cycle only buys, and what an
\* older version of the program may have left is a sell.
ASSUME LegAssumption ==
    /\ Quantity \in Amounts
    /\ \A a \in Actions : /\ CycleOf(a) = BuyCycle => ActionInfo[a].side = "BUY"
                          /\ CycleOf(a) = LegacyCycle => ActionInfo[a].side = "SELL"
ASSUME FileAssumption == Plans \cap {"none", "NONE", "PARTIAL"} = {}

PREPARE_PHASES ==
    <<"PLANNED", "POLICY_ADMITTED", "INVENTORY_CARRIED", "INTENT_SIMULATED",
      "SESSION_RECORDED", "PREAUTH_RECORDED", "PREPARED">>
Phases == {0} \cup DOMAIN PREPARE_PHASES

\* Where a run goes on once its record has reached a phase.
After == <<"ADMIT", "CARRY", "READ", "AUTHORITY", "PREAUTH", "SIDECAR", "PRINT">>

NoRecord == [plan |-> "none", phase |-> 0]
Resting == [pc |-> "IDLE", at |-> 0, grant |-> "none", plan |-> "none",
            source |-> "none", stale |-> FALSE, phase |-> 0, goal |-> 0]

SuccessorOf(n) == PlanInfo[n].cycle
SellOf(n) == PlanInfo[n].action
SuccessorPolicy(n) == CycleInfo[SuccessorOf(n)].policy
\* A plan sells in the cycle it carries to; its policy is named for the second in
\* which it was planned, and so is none of the policies there were before.
ASSUME SuccessorAssumption ==
    \A n \in Plans :
        /\ CycleOf(SellOf(n)) = SuccessorOf(n)
        /\ SuccessorPolicy(n) \notin {CycleInfo[BuyCycle].policy, CycleInfo[LegacyCycle].policy}

PolicyCurrent(n, t) == PlanInfo[n].built <= t /\ t < PolicyExpiry[SuccessorPolicy(n)]

Recorded == {c \in Cycles : prepare[c].phase > 0}
Opened == {c \in Cycles : cycle[c] # "NONE"}
IntentsIn(c) == {a \in Actions : CycleOf(a) = c /\ state[a] # "NONE"}

\* The mutant advances once more when the record is already there.
Marking_OffByOne(j, goal) ==
    [j EXCEPT !.pc = IF j.phase > goal THEN After[goal] ELSE "MARK", !.goal = goal]

\* The run has done the work of a phase: advance the record if it is behind.
Marking(j, goal) ==
    [j EXCEPT !.pc = IF j.phase >= goal THEN After[goal] ELSE "MARK", !.goal = goal]

-----------------------------------------------------------------------------
(* Finding the prepare there is, or the inventory a new one starts from. *)

\* A run starts with the receipt the operator names.  It resumes the one record
\* there is, for the same receipt only and never once anything was signed.
Load(r, g) ==
    /\ job[r].pc = "IDLE"
    /\ \/ /\ Recorded = {}
          /\ job' = [job EXCEPT ![r] = [Resting EXCEPT !.pc = "FRESH", !.at = now, !.grant = g]]
       \/ \E c \in Recorded :
             LET n == prepare[c].plan
             IN /\ Recorded = {c}
                /\ n \notin signed
                /\ PlanInfo[n].grant = g /\ Verifies(g, n, now)
                /\ job' = [job EXCEPT ![r] =
                       [Resting EXCEPT !.pc = "ADMIT", !.at = now, !.grant = g, !.plan = n,
                                       !.source = c, !.phase = prepare[c].phase]]
    /\ UNCHANGED <<ledgerVars, authorityVars, prepare, preauth, signed, sidecar, printed>>

\* A successor on the carry chain may be walked over when nothing of it can have
\* had an effect: its policy expired, no session, its sell simulated at most.
HopAbandonable(c, t) ==
    /\ cycle[c] \in {"OPEN", "COMPLETED"}
    /\ PolicyExpiry[CycleInfo[c].policy] <= t
    /\ \A n \in Plans : SuccessorOf(n) = c => sessions[n] = -1 /\ n \notin preauth
    /\ \A a \in IntentsIn(c) :
         /\ state[a] \in {"SIMULATED", "EXPIRED"}
         /\ state[a] = "SIMULATED" => cycle[c] = "OPEN"
    /\ cycle[c] = "COMPLETED" => Inventory(c) = 0

\* Every cycle but the first is opened by a carry from the one before it, so the
\* chain is all the cycles there are, and its source the one that is open.
FindSource(r) ==
    /\ job[r].pc = "FRESH"
    /\ \A c \in Opened \ {BuyCycle} : HopAbandonable(c, job[r].at)
    /\ \E c \in Opened :
         /\ cycle[c] = "OPEN"
         /\ CarriedFrom(c) = {}
         /\ Inventory(c) = Quantity
         /\ job' = [job EXCEPT ![r].pc = "SOURCED", ![r].source = c,
                ![r].stale = c # BuyCycle /\ \E a \in IntentsIn(c) : state[a] = "SIMULATED"]
    /\ UNCHANGED <<ledgerVars, authorityVars, prepare, preauth, signed, sidecar, printed>>

\* The whole preparation of plan n, of the inventory in cycle c under grant g, goes
\* well at moment t on a copy of the database in memory.  A sell left SIMULATED in
\* the source is expired only after this (main(), 1088-1094), and the copy's carry
\* refuses a source with such an intent.
Rehearsable(c, n, g, t) ==
    /\ PlanInfo[n].built = t /\ PlanInfo[n].grant = g
    /\ Verifies(g, n, t) /\ PolicyCurrent(n, t)
    /\ cycle[c] = "OPEN" /\ cycle[SuccessorOf(n)] = "NONE"
    /\ SameAsset(CycleInfo[c].policy, SuccessorPolicy(n))
    /\ IntentsSettled(c) /\ CarriedFrom(c) = {} /\ Inventory(c) = Quantity
    /\ Acceptable(g, t) /\ ~killed
    /\ Authorize("RESERVE_CAPITAL", n, g, t)
    /\ Authorize("CONSTRUCT_ENVELOPE", n, g, t)

\* When all of it has gone well, the digest of the calldata is compared with the
\* envelope's; without the function that computes it, the run ends there (707).
Prospect(r) ==
    /\ job[r].pc = "SOURCED"
    /\ \E n \in Plans :
         /\ Rehearsable(job[r].source, n, job[r].grant, job[r].at)
         /\ job' = [job EXCEPT ![r].pc = IF r \in Repaired THEN "RECORD" ELSE "NAME_ERROR",
                               ![r].plan = n]
    /\ UNCHANGED <<ledgerVars, authorityVars, prepare, preauth, signed, sidecar, printed>>

\* A run that found a SIMULATED sell comes this far only if that sell has ended
\* since, and then the transition that would expire it is refused: the run ends.
Begin(j) == IF j.stale THEN "REFUSED" ELSE "ADMIT"

\* The mutant goes on to work without making the plan durable.
RecordPreparePlan_InMemory(r) ==
    LET c == job[r].source
    IN /\ job[r].pc = "RECORD"
       /\ prepare[c].phase = 0 \/ prepare[c].plan = job[r].plan
       /\ job' = [job EXCEPT ![r] = [@ EXCEPT !.pc = Begin(job[r]), !.phase = 1]]
       /\ UNCHANGED <<ledgerVars, authorityVars, prepare, preauth, signed, sidecar, printed>>

\* record_prepare_plan: the same plan again is the record there is; another plan
\* for the same source is refused, as is the same policy for another source.
RecordPreparePlan(r) ==
    LET c == job[r].source
    IN /\ job[r].pc = "RECORD"
       /\ \/ /\ prepare[c].phase = 0
             /\ \A d \in Recorded : SuccessorPolicy(prepare[d].plan) # SuccessorPolicy(job[r].plan)
             /\ prepare' = [prepare EXCEPT ![c] = [plan |-> job[r].plan, phase |-> 1]]
          \/ /\ prepare[c].phase > 0 /\ prepare[c].plan = job[r].plan
             /\ UNCHANGED prepare
       /\ job' = [job EXCEPT ![r] = [@ EXCEPT !.pc = Begin(job[r]), !.phase = prepare'[c].phase]]
       /\ UNCHANGED <<ledgerVars, authorityVars, preauth, signed, sidecar, printed>>

-----------------------------------------------------------------------------
(* The phases of the record. *)

\* advance_prepare_phase, in the loop of _advance_to_phase: the next phase after
\* the one this run last saw.  The row may have got there already; if it is
\* further on, the run is refused.
AdvancePreparePhase(r) ==
    LET c == job[r].source
        next == job[r].phase + 1
    IN /\ job[r].pc = "MARK"
       /\ prepare[c].phase \in {next - 1, next}
       /\ prepare' = [prepare EXCEPT ![c].phase = next]
       /\ job' = [job EXCEPT ![r] = Marking([@ EXCEPT !.phase = next], @.goal)]
       /\ UNCHANGED <<ledgerVars, authorityVars, preauth, signed, sidecar, printed>>

-----------------------------------------------------------------------------
(* The work of each phase. *)

AdmitSuccessor(r) ==
    LET p == SuccessorPolicy(job[r].plan)
    IN /\ job[r].pc = "ADMIT"
       /\ \/ AdmitPolicy(p)
          \/ p \in admitted /\ UNCHANGED ledgerVars
       /\ job' = [job EXCEPT ![r] = Marking(@, 2)]
       /\ UNCHANGED <<authorityVars, prepare, preauth, signed, sidecar, printed>>

\* Carried once: the successor's row says that it has been.
CarryInventory(r) ==
    LET n == job[r].plan
    IN /\ job[r].pc = "CARRY"
       /\ \/ /\ PolicyCurrent(n, job[r].at)
             /\ ContinueInventoryIntoSuccessorCycle(job[r].source, SuccessorOf(n))
          \/ cycle[SuccessorOf(n)] # "NONE" /\ UNCHANGED ledgerVars
       /\ job' = [job EXCEPT ![r] = Marking(@, 3)]
       /\ UNCHANGED <<authorityVars, prepare, preauth, signed, sidecar, printed>>

ReadCarried(r) ==
    LET d == SuccessorOf(job[r].plan)
    IN /\ job[r].pc = "READ"
       /\ Inventory(d) = Quantity
       /\ seen' = [seen EXCEPT ![d] = Inventory(d)]
       /\ job' = [job EXCEPT ![r].pc = "INTENT"]
       /\ UNCHANGED <<admitted, cycle, carry, state, bounds, resv, receipts, recon>>
       /\ UNCHANGED <<authorityVars, prepare, preauth, signed, sidecar, printed>>

SimulationStep == [ARMED |-> "TRIGGERED", TRIGGERED |-> "QUOTE_PINNED", QUOTE_PINNED |-> "SIMULATED"]

\* Create the sell, and move it to SIMULATED, one transaction at a time.
AdvanceIntent(r) ==
    LET a == SellOf(job[r].plan)
    IN /\ job[r].pc = "INTENT"
       /\ \/ state[a] = "NONE" /\ CreateIntent(a)
          \/ state[a] \in DOMAIN SimulationStep /\ Transition(a, SimulationStep[state[a]])
       /\ UNCHANGED <<authorityVars, sagaVars>>

IntentSimulated(r) ==
    /\ job[r].pc = "INTENT"
    /\ state[SellOf(job[r].plan)] \in {"SIMULATED", "RESERVED"}
    /\ job' = [job EXCEPT ![r] = Marking(@, 4)]
    /\ UNCHANGED <<ledgerVars, authorityVars, prepare, preauth, signed, sidecar, printed>>

RecordAuthority(r) ==
    /\ job[r].pc = "AUTHORITY"
    /\ RecordVerifiedAuthority(job[r].grant, job[r].at)
    /\ job' = [job EXCEPT ![r].pc = "SESSION"]
    /\ UNCHANGED <<ledgerVars, prepare, preauth, signed, sidecar, printed>>

\* The policy is admitted, and allows what the grant allows.
RecordSession(r) ==
    LET n == job[r].plan
        g == GrantInfo[job[r].grant]
    IN /\ job[r].pc = "SESSION"
       /\ SuccessorPolicy(n) \in admitted
       /\ g.maxReservation <= PolicyInfo[SuccessorPolicy(n)].perOrder
       /\ g.maxCumulative <= PolicyInfo[SuccessorPolicy(n)].global
       /\ CreateExecutionSession(n, job[r].grant, job[r].at)
       /\ job' = [job EXCEPT ![r].pc = "RESERVE"]
       /\ UNCHANGED <<ledgerVars, prepare, preauth, signed, sidecar, printed>>

\* Only a SIMULATED sell is reserved; whatever else it is, the run goes on.
SkipReserve(r) ==
    LET a == SellOf(job[r].plan)
    IN /\ job[r].pc = "RESERVE"
       /\ state[a] # "SIMULATED"
       /\ resv[a] = "NONE"
       /\ job' = [job EXCEPT ![r] = Marking(@, 5)]
       /\ UNCHANGED <<ledgerVars, authorityVars, prepare, preauth, signed, sidecar, printed>>

AuthorizeReserve(r) ==
    /\ job[r].pc = "RESERVE"
    /\ state[SellOf(job[r].plan)] = "SIMULATED"
    /\ Authorize("RESERVE_CAPITAL", job[r].plan, job[r].grant, job[r].at)
    /\ job' = [job EXCEPT ![r].pc = "RESERVING"]
    /\ UNCHANGED <<ledgerVars, authorityVars, prepare, preauth, signed, sidecar, printed>>

\* reserve_action's transaction: it does not look at the kill switch again.
ReserveSell(r) ==
    LET a == SellOf(job[r].plan)
    IN /\ job[r].pc = "RESERVING"
       /\ \/ state[a] = "SIMULATED" /\ Transition(a, "RESERVED")
          \/ state[a] = "RESERVED" /\ UNCHANGED ledgerVars
       /\ resv'[a] = "NONE"
       /\ job' = [job EXCEPT ![r] = Marking(@, 5)]
       /\ UNCHANGED <<authorityVars, prepare, preauth, signed, sidecar, printed>>

AuthorizePreauth(r) ==
    LET n == job[r].plan
    IN /\ job[r].pc = "PREAUTH"
       /\ Authorize("CONSTRUCT_ENVELOPE", n, job[r].grant, job[r].at)
       /\ Authorize("AUTHORIZE_APPROVAL", n, job[r].grant, job[r].at)
       /\ sessions[n] # -1
       /\ state[SellOf(n)] = "RESERVED"
       /\ job' = [job EXCEPT ![r].pc = "FREEZE"]
       /\ UNCHANGED <<ledgerVars, authorityVars, prepare, preauth, signed, sidecar, printed>>

\* The transaction of record_ink_v0f_native_sell_preauth_bundle: it inserts the
\* plan's approval and envelope, or finds the same ones.
FreezePreauth(r) ==
    LET n == job[r].plan
    IN /\ job[r].pc = "FREEZE"
       /\ ~killed
       /\ state[SellOf(n)] = "RESERVED"
       /\ preauth' = preauth \cup {n}
       /\ job' = [job EXCEPT ![r] = Marking(@, 6)]
       /\ UNCHANGED <<ledgerVars, authorityVars, prepare, signed, sidecar, printed>>

\* The mutant overwrites the file there is.
CreateSidecar_Overwrites(r) ==
    /\ job[r].pc = "SIDECAR"
    /\ sidecar' = "PARTIAL"
    /\ job' = [job EXCEPT ![r].pc = "WRITING"]
    /\ UNCHANGED <<ledgerVars, authorityVars, prepare, preauth, signed, printed>>

\* The file is created exclusively.  If there is one, the run means to compare it
\* by a function the program does not define, and ends (main(), 1220-1221).
CreateSidecar(r) ==
    /\ job[r].pc = "SIDECAR"
    /\ sidecar = "NONE"
    /\ sidecar' = "PARTIAL"
    /\ job' = [job EXCEPT ![r].pc = "WRITING"]
    /\ UNCHANGED <<ledgerVars, authorityVars, prepare, preauth, signed, printed>>

WriteSidecar(r) ==
    /\ job[r].pc = "WRITING"
    /\ sidecar' = job[r].plan
    /\ job' = [job EXCEPT ![r] = Marking(@, 7)]
    /\ UNCHANGED <<ledgerVars, authorityVars, prepare, preauth, signed, printed>>

PrintSigningRequests(r) ==
    /\ job[r].pc = "PRINT"
    /\ printed' = [printed EXCEPT ![job[r].plan] = @ + 1]
    /\ job' = [job EXCEPT ![r] = Resting]
    /\ UNCHANGED <<ledgerVars, authorityVars, prepare, preauth, signed, sidecar>>

\* A run ends early: an exception, which removes a file it was writing, or a kill.
Die(r) ==
    /\ job[r].pc # "IDLE"
    /\ job' = [job EXCEPT ![r] = Resting]
    /\ \/ UNCHANGED sidecar
       \/ job[r].pc = "WRITING" /\ sidecar' = "NONE"
    /\ UNCHANGED <<ledgerVars, authorityVars, prepare, preauth, signed, printed>>

-----------------------------------------------------------------------------
(* The others. *)

\* The requests are signed, and the execute program records what came back.
RecordSigned(n) ==
    /\ printed[n] > 0 /\ n \in preauth /\ n \notin signed
    /\ ~killed
    /\ signed' = signed \cup {n}
    /\ UNCHANGED <<ledgerVars, authorityVars, prepare, preauth, sidecar, printed, job>>

\* Somebody runs recover() on the database: a sell that was not signed is abandoned.
RecoverCancels(a) ==
    /\ state[a] \in PRE_COMMITMENT_STATES
    /\ Transition(a, "CANCELLED")
    /\ UNCHANGED <<authorityVars, sagaVars>>

Others ==
    /\ Tick \/ EngageKillSwitch
    /\ UNCHANGED <<ledgerVars, sagaVars>>

-----------------------------------------------------------------------------
\* The buy is filled; its inventory is in its cycle, or in a successor to which an
\* older version of the program carried it before it died.  A version with a complete
\* rehearsal may have recorded a plan for it, and died then.
NoRecords == [c \in Cycles |-> NoRecord]
PlanLeft(c, n) ==
    /\ PlanInfo[n].built <= now
    /\ Rehearsable(c, n, PlanInfo[n].grant, PlanInfo[n].built)
    /\ prepare = [NoRecords EXCEPT ![c] = [plan |-> n, phase |-> 1]]

PrepareInit ==
    \E legacy \in LegacyStates \cup {"NONE"} :
        LET buys == {a \in Actions : CycleOf(a) = BuyCycle}
            left == {a \in Actions : CycleOf(a) = LegacyCycle}
            moved == legacy # "NONE"
        IN /\ admitted = {CycleInfo[BuyCycle].policy}
                             \cup (IF moved THEN {CycleInfo[LegacyCycle].policy} ELSE {})
           /\ cycle = [c \in Cycles |->
                  CASE c = BuyCycle -> IF moved THEN "COMPLETED" ELSE "OPEN"
                    [] c = LegacyCycle /\ moved -> "OPEN"
                    [] OTHER -> "NONE"]
           /\ carry = [c \in Cycles |->
                  IF c = LegacyCycle /\ moved THEN [from |-> BuyCycle, amount |-> Quantity] ELSE NoCarry]
           /\ state = [a \in Actions |->
                  CASE a \in buys -> "FILLED" [] a \in left -> legacy [] OTHER -> "NONE"]
           /\ bounds = [a \in Actions |->
                  IF a \in buys \/ (a \in left /\ moved)
                  THEN [maxInput |-> Quantity, minOutput |-> Quantity] ELSE NoBounds]
           /\ resv = [a \in Actions |-> IF a \in buys THEN "COMMITTED" ELSE "NONE"]
           /\ \E ref \in Refs : receipts =
                  {[ref |-> ref, action |-> a, input |-> Quantity, output |-> Quantity] : a \in buys}
           /\ recon = [a \in Actions |-> IF a \in buys THEN "SETTLED" ELSE "NONE"]
           /\ seen = [c \in Cycles |-> 0]
           /\ AuthorityInit
           /\ prepare = NoRecords \/ \E c \in Cycles, n \in Plans : PlanLeft(c, n)
           /\ preauth = {} /\ signed = {}
           /\ sidecar = "NONE"
           /\ printed = [n \in Plans |-> 0]
           /\ job = [r \in Runs |-> Resting]

Run(r) ==
    \/ \E g \in Grants : Load(r, g)
    \/ FindSource(r) \/ Prospect(r) \/ RecordPreparePlan(r)
    \/ AdvancePreparePhase(r)
    \/ AdmitSuccessor(r) \/ CarryInventory(r)
    \/ ReadCarried(r) \/ AdvanceIntent(r) \/ IntentSimulated(r)
    \/ RecordAuthority(r) \/ RecordSession(r)
    \/ SkipReserve(r) \/ AuthorizeReserve(r) \/ ReserveSell(r)
    \/ AuthorizePreauth(r) \/ FreezePreauth(r)
    \/ CreateSidecar(r) \/ WriteSidecar(r) \/ PrintSigningRequests(r)

PrepareNext ==
    \/ \E r \in Runs : Run(r) \/ Die(r)
    \/ \E n \in Plans : RecordSigned(n)
    \/ \E a \in Actions : RecoverCancels(a)
    \/ Others

PrepareSpec == PrepareInit /\ [][PrepareNext]_prepareVars

-----------------------------------------------------------------------------
(* Properties. *)

\* The durable phase never runs ahead of what is durable: whoever resumes from it
\* may rely on every part it stands for, whichever run did it and wherever runs
\* died, were overtaken or undone by a recovery in between.
PhaseTellsTruth ==
    \A c \in Recorded :
        LET n == prepare[c].plan
            k == prepare[c].phase
        IN /\ k >= 2 => SuccessorPolicy(n) \in admitted
           /\ k >= 3 => carry[SuccessorOf(n)] = [from |-> c, amount |-> Quantity]
           /\ k >= 4 => state[SellOf(n)] \in {"SIMULATED", "RESERVED", "CANCELLED"}
           /\ k >= 5 => sessions[n] # -1 /\ state[SellOf(n)] \in {"RESERVED", "CANCELLED"}
           /\ k >= 6 => n \in preauth
           /\ k >= 7 => sidecar = n

\* Nothing of a preparation is in the ledger before its plan is: what a run that
\* died left behind always has a record to resume from.  The session and the
\* signing requests are the plan's own; the policy, its cycle and its sell are
\* those of whatever plan is recorded for the policy.
PlanPrecedesEffects ==
    \A n \in Plans :
        /\ (\A c \in Recorded : prepare[c].plan # n) => sessions[n] = -1 /\ n \notin preauth
        /\ (\A c \in Recorded : SuccessorPolicy(prepare[c].plan) # SuccessorPolicy(n)) =>
              /\ SuccessorPolicy(n) \notin admitted
              /\ cycle[SuccessorOf(n)] = "NONE" /\ state[SellOf(n)] = "NONE"

\* The signing requests of a position are printed once, whatever runs there were,
\* and so never after one of them was signed, although a run looks for signatures
\* only when it starts: of two runs that were both in time, one writes the sidecar.
RequestsPrintedOnce ==
    \A n, m \in Plans : printed[n] > 0 /\ printed[m] > 0 => n = m /\ printed[n] = 1

\* The accepted grant never goes back to an earlier epoch, nor, in the same epoch,
\* to a grant issued before it was accepted.
AuthorityNeverRollsBack ==
    [][accepted'.grant # accepted.grant /\ accepted.grant # "none" =>
         \/ GrantInfo[accepted'.grant].epoch > GrantInfo[accepted.grant].epoch
         \/ GrantInfo[accepted'.grant].issued > accepted.at]_prepareVars

\* prepare_v0.py:654: "The clone deliberately exercises the same schema, policy,
\* intent, session, reservation, live quote, approval and native-envelope constructors
\* as the durable path": a rehearsal in which all of them go well is followed by the
\* record of the plan that was rehearsed.
RehearsedIsRecorded ==
    \A r \in Runs, n \in Plans :
        job[r].pc = "SOURCED" /\ Rehearsable(job[r].source, n, job[r].grant, job[r].at) =>
            ENABLED (Prospect(r) /\ job'[r].pc = "RECORD" /\ job'[r].plan = n)

\* prepare_v0.py:161: "The ledger plan remains authoritative; this sidecar is a
\* convenience cache only", so the plan's own complete sidecar keeps no run of the
\* plan from going on.
SidecarKeepsNobody ==
    \A r \in Runs : job[r].pc = "SIDECAR" /\ sidecar = job[r].plan => ENABLED Run(r)
=============================================================================
