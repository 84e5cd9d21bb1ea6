---------------------------- MODULE PrepareProofs ----------------------------
(***************************************************************************)
(* Proofs about PrepareSaga: for any number of runs of the preparation,    *)
(* side by side or one after another, that die anywhere, and any plans,    *)
(* grants, clocks and policies they may have.                              *)
(***************************************************************************)
EXTENDS PrepareSaga, SpotLedgerProofs

-----------------------------------------------------------------------------
(* What the invariant says. *)

\* Where a run is once its plan is on record, and the phase whose work it has
\* done when it is there (main(), 1095-1226).
ReachedAt ==
    [REFUSED |-> 1, ADMIT |-> 1, CARRY |-> 2, READ |-> 3, INTENT |-> 3, AUTHORITY |-> 4,
     SESSION |-> 4, RESERVE |-> 4, RESERVING |-> 4, PREAUTH |-> 5, FREEZE |-> 5,
     SIDECAR |-> 6, WRITING |-> 6, PRINT |-> 7]
Searching == {"FRESH", "SOURCED", "NAME_ERROR", "RECORD"}
Places ==
    {"IDLE", "FRESH", "SOURCED", "NAME_ERROR", "RECORD", "REFUSED", "ADMIT", "MARK", "CARRY",
     "READ", "INTENT", "AUTHORITY", "SESSION", "RESERVE", "RESERVING", "PREAUTH", "FREEZE",
     "SIDECAR", "WRITING", "PRINT"}

Working(j) == j.pc \notin {"IDLE"} \cup Searching
Progress(j) == IF j.pc = "MARK" THEN j.goal ELSE ReachedAt[j.pc]

JobTyped(j) ==
    /\ j = [pc |-> j.pc, at |-> j.at, grant |-> j.grant, plan |-> j.plan, source |-> j.source,
            stale |-> j.stale, phase |-> j.phase, goal |-> j.goal]
    /\ j.pc \in Places
    /\ j.phase \in 0..7 /\ j.goal \in 0..7
PrepareRecord == [plan: Plans \cup {"none"}, phase: 0..7]

TablesTyped ==
    /\ cycle \in [Cycles -> CycleStatus \cup {"NONE"}]
    /\ carry \in [Cycles -> [from: Cycles \cup {"none"}, amount: Nat]]
    /\ state \in [Actions -> IntentState \cup {"NONE"}]
    /\ now \in Nat
    /\ sessions \in [Plans -> Int]
    /\ prepare \in [Cycles -> PrepareRecord]
    /\ printed \in [Plans -> Nat]
    /\ \A d \in Cycles : cycle[d] = "NONE" => carry[d] = NoCarry
RunsTyped == job = [r \in Runs |-> job[r]] /\ \A r \in Runs : JobTyped(job[r])

\* What phase k of plan n, of the inventory in cycle c, stands for.
Done(n, c, k) ==
    /\ k >= 2 => SuccessorPolicy(n) \in admitted
    /\ k >= 3 => /\ cycle[SuccessorOf(n)] # "NONE"
                 /\ carry[SuccessorOf(n)] = [from |-> c, amount |-> Quantity]
    /\ k >= 4 => state[SellOf(n)] \in {"SIMULATED", "RESERVED", "CANCELLED"}
    /\ k >= 5 => sessions[n] # -1 /\ state[SellOf(n)] \in {"RESERVED", "CANCELLED"}
    /\ k >= 6 => n \in preauth
    /\ k >= 7 => sidecar = n

\* A source still has all of the inventory the buy acquired, or has carried it on.
Whole(c) == cycle[c] # "NONE" /\ (CarriedFrom(c) = {} => Inventory(c) = Quantity)

\* A record stands for work that is done, and its successor holds what was carried
\* from its source and from nowhere else.
RecordSound(c) ==
    prepare[c].phase > 0 =>
        LET n == prepare[c].plan
        IN /\ n \in Plans
           /\ Whole(c)
           /\ Done(n, c, prepare[c].phase)
           /\ cycle[SuccessorOf(n)] # "NONE" =>
                carry[SuccessorOf(n)] = [from |-> c, amount |-> Quantity]

\* A run works on the plan that is on record, is never ahead of it in phases, and
\* has done what the place it is at follows on.
JobSound(j) ==
    /\ j.pc # "IDLE" => j.grant \in Grants
    /\ j.pc \notin {"IDLE", "FRESH"} => j.source \in Cycles /\ Whole(j.source)
    /\ j.pc = "RECORD" => j.plan \in Plans
    /\ Working(j) => /\ j.plan \in Plans /\ prepare[j.source].plan = j.plan
                     /\ 1 <= j.phase /\ j.phase <= prepare[j.source].phase
                     /\ Done(j.plan, j.source, Progress(j))
    /\ j.pc = "MARK" => j.goal \in 2..7 /\ j.phase < j.goal
    /\ j.pc \in {"RESERVE", "RESERVING"} => sessions[j.plan] # -1

OneSourceEach ==
    \A c, d \in Recorded :
        SuccessorPolicy(prepare[c].plan) = SuccessorPolicy(prepare[d].plan) => c = d

\* Whoever creates the file may go on to print, and nobody else.
Holding(j) == j.pc \in {"WRITING", "PRINT"} \/ (j.pc = "MARK" /\ j.goal = 7)
Unprinted == \A n \in Plans : printed[n] = 0
OneHolder ==
    /\ \A r, s \in Runs : Holding(job[r]) /\ Holding(job[s]) => r = s
    /\ \A r \in Runs : Holding(job[r]) => Unprinted
    /\ \A r \in Runs : job[r].pc = "WRITING" => sidecar = "PARTIAL"
    /\ sidecar = "NONE" => Unprinted /\ \A r \in Runs : ~Holding(job[r])
    /\ RequestsPrintedOnce

RecordsSound == \A c \in Cycles : RecordSound(c)
JobsSound == \A r \in Runs : JobSound(job[r])

PrepareSound ==
    /\ TablesTyped /\ RunsTyped
    /\ RecordsSound
    /\ JobsSound
    /\ OneSourceEach
    /\ OneHolder
    /\ PlanPrecedesEffects

-----------------------------------------------------------------------------
(* What no step of anybody undoes. *)

\* Policies stay admitted, cycles open and their carries as they are; a sell that was
\* simulated or reserved stays so or is cancelled; sessions, approvals, a complete
\* sidecar and the plan on record stay.
Kept ==
    /\ admitted \subseteq admitted'
    /\ \A d \in Cycles : cycle[d] # "NONE" => cycle'[d] # "NONE" /\ carry'[d] = carry[d]
    /\ \A a \in Actions : /\ state[a] = "NONE" \/ state'[a] # "NONE"
                          /\ state[a] = "FILLED" <=> state'[a] = "FILLED"
                          /\ state[a] \in {"SIMULATED", "RESERVED", "CANCELLED"} =>
                               state'[a] \in {"SIMULATED", "RESERVED", "CANCELLED"}
                          /\ state[a] \in {"RESERVED", "CANCELLED"} =>
                               state'[a] \in {"RESERVED", "CANCELLED"}
    /\ UNCHANGED receipts
    /\ \A n \in Plans : sessions[n] # -1 => sessions'[n] # -1
    /\ preauth \subseteq preauth'
    /\ sidecar \in Plans => UNCHANGED sidecar
    /\ \A c \in Cycles : prepare[c].phase > 0 => /\ prepare'[c].plan = prepare[c].plan
                                                 /\ prepare'[c].phase >= prepare[c].phase

\* What a cycle carried out is nothing while no cycle has a carry from it.
NothingOut == \A c \in Cycles : CarriedFrom(c) = {} => CarriedOut(c) = 0

LEMMA NothingOutNow == NothingOut
BY CarriesSum, SumEmpty DEF NothingOut, CarriesAreSums, CarriedOut

LEMMA NothingOutNext == NothingOut'
BY NothingOutNow, PTL

\* So an inventory stays whole.
LEMMA WholeStays ==
    ASSUME TablesTyped, Kept, NEW c \in Cycles, Whole(c)
    PROVE Whole(c)'
<1>1. cycle'[c] # "NONE" /\ carry'[c] = carry[c]
  BY DEF Whole, Kept
<1>2. ASSUME CarriedFrom(c)' = {}
      PROVE Inventory(c)' = Quantity
  <2>1. CarriedFrom(c) = {}
    <3> SUFFICES ASSUME NEW d \in CarriedFrom(c)
                 PROVE FALSE
      OBVIOUS
    <3>1. d \in Cycles /\ carry[d].from = c
      BY DEF CarriedFrom
    <3>2. cycle[d] # "NONE"
      BY <3>1, CycleAssumption DEF TablesTyped, NoCarry
    <3>3. carry'[d].from = c
      BY <3>1, <3>2 DEF Kept
    <3> QED
      BY <1>2, <3>1, <3>3 DEF CarriedFrom
  <2>2. CarriedOut(c) = 0 /\ CarriedOut(c)' = 0
    BY <1>2, <2>1, NothingOutNow, NothingOutNext DEF NothingOut
  <2>3. CarryAmount(c)' = CarryAmount(c)
    BY <1>1 DEF CarryAmount
  <2>4. FilledIn(c, "BUY")' = FilledIn(c, "BUY") /\ FilledIn(c, "SELL")' = FilledIn(c, "SELL")
    BY DEF FilledIn, Kept
  <2>5. BaseAcquired(c)' = BaseAcquired(c) /\ BaseDisposed(c)' = BaseDisposed(c)
    BY <2>4 DEF BaseAcquired, BaseDisposed, Kept
  <2>6. Inventory(c)' = Inventory(c)
    BY <2>2, <2>3, <2>5 DEF Inventory
  <2> QED
    BY <2>1, <2>6 DEF Whole
<1> QED
  BY <1>1, <1>2 DEF Whole

\* What a plan's constants are.
LEMMA PlanFacts ==
    ASSUME NEW n \in Plans
    PROVE /\ SuccessorOf(n) \in Cycles /\ SellOf(n) \in Actions
          /\ SuccessorPolicy(n) \in Policies
          /\ n \notin {"none", "NONE", "PARTIAL"}
          /\ CycleOf(SellOf(n)) = SuccessorOf(n)
          /\ SuccessorOf(n) \notin {BuyCycle, LegacyCycle}
BY PlanAssumption, CycleAssumption, FileAssumption, SuccessorAssumption
   DEF SuccessorOf, SellOf, SuccessorPolicy

\* Work that is done stays done.
LEMMA DoneStays ==
    ASSUME Kept, NEW n \in Plans, NEW c, NEW k, Done(n, c, k)
    PROVE Done(n, c, k)'
<1>1. SuccessorOf(n) \in Cycles /\ SellOf(n) \in Actions
  BY PlanFacts
<1>2. k >= 2 => SuccessorPolicy(n) \in admitted'
  BY DEF Done, Kept
<1>3. k >= 3 => /\ cycle'[SuccessorOf(n)] # "NONE"
                /\ carry'[SuccessorOf(n)] = [from |-> c, amount |-> Quantity]
  BY <1>1 DEF Done, Kept
<1>4. /\ k >= 4 => state'[SellOf(n)] \in {"SIMULATED", "RESERVED", "CANCELLED"}
      /\ k >= 5 => sessions'[n] # -1 /\ state'[SellOf(n)] \in {"RESERVED", "CANCELLED"}
  BY <1>1 DEF Done, Kept
<1>5. (k >= 6 => n \in preauth') /\ (k >= 7 => sidecar' = n)
  BY DEF Done, Kept
<1> QED
  BY <1>2, <1>3, <1>4, <1>5 DEF Done, SuccessorPolicy, SuccessorOf, SellOf

\* Work that is done is done up to every earlier phase.
LEMMA DoneUpTo ==
    ASSUME NEW n, NEW c, NEW k \in Int, NEW m \in Int, m <= k, Done(n, c, k)
    PROVE Done(n, c, m)
BY DEF Done

\* A run that does not move stays sound.
LEMMA JobStays ==
    ASSUME TablesTyped, TablesTyped', Kept, NEW j, JobTyped(j), JobSound(j)
    PROVE JobSound(j)'
<1>1. j.pc \notin {"IDLE", "FRESH"} => j.source \in Cycles /\ Whole(j.source)'
  BY WholeStays DEF JobSound
<1>2. ASSUME Working(j)
      PROVE /\ prepare'[j.source].plan = j.plan /\ j.phase <= prepare'[j.source].phase
            /\ Done(j.plan, j.source, Progress(j))'
  <2>1. /\ j.plan \in Plans /\ prepare[j.source].plan = j.plan
        /\ 1 <= j.phase /\ j.phase <= prepare[j.source].phase
        /\ Done(j.plan, j.source, Progress(j))
    BY <1>2 DEF JobSound
  <2>2. j.source \in Cycles
    BY <1>2 DEF JobSound, Working, Searching
  <2>3. prepare[j.source].phase \in Nat /\ prepare'[j.source].phase \in Nat /\ j.phase \in Nat
    <3>1. prepare[j.source] \in PrepareRecord /\ prepare'[j.source] \in PrepareRecord
      BY <2>2 DEF TablesTyped
    <3> QED
      BY <3>1 DEF PrepareRecord, JobTyped
  <2>4. prepare'[j.source].plan = j.plan /\ prepare'[j.source].phase >= prepare[j.source].phase
    BY <2>1, <2>2, <2>3 DEF Kept
  <2>5. PICK k : k = Progress(j)
    OBVIOUS
  <2>6. Done(j.plan, j.source, k)'
    BY <2>1, <2>5, DoneStays
  <2> QED
    BY <2>1, <2>3, <2>4, <2>5, <2>6
<1>3. j.pc \in {"RESERVE", "RESERVING"} => sessions'[j.plan] # -1
  BY DEF JobSound, Working, Searching, Kept
<1> QED
  BY <1>1, <1>2, <1>3 DEF JobSound, Working

\* A record that does not advance stays sound.
LEMMA RecordStays ==
    ASSUME TablesTyped, Kept, NEW c \in Cycles, RecordSound(c), prepare[c].phase > 0,
           prepare'[c] = prepare[c],
           cycle[SuccessorOf(prepare[c].plan)] = "NONE" =>
               cycle'[SuccessorOf(prepare[c].plan)] = "NONE"
    PROVE RecordSound(c)'
<1> DEFINE n == prepare[c].plan
<1>1. n \in Plans /\ Whole(c) /\ Done(n, c, prepare[c].phase)
  BY DEF RecordSound
<1>2. Whole(c)'
  BY <1>1, WholeStays
<1>3. PICK m, k : m = prepare[c].plan /\ k = prepare[c].phase
  OBVIOUS
<1>4. Done(m, c, k)'
  BY <1>1, <1>3, DoneStays
<1>5. cycle'[SuccessorOf(m)] # "NONE" => carry'[SuccessorOf(m)] = [from |-> c, amount |-> Quantity]
  BY <1>1, <1>3, PlanFacts DEF RecordSound, Kept
<1> QED
  BY <1>1, <1>2, <1>3, <1>4, <1>5 DEF RecordSound, SuccessorOf

-----------------------------------------------------------------------------
(* What each step writes. *)

\* Having done the work of a phase, a run advances its record or goes on.
LEMMA MarkingFacts ==
    ASSUME NEW j, JobTyped(j), NEW goal \in 2..7, NEW m, m = Marking(j, goal)
    PROVE /\ JobTyped(m)
          /\ Working(m) /\ Progress(m) = goal
          /\ m.plan = j.plan /\ m.source = j.source /\ m.phase = j.phase /\ m.grant = j.grant
          /\ m.pc \in {"MARK", "CARRY", "READ", "AUTHORITY", "PREAUTH", "SIDECAR", "PRINT"}
          /\ m.pc = "MARK" => m.goal = goal /\ m.phase < goal
          /\ Holding(m) <=> goal = 7
<1>1. goal = 2 \/ goal = 3 \/ goal = 4 \/ goal = 5 \/ goal = 6 \/ goal = 7
  OBVIOUS
<1>2. /\ After[2] = "CARRY" /\ After[3] = "READ" /\ After[4] = "AUTHORITY"
      /\ After[5] = "PREAUTH" /\ After[6] = "SIDECAR" /\ After[7] = "PRINT"
  BY DEF After
<1>3. PICK p : p = IF j.phase >= goal THEN After[goal] ELSE "MARK"
  OBVIOUS
<1>4. p \in Places /\ (p = "MARK" \/ p = After[goal])
  BY <1>1, <1>2, <1>3 DEF Places
<1>5. m = [pc |-> p, at |-> j.at, grant |-> j.grant, plan |-> j.plan, source |-> j.source,
           stale |-> j.stale, phase |-> j.phase, goal |-> goal]
  <2>1. m = [j EXCEPT !.pc = p, !.goal = goal]
    BY <1>3 DEF Marking
  <2> QED
    BY <2>1 DEF JobTyped
<1>6. /\ m.pc = p /\ m.goal = goal
      /\ m.plan = j.plan /\ m.source = j.source /\ m.phase = j.phase /\ m.grant = j.grant
  BY <1>5
<1>7. JobTyped(m)
  BY <1>4, <1>5 DEF JobTyped
<1>8. p = "MARK" => j.phase < goal
  <2>1. After[goal] # "MARK"
    BY <1>1, <1>2
  <2> QED
    BY <1>3, <2>1 DEF JobTyped
<1>9. Working(m) /\ Progress(m) = goal
  BY <1>1, <1>2, <1>4, <1>6 DEF Working, Progress, Searching, ReachedAt
<1>10. Holding(m) <=> goal = 7
  BY <1>1, <1>2, <1>4, <1>6 DEF Holding
<1> QED
  BY <1>1, <1>2, <1>4, <1>6, <1>7, <1>8, <1>9, <1>10

\* A transition to a state is that state, in the tables of intents.
LEMMA TransitionWrites ==
    ASSUME NEW a, NEW to, Transition(a, to)
    PROVE /\ state' = [state EXCEPT ![a] = to]
          /\ to \in TRANSITIONS[state[a]]
          /\ UNCHANGED <<admitted, cycle, carry, receipts>>
BY DEF Transition, MoveIntent, TransitionAllowed

\* A run that moves leaves the others where they are.
LEMMA MoveTyped ==
    ASSUME RunsTyped, NEW r \in Runs, NEW j, JobTyped(j), job' = [job EXCEPT ![r] = j]
    PROVE /\ RunsTyped' /\ job'[r] = j
          /\ \A s \in Runs \ {r} : job'[s] = job[s]
BY DEF RunsTyped

-----------------------------------------------------------------------------
(* What the tables are after a step, and that nothing was undone. *)

\* A run that works has a plan, on record in its source.
LEMMA WorkOnRecord ==
    ASSUME TablesTyped, RunsTyped, JobsSound, NEW r \in Runs, Working(job[r])
    PROVE /\ job[r].plan \in Plans /\ job[r].source \in Cycles /\ job[r].grant \in Grants
          /\ prepare[job[r].source].plan = job[r].plan
          /\ prepare[job[r].source].phase \in 1..7 /\ job[r].phase \in 1..7
          /\ job[r].phase <= prepare[job[r].source].phase
          /\ job[r].source \in Recorded
          /\ Done(job[r].plan, job[r].source, Progress(job[r]))
<1>1. JobSound(job[r]) /\ JobTyped(job[r])
  BY DEF JobsSound, RunsTyped
<1>2. job[r].pc \notin {"IDLE", "FRESH"}
  BY DEF Working, Searching
<1>3. job[r].source \in Cycles /\ job[r].grant \in Grants
  BY <1>1, <1>2 DEF JobSound
<1>4. /\ job[r].plan \in Plans /\ prepare[job[r].source].plan = job[r].plan
      /\ 1 <= job[r].phase /\ job[r].phase <= prepare[job[r].source].phase
      /\ Done(job[r].plan, job[r].source, Progress(job[r]))
  BY <1>1 DEF JobSound
<1>5. prepare[job[r].source].phase \in 0..7 /\ job[r].phase \in 0..7
  BY <1>1, <1>3 DEF TablesTyped, PrepareRecord, JobTyped
<1> QED
  BY <1>3, <1>4, <1>5 DEF Recorded

\* A record that is as it was is no further back.
LEMMA TablesSame ==
    ASSUME TablesTyped, UNCHANGED prepare
    PROVE \A c \in Cycles : prepare[c].phase > 0 => /\ prepare'[c].plan = prepare[c].plan
                                                    /\ prepare'[c].phase >= prepare[c].phase
BY DEF TablesTyped, PrepareRecord

\* The tables of intents, when only those change.
LEMMA IntentStepKept ==
    ASSUME TablesTyped, NEW a \in Actions,
           \/ CreateIntent(a)
           \/ state[a] \in {"ARMED", "TRIGGERED", "QUOTE_PINNED"}
                 /\ \E to \in {"TRIGGERED", "QUOTE_PINNED", "SIMULATED"} : Transition(a, to)
           \/ state[a] = "SIMULATED" /\ Transition(a, "RESERVED")
           \/ state[a] \in PRE_COMMITMENT_STATES /\ Transition(a, "CANCELLED"),
           UNCHANGED <<authorityVars, prepare, preauth, sidecar, printed>>
    PROVE TablesTyped' /\ Kept
<1>1. PICK to \in {"ARMED", "TRIGGERED", "QUOTE_PINNED", "SIMULATED", "RESERVED", "CANCELLED"} :
         /\ state' = [state EXCEPT ![a] = to]
         /\ state[a] # "FILLED" /\ to # "FILLED"
         /\ state[a] \in {"SIMULATED", "RESERVED", "CANCELLED"} => to \in {"RESERVED", "CANCELLED"}
  BY TransitionWrites DEF CreateIntent, PRE_COMMITMENT_STATES
<1>2. UNCHANGED <<admitted, cycle, carry, receipts>>
  BY TransitionWrites DEF CreateIntent
<1>3. state' \in [Actions -> IntentState \cup {"NONE"}]
  BY <1>1 DEF TablesTyped, IntentState
<1>4. TablesTyped'
  BY <1>2, <1>3 DEF TablesTyped, authorityVars
<1>5. state'[a] = to /\ \A b \in Actions \ {a} : state'[b] = state[b]
  BY <1>1 DEF TablesTyped
<1>6. UNCHANGED <<admitted, cycle, carry, receipts, sessions, preauth, sidecar, prepare>>
  BY <1>2 DEF authorityVars
<1>7. \A b \in Actions : /\ state[b] = "NONE" \/ state'[b] # "NONE"
                         /\ state[b] = "FILLED" <=> state'[b] = "FILLED"
                         /\ state[b] \in {"SIMULATED", "RESERVED", "CANCELLED"} =>
                              state'[b] \in {"SIMULATED", "RESERVED", "CANCELLED"}
                         /\ state[b] \in {"RESERVED", "CANCELLED"} =>
                              state'[b] \in {"RESERVED", "CANCELLED"}
  BY <1>1, <1>5
<1> QED
  BY <1>4, <1>6, <1>7, TablesSame DEF Kept

LEMMA CarryStepKept ==
    ASSUME TablesTyped, NEW c \in Cycles, NEW d \in Cycles,
           ContinueInventoryIntoSuccessorCycle(c, d),
           UNCHANGED <<authorityVars, prepare, preauth, sidecar, printed>>
    PROVE /\ TablesTyped' /\ Kept
          /\ \A e \in Cycles \ {d} : (cycle'[e] = "NONE" <=> cycle[e] = "NONE") /\ carry'[e] = carry[e]
          /\ cycle[d] = "NONE" /\ cycle'[d] = "OPEN" /\ CarriedFrom(c) = {}
          /\ carry'[d] = [from |-> c, amount |-> Inventory(c)]
<1>1. /\ Inventory(c) \in Nat /\ cycle[c] = "OPEN" /\ d # c /\ cycle[d] = "NONE"
      /\ CarriedFrom(c) = {}
      /\ UNCHANGED <<admitted, state, receipts>>
      /\ cycle' = [cycle EXCEPT ![c] = "COMPLETED", ![d] = "OPEN"]
      /\ carry' = [carry EXCEPT ![d] = [from |-> c, amount |-> Inventory(c)]]
  BY DEF ContinueInventoryIntoSuccessorCycle, ContinueGuard
<1>2. PICK i \in Nat : i = Inventory(c)
  BY <1>1
<1>3. /\ \A e \in Cycles \ {d} : (cycle'[e] = "NONE" <=> cycle[e] = "NONE") /\ carry'[e] = carry[e]
      /\ cycle'[d] = "OPEN" /\ carry'[d] = [from |-> c, amount |-> i]
  BY <1>1, <1>2 DEF TablesTyped
<1>4. /\ cycle' \in [Cycles -> CycleStatus \cup {"NONE"}]
      /\ carry' \in [Cycles -> [from: Cycles \cup {"none"}, amount: Nat]]
  BY <1>1, <1>2 DEF TablesTyped, CycleStatus
<1>5. TablesTyped'
  BY <1>1, <1>3, <1>4 DEF TablesTyped, authorityVars
<1>6. UNCHANGED <<admitted, state, receipts, sessions, preauth, sidecar, prepare>>
  BY <1>1 DEF authorityVars
<1>7. \A e \in Cycles : cycle[e] # "NONE" => cycle'[e] # "NONE" /\ carry'[e] = carry[e]
  BY <1>1, <1>3
<1>8. Kept
  BY <1>6, <1>7, TablesSame DEF Kept
<1> QED
  BY <1>1, <1>2, <1>3, <1>5, <1>8

\* A step that writes none of the tables.
LEMMA QuietKept ==
    ASSUME TablesTyped,
           UNCHANGED <<cycle, carry, state, receipts, admitted>>,
           UNCHANGED <<now, sessions, preauth, sidecar, printed, prepare>>
    PROVE TablesTyped' /\ Kept
<1>1. TablesTyped'
  BY DEF TablesTyped
<1> QED
  BY <1>1, TablesSame DEF Kept

Quiet(r) ==
    \/ \E g \in Grants : Load(r, g)
    \/ FindSource(r) \/ Prospect(r)
    \/ ReadCarried(r) \/ IntentSimulated(r) \/ RecordAuthority(r)
    \/ SkipReserve(r) \/ AuthorizeReserve(r) \/ AuthorizePreauth(r)

LEMMA QuietStepKept ==
    ASSUME TablesTyped, NEW r \in Runs, Quiet(r)
    PROVE TablesTyped' /\ Kept
<1>1. CASE \/ \E g \in Grants : Load(r, g)
           \/ FindSource(r) \/ Prospect(r) \/ IntentSimulated(r)
           \/ SkipReserve(r) \/ AuthorizeReserve(r) \/ AuthorizePreauth(r)
  <2>1. UNCHANGED <<ledgerVars, authorityVars, prepare, preauth, sidecar, printed>>
    BY <1>1 DEF Load, FindSource, Prospect, IntentSimulated, SkipReserve, AuthorizeReserve,
           AuthorizePreauth
  <2> QED
    BY <2>1, QuietKept DEF ledgerVars, authorityVars
<1>2. CASE ReadCarried(r)
  BY <1>2, QuietKept DEF ReadCarried, authorityVars
<1>3. CASE RecordAuthority(r)
  BY <1>3, QuietKept DEF RecordAuthority, RecordVerifiedAuthority, ledgerVars
<1> QED
  BY <1>1, <1>2, <1>3 DEF Quiet

\* record_prepare_plan and advance_prepare_phase.
LEMMA RecordStepKept ==
    ASSUME TablesTyped, RunsTyped, JobsSound, NEW r \in Runs, NEW c, c = job[r].source,
           NEW n, n = job[r].plan,
           RecordPreparePlan(r) \/ AdvancePreparePhase(r)
    PROVE /\ TablesTyped' /\ Kept /\ c \in Cycles /\ n \in Plans
          /\ \A d \in Cycles \ {c} : prepare'[d] = prepare[d]
          /\ AdvancePreparePhase(r) =>
                /\ prepare[c].plan = n
                /\ job[r].phase + 1 \in 2..7 /\ prepare[c].phase > 0
                /\ prepare'[c] = [plan |-> n, phase |-> job[r].phase + 1]
          /\ RecordPreparePlan(r) =>
                /\ prepare[c].phase = 0 => prepare'[c] = [plan |-> n, phase |-> 1]
                /\ prepare[c].phase > 0 => prepare' = prepare /\ prepare[c].plan = n
<1>1. JobSound(job[r]) /\ JobTyped(job[r])
  BY DEF JobsSound, RunsTyped
<1>2. job[r].pc \in {"RECORD", "MARK"}
  BY DEF RecordPreparePlan, AdvancePreparePhase
<1>3. c \in Cycles /\ n \in Plans
  BY <1>1, <1>2 DEF JobSound, Working, Searching
<1>4. prepare[c] \in PrepareRecord
  BY <1>3 DEF TablesTyped
<1>5. /\ UNCHANGED <<cycle, carry, state, receipts, admitted>>
      /\ UNCHANGED <<now, sessions, preauth, sidecar, printed>>
  BY DEF RecordPreparePlan, AdvancePreparePhase, ledgerVars, authorityVars
<1>6. CASE RecordPreparePlan(r) /\ prepare[c].phase = 0
  <2>1. prepare' = [prepare EXCEPT ![c] = [plan |-> n, phase |-> 1]]
    BY <1>6 DEF RecordPreparePlan
  <2>2. [plan |-> n, phase |-> 1] \in PrepareRecord
    BY <1>3 DEF PrepareRecord
  <2>3. prepare' \in [Cycles -> PrepareRecord]
    BY <2>1, <2>2 DEF TablesTyped
  <2>4. TablesTyped'
    BY <1>5, <2>3 DEF TablesTyped
  <2>5. prepare'[c] = [plan |-> n, phase |-> 1] /\ \A d \in Cycles \ {c} : prepare'[d] = prepare[d]
    BY <1>3, <2>1 DEF TablesTyped
  <2>6. \A d \in Cycles : prepare[d].phase > 0 => prepare'[d] = prepare[d] /\ prepare[d].phase \in Nat
    BY <1>6, <2>5 DEF TablesTyped, PrepareRecord
  <2>7. Kept
    BY <1>5, <2>6 DEF Kept
  <2>8. ~AdvancePreparePhase(r)
    BY <1>6 DEF RecordPreparePlan, AdvancePreparePhase
  <2> QED
    BY <1>3, <1>6, <2>4, <2>5, <2>7, <2>8
<1>7. CASE RecordPreparePlan(r) /\ prepare[c].phase # 0
  <2>1. prepare' = prepare /\ prepare[c].plan = n
    BY <1>7 DEF RecordPreparePlan
  <2>2. TablesTyped' /\ Kept
    BY <1>5, <2>1, QuietKept
  <2>3. ~AdvancePreparePhase(r)
    BY <1>7 DEF RecordPreparePlan, AdvancePreparePhase
  <2> QED
    BY <1>3, <1>7, <2>1, <2>2, <2>3
<1>8. CASE AdvancePreparePhase(r)
  <2> DEFINE next == job[r].phase + 1
  <2>1. job[r].pc = "MARK" /\ job[r].goal \in 2..7 /\ job[r].phase < job[r].goal
    BY <1>1, <1>8 DEF AdvancePreparePhase, JobSound
  <2>2. /\ prepare[c].plan = n /\ prepare[c].phase \in 1..7 /\ job[r].phase \in 1..7
    BY <2>1, WorkOnRecord DEF Working, Searching
  <2>3. next \in 2..7
    BY <2>1, <2>2
  <2>4. PICK k : k = next
    OBVIOUS
  <2>5. prepare' = [prepare EXCEPT ![c].phase = k] /\ k >= prepare[c].phase
    BY <1>8, <2>2, <2>3, <2>4 DEF AdvancePreparePhase
  <2>6. prepare'[c] = [plan |-> n, phase |-> k] /\ \A d \in Cycles \ {c} : prepare'[d] = prepare[d]
    BY <1>3, <1>4, <2>2, <2>5 DEF TablesTyped, PrepareRecord
  <2>7. [plan |-> n, phase |-> k] \in PrepareRecord
    BY <1>3, <2>3, <2>4 DEF PrepareRecord
  <2>8. prepare' \in [Cycles -> PrepareRecord]
    <3>1. prepare' = [d \in Cycles |-> prepare'[d]]
      BY <2>5 DEF TablesTyped
    <3>2. \A d \in Cycles : prepare'[d] \in PrepareRecord
      BY <2>6, <2>7 DEF TablesTyped
    <3> QED
      BY <3>1, <3>2
  <2>9. TablesTyped'
    BY <1>5, <2>8 DEF TablesTyped
  <2>10. \A d \in Cycles : prepare[d].phase \in Nat
    BY DEF TablesTyped, PrepareRecord
  <2>11. \A d \in Cycles : prepare[d].phase > 0 => /\ prepare'[d].plan = prepare[d].plan
                                                   /\ prepare'[d].phase >= prepare[d].phase
    BY <2>2, <2>5, <2>6, <2>10
  <2>12. Kept
    BY <1>5, <2>11 DEF Kept
  <2>13. ~RecordPreparePlan(r)
    BY <2>1 DEF RecordPreparePlan
  <2> QED
    BY <1>3, <2>2, <2>3, <2>4, <2>6, <2>9, <2>12, <2>13
<1> QED
  BY <1>6, <1>7, <1>8

\* A step that only adds to the tables.
LEMMA AddedKept ==
    ASSUME TablesTyped, UNCHANGED <<cycle, carry, state, receipts, prepare>>,
           admitted \subseteq admitted', preauth \subseteq preauth',
           \A n \in Plans : sessions[n] # -1 => sessions'[n] # -1,
           sidecar \in Plans => UNCHANGED sidecar
    PROVE Kept
BY TablesSame DEF Kept

\* The level of a session is no missing row.
LEMMA SessionLevel ==
    ASSUME NEW n, NEW g \in Grants
    PROVE EffectiveLevel(n, g) \in 0..4
<1>1. GrantInfo[g].level \in 0..4
  BY GrantAssumption DEF GrantRecord
<1> QED
  BY <1>1 DEF EffectiveLevel, Lesser, PHASE_GRANTED_AUTHORITY_LEVEL, RECONCILE_ONLY

LEMMA SessionStepKept ==
    ASSUME TablesTyped, RunsTyped, JobsSound, NEW r \in Runs, NEW n, n = job[r].plan,
           RecordSession(r)
    PROVE /\ TablesTyped' /\ Kept
          /\ n \in Plans /\ sessions'[n] # -1
          /\ \A m \in Plans \ {n} : sessions'[m] = sessions[m]
<1>1. job[r].pc = "SESSION"
  BY DEF RecordSession
<1>2. n \in Plans /\ job[r].grant \in Grants
  BY <1>1, WorkOnRecord DEF Working, Searching
<1>3. PICK k \in 0..4 : k = EffectiveLevel(n, job[r].grant)
  BY <1>2, SessionLevel
<1>4. sessions' = [sessions EXCEPT ![n] = k] /\ UNCHANGED <<now, ledgerVars, prepare, preauth, sidecar, printed>>
  BY <1>3 DEF RecordSession, CreateExecutionSession
<1>5. sessions'[n] = k /\ \A m \in Plans \ {n} : sessions'[m] = sessions[m]
  BY <1>2, <1>4 DEF TablesTyped
<1>6. sessions' \in [Plans -> Int]
  BY <1>2, <1>4 DEF TablesTyped
<1>7. UNCHANGED <<cycle, carry, state, receipts, admitted>>
  BY <1>4 DEF ledgerVars
<1>8. TablesTyped'
  BY <1>4, <1>6, <1>7 DEF TablesTyped
<1>9. Kept
  BY <1>4, <1>5, <1>7, AddedKept
<1> QED
  BY <1>2, <1>5, <1>8, <1>9

\* The steps that add a policy, an approval and envelope, the file, a print.
Adding(r) ==
    \/ AdmitSuccessor(r) \/ FreezePreauth(r)
    \/ CreateSidecar(r) \/ WriteSidecar(r) \/ PrintSigningRequests(r) \/ Die(r)

LEMMA AddingKept ==
    ASSUME TablesTyped, RunsTyped, JobsSound, OneHolder, NEW r \in Runs, Adding(r)
    PROVE TablesTyped' /\ Kept
<1>1. CASE AdmitSuccessor(r)
  <2>1. /\ UNCHANGED <<cycle, carry, state, receipts>> /\ admitted \subseteq admitted'
        /\ UNCHANGED <<now, sessions, preauth, sidecar, printed, prepare>>
    BY <1>1 DEF AdmitSuccessor, AdmitPolicy, ledgerVars, authorityVars
  <2> QED
    BY <2>1, AddedKept DEF TablesTyped
<1>2. CASE FreezePreauth(r)
  <2>1. /\ UNCHANGED <<cycle, carry, state, receipts, admitted>> /\ preauth \subseteq preauth'
        /\ UNCHANGED <<now, sessions, sidecar, printed, prepare>>
    BY <1>2 DEF FreezePreauth, ledgerVars, authorityVars
  <2> QED
    BY <2>1, AddedKept DEF TablesTyped
<1>3. CASE CreateSidecar(r) \/ WriteSidecar(r) \/ Die(r)
  <2>1. /\ UNCHANGED <<cycle, carry, state, receipts, admitted>>
        /\ UNCHANGED <<now, sessions, preauth, printed, prepare>>
    BY <1>3 DEF CreateSidecar, WriteSidecar, Die, ledgerVars, authorityVars
  <2>2. UNCHANGED sidecar \/ sidecar \in {"NONE", "PARTIAL"}
    BY <1>3 DEF CreateSidecar, WriteSidecar, Die, OneHolder
  <2> QED
    BY <2>1, <2>2, FileAssumption, AddedKept DEF TablesTyped
<1>4. CASE PrintSigningRequests(r)
  <2>1. /\ UNCHANGED <<cycle, carry, state, receipts, admitted>>
        /\ UNCHANGED <<now, sessions, preauth, sidecar, prepare>>
        /\ printed' = [printed EXCEPT ![job[r].plan] = @ + 1]
    BY <1>4 DEF PrintSigningRequests, ledgerVars, authorityVars
  <2>2. printed' \in [Plans -> Nat]
    <3>1. job[r].plan \in Plans
      BY <1>4, WorkOnRecord DEF PrintSigningRequests, Working, Searching
    <3> QED
      BY <2>1, <3>1 DEF TablesTyped
  <2> QED
    BY <2>1, <2>2, AddedKept DEF TablesTyped
<1> QED
  BY <1>1, <1>2, <1>3, <1>4 DEF Adding

\* The steps that move intents.
LEMMA SellStepKept ==
    ASSUME TablesTyped, RunsTyped, JobsSound, NEW r \in Runs, AdvanceIntent(r) \/ ReserveSell(r)
    PROVE TablesTyped' /\ Kept
<1> DEFINE a == SellOf(job[r].plan)
<1>1. job[r].pc \in {"INTENT", "RESERVING"}
  BY DEF AdvanceIntent, ReserveSell
<1>2. a \in Actions
  BY <1>1, WorkOnRecord, PlanFacts DEF Working, Searching
<1>3. UNCHANGED <<authorityVars, prepare, preauth, sidecar, printed>>
  BY DEF AdvanceIntent, ReserveSell, sagaVars
<1>4. CASE AdvanceIntent(r)
  <2>1. CASE CreateIntent(a)
    BY <1>2, <1>3, <2>1, IntentStepKept
  <2>2. CASE state[a] \in DOMAIN SimulationStep /\ Transition(a, SimulationStep[state[a]])
    <3>1. /\ state[a] \in {"ARMED", "TRIGGERED", "QUOTE_PINNED"}
          /\ SimulationStep[state[a]] \in {"TRIGGERED", "QUOTE_PINNED", "SIMULATED"}
      BY <2>2 DEF SimulationStep
    <3> QED
      BY <1>2, <1>3, <2>2, <3>1, IntentStepKept
  <2> QED
    BY <1>4, <2>1, <2>2 DEF AdvanceIntent
<1>5. CASE ReserveSell(r)
  <2>1. CASE state[a] = "SIMULATED" /\ Transition(a, "RESERVED")
    BY <1>2, <1>3, <2>1, IntentStepKept
  <2>2. CASE UNCHANGED ledgerVars
    BY <1>3, <2>2, QuietKept DEF ledgerVars, authorityVars
  <2> QED
    BY <1>5, <2>1, <2>2 DEF ReserveSell
<1> QED
  BY <1>4, <1>5

\* The carry, or finding that it has been carried.
LEMMA CarryInventoryKept ==
    ASSUME TablesTyped, RunsTyped, JobsSound, NEW r \in Runs, CarryInventory(r)
    PROVE TablesTyped' /\ Kept
<1>1. job[r].source \in Cycles /\ job[r].plan \in Plans
  BY WorkOnRecord DEF CarryInventory, Working, Searching
<1>2. UNCHANGED <<authorityVars, prepare, preauth, sidecar, printed>>
  BY DEF CarryInventory
<1>3. CASE ContinueInventoryIntoSuccessorCycle(job[r].source, SuccessorOf(job[r].plan))
  BY <1>1, <1>2, <1>3, PlanFacts, CarryStepKept
<1>4. CASE UNCHANGED ledgerVars
  BY <1>2, <1>4, QuietKept DEF ledgerVars, authorityVars
<1> QED
  BY <1>3, <1>4 DEF CarryInventory

\* Whatever anybody does.
LEMMA StepKept ==
    ASSUME TablesTyped, RunsTyped, JobsSound, OneHolder, PrepareNext
    PROVE TablesTyped' /\ Kept
<1>1. CASE \E r \in Runs : Run(r) \/ Die(r)
  <2>1. PICK r \in Runs : Run(r) \/ Die(r)
    BY <1>1
  <2>2. \/ Quiet(r) \/ Adding(r) \/ RecordPreparePlan(r) \/ AdvancePreparePhase(r)
        \/ RecordSession(r) \/ AdvanceIntent(r) \/ ReserveSell(r) \/ CarryInventory(r)
    BY <2>1 DEF Run, Quiet, Adding
  <2> QED
    BY <2>2, QuietStepKept, AddingKept, RecordStepKept, SessionStepKept, SellStepKept,
       CarryInventoryKept
<1>2. CASE \E n \in Plans : RecordSigned(n)
  BY <1>2, QuietKept DEF RecordSigned, ledgerVars, authorityVars
<1>3. CASE \E a \in Actions : RecoverCancels(a)
  BY <1>3, IntentStepKept DEF RecoverCancels, sagaVars
<1>4. CASE Others
  <2>1. /\ UNCHANGED <<cycle, carry, state, receipts, admitted>>
        /\ UNCHANGED <<sessions, preauth, sidecar, printed, prepare>>
    BY <1>4 DEF Others, Tick, EngageKillSwitch, ledgerVars, sagaVars
  <2>2. now' \in Nat
    BY <1>4 DEF Others, Tick, EngageKillSwitch, TablesTyped
  <2> QED
    BY <2>1, <2>2, AddedKept DEF TablesTyped
<1> QED
  BY <1>1, <1>2, <1>3, <1>4 DEF PrepareNext

-----------------------------------------------------------------------------
(* A run that moves is sound where it gets to. *)

OnRecord(j) ==
    /\ j.grant \in Grants /\ j.source \in Cycles /\ Whole(j.source)
    /\ j.plan \in Plans /\ prepare[j.source].plan = j.plan
    /\ 1 <= j.phase /\ j.phase <= prepare[j.source].phase

LEMMA WorkersOnRecord ==
    ASSUME NEW j, JobSound(j)', Working(j)
    PROVE OnRecord(j)' /\ Done(j.plan, j.source, Progress(j))'
BY DEF JobSound, OnRecord, Working, Searching

LEMMA MarkedSound ==
    ASSUME NEW j, JobTyped(j), OnRecord(j)', NEW goal \in 2..7, Done(j.plan, j.source, goal)',
           NEW m, m = Marking(j, goal)
    PROVE JobTyped(m) /\ JobSound(m)'
<1>1. /\ JobTyped(m)
      /\ Working(m) /\ Progress(m) = goal
      /\ m.plan = j.plan /\ m.source = j.source /\ m.phase = j.phase /\ m.grant = j.grant
      /\ m.pc \in {"MARK", "CARRY", "READ", "AUTHORITY", "PREAUTH", "SIDECAR", "PRINT"}
      /\ m.pc = "MARK" => m.goal = goal /\ m.phase < goal
  BY MarkingFacts
<1>2. Done(m.plan, m.source, Progress(m))'
  BY <1>1
<1> QED
  BY <1>1, <1>2 DEF JobSound, OnRecord

LEMMA PlacedSound ==
    ASSUME NEW j, JobTyped(j), JobSound(j)', Working(j), j.pc # "MARK",
           NEW p \in {"INTENT", "SESSION", "RESERVE", "RESERVING", "FREEZE", "WRITING"},
           ReachedAt[p] = ReachedAt[j.pc],
           p \in {"RESERVE", "RESERVING"} => sessions'[j.plan] # -1,
           NEW m, m = [j EXCEPT !.pc = p]
    PROVE JobTyped(m) /\ JobSound(m)' /\ Working(m) /\ m.pc = p
<1>1. /\ OnRecord(j)' /\ Done(j.plan, j.source, Progress(j))'
  BY WorkersOnRecord
<1>2. m = [pc |-> p, at |-> j.at, grant |-> j.grant, plan |-> j.plan, source |-> j.source,
           stale |-> j.stale, phase |-> j.phase, goal |-> j.goal]
  BY DEF JobTyped
<1>3. /\ m.pc = p /\ m.plan = j.plan /\ m.source = j.source /\ m.phase = j.phase
      /\ m.grant = j.grant /\ m.goal = j.goal
  BY <1>2
<1>4. JobTyped(m)
  BY <1>2 DEF JobTyped, Places
<1>5. Progress(m) = Progress(j)
  BY <1>3 DEF Progress
<1>6. Done(m.plan, m.source, Progress(m))'
  BY <1>1, <1>3, <1>5
<1> QED
  BY <1>1, <1>3, <1>4, <1>6 DEF JobSound, OnRecord, Working, Searching

\* What a run that moves comes to.
MovesSoundly(r) == \E m : job' = [job EXCEPT ![r] = m] /\ JobTyped(m) /\ JobSound(m)'

\* Where the run was is still a sound place.
LEMMA WorkerAfter ==
    ASSUME TablesTyped, RunsTyped, JobsSound, OneHolder, PrepareNext, NEW r \in Runs,
           NEW j, j = job[r]
    PROVE JobTyped(j) /\ JobSound(j) /\ JobSound(j)'
<1>1. JobTyped(j) /\ JobSound(j)
  BY DEF RunsTyped, JobsSound
<1> QED
  BY <1>1, StepKept, JobStays

\* A run that only thinks: what it decides is sound, now and so after the step.
LEMMA SearchMoves ==
    ASSUME TablesTyped, RunsTyped, JobsSound, RecordsSound, OneHolder, PrepareNext,
           NEW r \in Runs, (\E g \in Grants : Load(r, g)) \/ FindSource(r) \/ Prospect(r)
    PROVE MovesSoundly(r)
<1>1. PICK j : j = job[r]
  OBVIOUS
<1>2. JobTyped(j) /\ JobSound(j)
  BY <1>1, WorkerAfter
<1>3. ASSUME NEW m, job' = [job EXCEPT ![r] = m], JobTyped(m), JobSound(m)
      PROVE MovesSoundly(r)
  BY <1>3, StepKept, JobStays DEF MovesSoundly
<1>4. ASSUME NEW g \in Grants, Load(r, g)
      PROVE MovesSoundly(r)
  <2>1. CASE Recorded = {}
    <3>1. PICK m : m = [Resting EXCEPT !.pc = "FRESH", !.at = now, !.grant = g]
      OBVIOUS
    <3>2. m = [pc |-> "FRESH", at |-> now, grant |-> g, plan |-> "none", source |-> "none",
               stale |-> FALSE, phase |-> 0, goal |-> 0]
      BY <3>1 DEF Resting
    <3>3. JobTyped(m) /\ JobSound(m)
      BY <3>2 DEF JobTyped, Places, JobSound, Working, Searching
    <3>4. job' = [job EXCEPT ![r] = m]
      BY <1>4, <2>1, <3>1 DEF Load
    <3> QED
      BY <1>3, <3>3, <3>4
  <2>2. CASE Recorded # {}
    <3>1. PICK c \in Recorded :
             job' = [job EXCEPT ![r] =
                      [Resting EXCEPT !.pc = "ADMIT", !.at = now, !.grant = g,
                          !.plan = prepare[c].plan, !.source = c, !.phase = prepare[c].phase]]
      BY <1>4, <2>2 DEF Load
    <3>2. PICK m : m = [Resting EXCEPT !.pc = "ADMIT", !.at = now, !.grant = g,
                          !.plan = prepare[c].plan, !.source = c, !.phase = prepare[c].phase]
      OBVIOUS
    <3>3. c \in Cycles /\ prepare[c].phase \in 1..7
      BY DEF Recorded, TablesTyped, PrepareRecord
    <3>4. m = [pc |-> "ADMIT", at |-> now, grant |-> g, plan |-> prepare[c].plan, source |-> c,
               stale |-> FALSE, phase |-> prepare[c].phase, goal |-> 0]
      BY <3>2 DEF Resting
    <3>5. prepare[c].plan \in Plans /\ Whole(c)
      <4>1. RecordSound(c) /\ prepare[c].phase > 0
        BY <3>3 DEF RecordsSound
      <4> QED
        BY <4>1 DEF RecordSound
    <3>6. Done(m.plan, m.source, Progress(m))
      BY <3>4 DEF Done, Progress, ReachedAt
    <3>7. JobTyped(m)
      BY <3>3, <3>4 DEF JobTyped, Places
    <3>8. JobSound(m)
      BY <3>3, <3>4, <3>5, <3>6 DEF JobSound
    <3> QED
      BY <1>3, <3>1, <3>2, <3>7, <3>8
  <2> QED
    BY <2>1, <2>2
<1>5. CASE FindSource(r)
  <2>1. PICK c \in Opened, b \in BOOLEAN :
           /\ cycle[c] = "OPEN" /\ Inventory(c) = Quantity
           /\ job' = [job EXCEPT ![r].pc = "SOURCED", ![r].source = c, ![r].stale = b]
    BY <1>5 DEF FindSource
  <2>2. PICK m : m = [j EXCEPT !.pc = "SOURCED", !.source = c, !.stale = b]
    OBVIOUS
  <2>3. m = [pc |-> "SOURCED", at |-> j.at, grant |-> j.grant, plan |-> j.plan, source |-> c,
             stale |-> b, phase |-> j.phase, goal |-> j.goal]
    BY <1>2, <2>2 DEF JobTyped
  <2>4. job' = [job EXCEPT ![r] = m]
    BY <1>1, <2>1, <2>2 DEF RunsTyped
  <2>5. c \in Cycles /\ Whole(c)
    BY <2>1 DEF Opened, Whole
  <2>6. j.grant \in Grants
    BY <1>1, <1>2, <1>5 DEF FindSource, JobSound
  <2>7. JobTyped(m)
    BY <1>2, <2>3 DEF JobTyped, Places
  <2>8. JobSound(m)
    BY <2>3, <2>5, <2>6 DEF JobSound, Working, Searching
  <2> QED
    BY <1>3, <2>4, <2>7, <2>8
<1>6. CASE Prospect(r)
  <2>1. PICK p \in {"RECORD", "NAME_ERROR"}, n \in Plans :
           job' = [job EXCEPT ![r].pc = p, ![r].plan = n]
    BY <1>6 DEF Prospect
  <2>2. PICK m : m = [j EXCEPT !.pc = p, !.plan = n]
    OBVIOUS
  <2>3. m = [pc |-> p, at |-> j.at, grant |-> j.grant, plan |-> n, source |-> j.source,
             stale |-> j.stale, phase |-> j.phase, goal |-> j.goal]
    BY <1>2, <2>2 DEF JobTyped
  <2>4. job' = [job EXCEPT ![r] = m]
    BY <1>1, <2>1, <2>2 DEF RunsTyped
  <2>5. j.grant \in Grants /\ j.source \in Cycles /\ Whole(j.source)
    BY <1>1, <1>2, <1>6 DEF Prospect, JobSound
  <2>6. JobTyped(m)
    BY <1>2, <2>3 DEF JobTyped, Places
  <2>7. JobSound(m)
    BY <2>3, <2>5 DEF JobSound, Working, Searching
  <2> QED
    BY <1>3, <2>4, <2>6, <2>7
<1> QED
  BY <1>4, <1>5, <1>6

\* A run whose place follows on the same phase.
LEMMA PlaceMoves ==
    ASSUME TablesTyped, RunsTyped, JobsSound, OneHolder, PrepareNext, NEW r \in Runs,
           NEW j, j = job[r], Working(j), j.pc # "MARK",
           NEW p \in {"INTENT", "SESSION", "RESERVE", "RESERVING", "FREEZE", "WRITING"},
           ReachedAt[p] = ReachedAt[j.pc],
           p \in {"RESERVE", "RESERVING"} => sessions'[j.plan] # -1,
           job' = [job EXCEPT ![r].pc = p]
    PROVE MovesSoundly(r)
<1>1. JobTyped(j) /\ JobSound(j)'
  BY WorkerAfter
<1>2. PICK m : m = [j EXCEPT !.pc = p]
  OBVIOUS
<1>3. JobTyped(m) /\ JobSound(m)'
  BY <1>1, <1>2, PlacedSound
<1>4. job' = [job EXCEPT ![r] = m]
  BY <1>2 DEF RunsTyped
<1> QED
  BY <1>3, <1>4 DEF MovesSoundly

\* A run that has done the work of a phase.
LEMMA MarkMoves ==
    ASSUME TablesTyped, RunsTyped, JobsSound, OneHolder, PrepareNext, NEW r \in Runs,
           NEW j, j = job[r], Working(j),
           NEW goal \in 2..7, Done(j.plan, j.source, goal)',
           job' = [job EXCEPT ![r] = Marking(@, goal)]
    PROVE MovesSoundly(r)
<1>1. JobTyped(j) /\ JobSound(j)'
  BY WorkerAfter
<1>2. OnRecord(j)'
  BY <1>1, WorkersOnRecord
<1>3. PICK m : m = Marking(j, goal)
  OBVIOUS
<1>4. JobTyped(m) /\ JobSound(m)'
  BY <1>1, <1>2, <1>3, MarkedSound
<1>5. job' = [job EXCEPT ![r] = m]
  BY <1>3 DEF RunsTyped
<1> QED
  BY <1>4, <1>5 DEF MovesSoundly

\* A run that ends.
LEMMA RestMoves ==
    ASSUME NEW r \in Runs, job' = [job EXCEPT ![r] = Resting]
    PROVE MovesSoundly(r)
<1>1. Resting = [pc |-> "IDLE", at |-> 0, grant |-> "none", plan |-> "none",
                 source |-> "none", stale |-> FALSE, phase |-> 0, goal |-> 0]
  BY DEF Resting
<1>2. JobTyped(Resting)
  BY <1>1 DEF JobTyped, Places
<1>3. JobSound(Resting)'
  BY <1>1 DEF JobSound, Working, Searching
<1> QED
  BY <1>2, <1>3 DEF MovesSoundly

\* The steps that go on to the next place of the same phase.
LEMMA PlacingMoves ==
    ASSUME TablesTyped, RunsTyped, JobsSound, OneHolder, PrepareNext, NEW r \in Runs,
           \/ ReadCarried(r) \/ RecordAuthority(r) \/ RecordSession(r)
           \/ AuthorizeReserve(r) \/ AuthorizePreauth(r) \/ CreateSidecar(r)
    PROVE MovesSoundly(r)
<1>1. PICK j : j = job[r]
  OBVIOUS
<1>2. ASSUME NEW p \in {"INTENT", "SESSION", "RESERVE", "RESERVING", "FREEZE", "WRITING"},
             j.pc \in DOMAIN ReachedAt, ReachedAt[p] = ReachedAt[j.pc],
             p \in {"RESERVE", "RESERVING"} => sessions'[j.plan] # -1,
             job' = [job EXCEPT ![r].pc = p]
      PROVE MovesSoundly(r)
  <2>1. Working(j) /\ j.pc # "MARK"
    BY <1>2 DEF ReachedAt, Working, Searching
  <2> QED
    BY <1>1, <1>2, <2>1, PlaceMoves
<1>3. CASE ReadCarried(r)
  BY <1>1, <1>2, <1>3 DEF ReadCarried, ReachedAt
<1>4. CASE RecordAuthority(r)
  BY <1>1, <1>2, <1>4 DEF RecordAuthority, ReachedAt
<1>5. CASE RecordSession(r)
  <2>1. sessions'[j.plan] # -1
    BY <1>1, <1>5, SessionStepKept
  <2> QED
    BY <1>1, <1>2, <1>5, <2>1 DEF RecordSession, ReachedAt
<1>6. CASE AuthorizeReserve(r)
  <2>1. job[r].pc = "RESERVE"
    BY <1>6 DEF AuthorizeReserve
  <2>2. JobSound(j)'
    BY <1>1, WorkerAfter
  <2>3. sessions'[j.plan] # -1
    BY <1>1, <2>1, <2>2 DEF JobSound
  <2> QED
    BY <1>1, <1>2, <1>6, <2>3 DEF AuthorizeReserve, ReachedAt
<1>7. CASE AuthorizePreauth(r)
  BY <1>1, <1>2, <1>7 DEF AuthorizePreauth, ReachedAt
<1>8. CASE CreateSidecar(r)
  BY <1>1, <1>2, <1>8 DEF CreateSidecar, ReachedAt
<1> QED
  BY <1>3, <1>4, <1>5, <1>6, <1>7, <1>8

\* What a run that works had done it has done after the step.
LEMMA DoneAfter ==
    ASSUME TablesTyped, RunsTyped, JobsSound, OneHolder, PrepareNext, NEW r \in Runs,
           NEW j, j = job[r], Working(j), NEW k, k = Progress(j)
    PROVE /\ Done(j.plan, j.source, k)' /\ j.plan \in Plans /\ j.source \in Cycles
          /\ prepare[j.source].plan = j.plan /\ prepare[j.source].phase > 0
<1>1. OnRecord(j)' /\ Done(j.plan, j.source, Progress(j))'
  BY WorkerAfter, WorkersOnRecord
<1> QED
  BY <1>1, WorkOnRecord

\* The steps that end the work of a phase.
LEMMA MarkingMoves ==
    ASSUME TablesTyped, RunsTyped, JobsSound, RecordsSound, OneHolder, PrepareNext,
           NEW r \in Runs,
           \/ AdmitSuccessor(r) \/ CarryInventory(r) \/ IntentSimulated(r) \/ SkipReserve(r)
           \/ ReserveSell(r) \/ FreezePreauth(r) \/ WriteSidecar(r)
    PROVE MovesSoundly(r)
<1>1. PICK j : j = job[r]
  OBVIOUS
<1>2. PICK n, c : n = j.plan /\ c = j.source
  OBVIOUS
<1>3. Working(j) /\ j.pc # "MARK"
  BY <1>1 DEF AdmitSuccessor, CarryInventory, IntentSimulated, SkipReserve, ReserveSell,
         FreezePreauth, WriteSidecar, Working, Searching
<1>4. PICK k : k = Progress(j)
  OBVIOUS
<1>5. /\ Done(n, c, k)' /\ n \in Plans /\ c \in Cycles
      /\ prepare[c].plan = n /\ prepare[c].phase > 0
  BY <1>1, <1>2, <1>3, <1>4, DoneAfter
<1>6. k = ReachedAt[j.pc]
  BY <1>3, <1>4 DEF Progress
<1>7. ASSUME NEW goal \in 2..7, Done(n, c, goal)', job' = [job EXCEPT ![r] = Marking(@, goal)]
      PROVE MovesSoundly(r)
  BY <1>1, <1>2, <1>3, <1>7, MarkMoves
<1>8. PICK a \in Actions, d \in Cycles : a = SellOf(n) /\ d = SuccessorOf(n)
  BY <1>5, PlanFacts
<1>9. CASE AdmitSuccessor(r)
  <2>1. SuccessorPolicy(n) \in admitted'
    BY <1>1, <1>2, <1>9 DEF AdmitSuccessor, AdmitPolicy, ledgerVars
  <2>2. Done(n, c, 2)'
    BY <2>1 DEF Done, SuccessorPolicy, SuccessorOf
  <2> QED
    BY <1>7, <1>9, <2>2 DEF AdmitSuccessor
<1>10. CASE CarryInventory(r)
  <2>1. k = 2
    BY <1>1, <1>6, <1>10 DEF CarryInventory, ReachedAt
  <2>2. cycle'[d] # "NONE" /\ carry'[d] = [from |-> c, amount |-> Quantity]
    <3>1. CASE ContinueInventoryIntoSuccessorCycle(c, d)
      <4>1. /\ cycle'[d] = "OPEN" /\ CarriedFrom(c) = {}
            /\ carry'[d] = [from |-> c, amount |-> Inventory(c)]
        BY <1>5, <1>8, <1>10, <3>1, CarryStepKept DEF CarryInventory
      <4>2. JobSound(j)
        BY <1>1, WorkerAfter
      <4>3. Whole(c)
        BY <1>2, <1>3, <4>2 DEF JobSound, Working, Searching
      <4> QED
        BY <4>1, <4>3 DEF Whole
    <3>2. CASE cycle[d] # "NONE"
      <4>1. RecordSound(c)
        BY <1>5 DEF RecordsSound
      <4>2. carry[d] = [from |-> c, amount |-> Quantity]
        BY <1>5, <1>8, <3>2, <4>1 DEF RecordSound
      <4> QED
        BY <3>2, <4>2, StepKept DEF Kept
    <3> QED
      BY <1>1, <1>2, <1>8, <1>10, <3>1, <3>2 DEF CarryInventory
  <2>3. Done(n, c, 3)'
    BY <1>5, <1>8, <2>1, <2>2 DEF Done, SuccessorOf
  <2> QED
    BY <1>7, <1>10, <2>3 DEF CarryInventory
<1>11. CASE IntentSimulated(r)
  <2>1. k = 3
    BY <1>1, <1>6, <1>11 DEF IntentSimulated, ReachedAt
  <2>2. state'[a] \in {"SIMULATED", "RESERVED"}
    BY <1>1, <1>2, <1>8, <1>11 DEF IntentSimulated, ledgerVars
  <2>3. Done(n, c, 4)'
    BY <1>5, <1>8, <2>1, <2>2 DEF Done, SellOf
  <2> QED
    BY <1>7, <1>11, <2>3 DEF IntentSimulated
<1>12. CASE SkipReserve(r) \/ ReserveSell(r)
  <2>1. j.pc \in {"RESERVE", "RESERVING"} /\ k = 4
    BY <1>1, <1>6, <1>12 DEF SkipReserve, ReserveSell, ReachedAt
  <2>2. sessions'[n] # -1
    <3>1. JobSound(j)'
      BY <1>1, WorkerAfter
    <3> QED
      BY <1>2, <2>1, <3>1 DEF JobSound
  <2>3. state'[a] \in {"SIMULATED", "RESERVED", "CANCELLED"}
    BY <1>5, <1>8, <2>1 DEF Done, SellOf
  <2>4. state'[a] # "SIMULATED"
    <3>1. CASE SkipReserve(r)
      BY <1>1, <1>2, <1>8, <3>1 DEF SkipReserve, ledgerVars
    <3>2. CASE ReserveSell(r)
      <4>1. CASE Transition(a, "RESERVED")
        <5>1. TablesTyped /\ state' = [state EXCEPT ![a] = "RESERVED"]
          BY <4>1, TransitionWrites
        <5> QED
          BY <5>1 DEF TablesTyped
      <4>2. CASE state[a] = "RESERVED" /\ UNCHANGED ledgerVars
        BY <4>2 DEF ledgerVars
      <4> QED
        BY <1>1, <1>2, <1>8, <3>2, <4>1, <4>2 DEF ReserveSell
    <3> QED
      BY <1>12, <3>1, <3>2
  <2>5. Done(n, c, 5)'
    BY <1>5, <1>8, <2>1, <2>2, <2>3, <2>4 DEF Done, SellOf
  <2> QED
    BY <1>7, <1>12, <2>5 DEF SkipReserve, ReserveSell
<1>13. CASE FreezePreauth(r)
  <2>1. k = 5
    BY <1>1, <1>6, <1>13 DEF FreezePreauth, ReachedAt
  <2>2. n \in preauth'
    BY <1>1, <1>2, <1>13 DEF FreezePreauth
  <2>3. Done(n, c, 6)'
    BY <1>5, <2>1, <2>2 DEF Done
  <2> QED
    BY <1>7, <1>13, <2>3 DEF FreezePreauth
<1>14. CASE WriteSidecar(r)
  <2>1. k = 6
    BY <1>1, <1>6, <1>14 DEF WriteSidecar, ReachedAt
  <2>2. sidecar' = n
    BY <1>1, <1>2, <1>14 DEF WriteSidecar
  <2>3. Done(n, c, 7)'
    BY <1>5, <2>1, <2>2 DEF Done
  <2> QED
    BY <1>7, <1>14, <2>3 DEF WriteSidecar
<1> QED
  BY <1>9, <1>10, <1>11, <1>12, <1>13, <1>14

\* The steps of the record.
LEMMA RecordMoves ==
    ASSUME TablesTyped, RunsTyped, JobsSound, OneHolder, PrepareNext, NEW r \in Runs,
           RecordPreparePlan(r) \/ AdvancePreparePhase(r)
    PROVE MovesSoundly(r)
<1>1. PICK j : j = job[r]
  OBVIOUS
<1>2. PICK n, c : n = j.plan /\ c = j.source
  OBVIOUS
<1>3. JobTyped(j) /\ JobSound(j) /\ JobSound(j)'
  BY <1>1, WorkerAfter
<1>4. /\ TablesTyped' /\ Kept /\ c \in Cycles /\ n \in Plans
      /\ AdvancePreparePhase(r) =>
            /\ prepare[c].plan = n
            /\ job[r].phase + 1 \in 2..7 /\ prepare[c].phase > 0
            /\ prepare'[c] = [plan |-> n, phase |-> job[r].phase + 1]
      /\ RecordPreparePlan(r) =>
            /\ prepare[c].phase = 0 => prepare'[c] = [plan |-> n, phase |-> 1]
            /\ prepare[c].phase > 0 => prepare' = prepare /\ prepare[c].plan = n
  BY <1>1, <1>2, RecordStepKept
<1>5. j.pc \notin {"IDLE", "FRESH"}
  BY <1>1 DEF RecordPreparePlan, AdvancePreparePhase
<1>6. j.grant \in Grants /\ Whole(c)'
  BY <1>2, <1>3, <1>5 DEF JobSound
<1>7. CASE RecordPreparePlan(r)
  <2>1. PICK k, p : k = prepare'[c].phase /\ p = Begin(j)
    OBVIOUS
  <2>2. p \in {"REFUSED", "ADMIT"}
    BY <2>1 DEF Begin
  <2>3. prepare'[c].plan = n /\ k \in 1..7
    <3>1. prepare'[c].phase \in 0..7 /\ prepare[c].phase \in 0..7
      BY <1>4 DEF TablesTyped, PrepareRecord
    <3> QED
      BY <1>4, <1>7, <2>1, <3>1
  <2>4. PICK m : m = [j EXCEPT !.pc = p, !.phase = k]
    OBVIOUS
  <2>5. m = [pc |-> p, at |-> j.at, grant |-> j.grant, plan |-> n, source |-> c,
             stale |-> j.stale, phase |-> k, goal |-> j.goal]
    BY <1>2, <1>3, <2>4 DEF JobTyped
  <2>6. job' = [job EXCEPT ![r] = m]
    BY <1>1, <1>2, <1>7, <2>1, <2>4 DEF RecordPreparePlan, RunsTyped
  <2>7. JobTyped(m)
    BY <1>3, <2>2, <2>3, <2>5 DEF JobTyped, Places
  <2>8. Progress(m) = 1
    BY <2>2, <2>5 DEF Progress, ReachedAt
  <2>9. Done(m.plan, m.source, Progress(m))'
    BY <2>8 DEF Done
  <2>10. JobSound(m)'
    BY <1>4, <1>6, <2>1, <2>2, <2>3, <2>5, <2>9 DEF JobSound
  <2> QED
    BY <2>6, <2>7, <2>10 DEF MovesSoundly
<1>8. CASE AdvancePreparePhase(r)
  <2>1. j.pc = "MARK" /\ Working(j) /\ Progress(j) = j.goal
    BY <1>1, <1>8 DEF AdvancePreparePhase, Working, Searching, Progress
  <2>2. PICK goal \in 2..7 : goal = j.goal
    BY <1>3, <2>1 DEF JobSound
  <2>3. OnRecord(j)' /\ Done(n, c, goal)'
    BY <1>2, <1>3, <2>1, <2>2, WorkersOnRecord
  <2>4. PICK k : k = j.phase + 1
    OBVIOUS
  <2>5. PICK i : i = [j EXCEPT !.phase = k]
    OBVIOUS
  <2>6. i = [pc |-> j.pc, at |-> j.at, grant |-> j.grant, plan |-> n, source |-> c,
             stale |-> j.stale, phase |-> k, goal |-> j.goal]
    BY <1>2, <1>3, <2>5 DEF JobTyped
  <2>7. k \in 2..7 /\ prepare'[c] = [plan |-> n, phase |-> k]
    BY <1>1, <1>4, <1>8, <2>4
  <2>8. JobTyped(i)
    BY <1>3, <2>6, <2>7 DEF JobTyped
  <2>9. OnRecord(i)'
    BY <1>4, <1>6, <2>6, <2>7 DEF OnRecord
  <2>10. PICK m : m = Marking(i, goal)
    OBVIOUS
  <2>11. Done(i.plan, i.source, goal)'
    BY <2>3, <2>6
  <2>12. JobTyped(m) /\ JobSound(m)'
    BY <2>8, <2>9, <2>10, <2>11, MarkedSound
  <2>13. job' = [job EXCEPT ![r] = m]
    BY <1>1, <1>8, <2>2, <2>4, <2>5, <2>10 DEF AdvancePreparePhase, RunsTyped
  <2> QED
    BY <2>12, <2>13 DEF MovesSoundly
<1> QED
  BY <1>7, <1>8

\* The runs after a step of anybody.
LEMMA RunsStep ==
    ASSUME TablesTyped, RunsTyped, JobsSound, RecordsSound, OneHolder, PrepareNext
    PROVE RunsTyped' /\ JobsSound'
<1>1. TablesTyped' /\ Kept
  BY StepKept
<1>2. CASE UNCHANGED job
  <2>1. RunsTyped'
    BY <1>2 DEF RunsTyped
  <2>2. ASSUME NEW s \in Runs, NEW j, j = job'[s]
        PROVE JobSound(j)'
    BY <1>2, <2>2, WorkerAfter
  <2> QED
    BY <2>1, <2>2 DEF JobsSound
<1>3. CASE \E r \in Runs : MovesSoundly(r)
  <2>1. PICK r \in Runs : MovesSoundly(r)
    BY <1>3
  <2>2. PICK m : job' = [job EXCEPT ![r] = m] /\ JobTyped(m) /\ JobSound(m)'
    BY <2>1 DEF MovesSoundly
  <2>3. RunsTyped' /\ job'[r] = m /\ \A s \in Runs \ {r} : job'[s] = job[s]
    BY <2>2, MoveTyped
  <2>4. ASSUME NEW s \in Runs, NEW j, j = job'[s]
        PROVE JobSound(j)'
    <3>1. CASE s = r
      BY <2>2, <2>3, <2>4, <3>1
    <3>2. CASE s # r
      <4>1. j = job[s]
        BY <2>3, <2>4, <3>2
      <4> QED
        BY <4>1, WorkerAfter
    <3> QED
      BY <3>1, <3>2
  <2> QED
    BY <2>3, <2>4 DEF JobsSound
<1>4. UNCHANGED job \/ \E r \in Runs : MovesSoundly(r)
  <2>1. ASSUME NEW r \in Runs, Run(r)
        PROVE UNCHANGED job \/ MovesSoundly(r)
    <3>1. CASE (\E g \in Grants : Load(r, g)) \/ FindSource(r) \/ Prospect(r)
      BY <3>1, SearchMoves
    <3>2. CASE RecordPreparePlan(r) \/ AdvancePreparePhase(r)
      BY <3>2, RecordMoves
    <3>3. CASE \/ ReadCarried(r) \/ RecordAuthority(r) \/ RecordSession(r)
               \/ AuthorizeReserve(r) \/ AuthorizePreauth(r) \/ CreateSidecar(r)
      BY <3>3, PlacingMoves
    <3>4. CASE \/ AdmitSuccessor(r) \/ CarryInventory(r) \/ IntentSimulated(r)
               \/ SkipReserve(r) \/ ReserveSell(r) \/ FreezePreauth(r) \/ WriteSidecar(r)
      BY <3>4, MarkingMoves
    <3>5. CASE AdvanceIntent(r)
      BY <3>5 DEF AdvanceIntent, sagaVars
    <3>6. CASE PrintSigningRequests(r)
      BY <3>6, RestMoves DEF PrintSigningRequests
    <3> QED
      BY <2>1, <3>1, <3>2, <3>3, <3>4, <3>5, <3>6 DEF Run
  <2>2. ASSUME NEW r \in Runs, Die(r)
        PROVE MovesSoundly(r)
    BY <2>2, RestMoves DEF Die
  <2>3. ASSUME (\E n \in Plans : RecordSigned(n)) \/ (\E a \in Actions : RecoverCancels(a)) \/ Others
        PROVE UNCHANGED job
    BY <2>3 DEF RecordSigned, RecoverCancels, Others, sagaVars
  <2> QED
    BY <2>1, <2>2, <2>3 DEF PrepareNext
<1> QED
  BY <1>2, <1>3, <1>4

-----------------------------------------------------------------------------
(* The records after a step. *)

\* Only two steps write a record, and one opens a cycle.
LEMMA WhoWrites ==
    ASSUME PrepareNext
    PROVE /\ UNCHANGED prepare \/ \E r \in Runs : RecordPreparePlan(r) \/ AdvancePreparePhase(r)
          /\ UNCHANGED cycle \/ \E r \in Runs : CarryInventory(r)
<1>1. ASSUME NEW r \in Runs, Run(r) \/ Die(r), ~RecordPreparePlan(r), ~AdvancePreparePhase(r)
      PROVE UNCHANGED prepare
  BY <1>1 DEF Run, Load, FindSource, Prospect, AdmitSuccessor, CarryInventory, ReadCarried,
         AdvanceIntent, IntentSimulated, RecordAuthority, RecordSession, SkipReserve,
         AuthorizeReserve, ReserveSell, AuthorizePreauth, FreezePreauth, CreateSidecar,
         WriteSidecar, PrintSigningRequests, Die, sagaVars
<1>2. ASSUME NEW r \in Runs, Run(r) \/ Die(r), ~CarryInventory(r)
      PROVE UNCHANGED cycle
  <2>1. CASE AdvanceIntent(r) \/ ReserveSell(r) \/ AdmitSuccessor(r) \/ ReadCarried(r)
    BY <2>1 DEF AdvanceIntent, ReserveSell, AdmitSuccessor, ReadCarried, CreateIntent, Transition,
           AdmitPolicy, ledgerVars
  <2>2. CASE UNCHANGED ledgerVars
    BY <2>2 DEF ledgerVars
  <2>3. \/ UNCHANGED ledgerVars
        \/ AdvanceIntent(r) \/ ReserveSell(r) \/ AdmitSuccessor(r) \/ ReadCarried(r)
    BY <1>2 DEF Run, Load, FindSource, Prospect, IntentSimulated, RecordAuthority, RecordSession,
           SkipReserve, AuthorizeReserve, AuthorizePreauth, FreezePreauth, CreateSidecar,
           WriteSidecar, PrintSigningRequests, Die, RecordPreparePlan, AdvancePreparePhase
  <2> QED
    BY <2>1, <2>2, <2>3
<1>3. ASSUME (\E n \in Plans : RecordSigned(n)) \/ (\E a \in Actions : RecoverCancels(a)) \/ Others
      PROVE UNCHANGED <<prepare, cycle>>
  BY <1>3 DEF RecordSigned, RecoverCancels, Others, Transition, sagaVars, ledgerVars
<1> QED
  BY <1>1, <1>2, <1>3 DEF PrepareNext

\* A plan recorded for one source is recorded for no other.
LEMMA OneSourceStep ==
    ASSUME TablesTyped, RunsTyped, JobsSound, OneSourceEach, OneHolder, PrepareNext
    PROVE OneSourceEach'
<1>1. \A n, m \in Plans : SuccessorPolicy(n)' = SuccessorPolicy(n)
  BY DEF SuccessorPolicy, SuccessorOf
<1>2. CASE UNCHANGED prepare
  BY <1>2 DEF OneSourceEach, Recorded, SuccessorPolicy, SuccessorOf
<1>3. ASSUME NEW r \in Runs, RecordPreparePlan(r) \/ AdvancePreparePhase(r)
      PROVE OneSourceEach'
  <2>1. PICK n, c : n = job[r].plan /\ c = job[r].source
    OBVIOUS
  <2>2. /\ TablesTyped' /\ Kept /\ c \in Cycles /\ n \in Plans
        /\ \A d \in Cycles \ {c} : prepare'[d] = prepare[d]
        /\ AdvancePreparePhase(r) =>
              /\ prepare[c].plan = n
              /\ job[r].phase + 1 \in 2..7 /\ prepare[c].phase > 0
              /\ prepare'[c] = [plan |-> n, phase |-> job[r].phase + 1]
        /\ RecordPreparePlan(r) =>
              /\ prepare[c].phase = 0 => prepare'[c] = [plan |-> n, phase |-> 1]
              /\ prepare[c].phase > 0 => prepare' = prepare /\ prepare[c].plan = n
    BY <1>3, <2>1, RecordStepKept
  <2>3. prepare[c].phase \in Nat
    BY <2>2 DEF TablesTyped, PrepareRecord
  <2>4. prepare'[c].plan = n
    BY <1>3, <2>2, <2>3
  <2>5. ASSUME NEW d \in Cycles \ {c}, prepare[d].phase > 0,
               SuccessorPolicy(prepare[d].plan) = SuccessorPolicy(n)
        PROVE FALSE
    <3>1. d \in Recorded
      BY <2>5 DEF Recorded
    <3>2. CASE c \in Recorded
      <4>1. prepare[c].plan = n
        BY <1>3, <2>2, <3>2 DEF Recorded
      <4> QED
        BY <2>5, <3>1, <3>2, <4>1 DEF OneSourceEach
    <3>3. CASE c \notin Recorded
      <4>1. prepare[c].phase = 0 /\ RecordPreparePlan(r)
        BY <1>3, <2>2, <2>3, <3>3 DEF Recorded
      <4> QED
        BY <2>1, <2>5, <3>1, <4>1 DEF RecordPreparePlan
    <3> QED
      BY <3>2, <3>3
  <2>6. ASSUME NEW d \in Cycles, NEW e \in Cycles, prepare'[d].phase > 0, prepare'[e].phase > 0,
               SuccessorPolicy(prepare'[d].plan) = SuccessorPolicy(prepare'[e].plan)
        PROVE d = e
    <3>1. CASE d # c /\ e # c
      <4>1. prepare'[d] = prepare[d] /\ prepare'[e] = prepare[e]
        BY <2>2, <3>1
      <4> QED
        BY <2>6, <4>1 DEF OneSourceEach, Recorded
    <3>2. CASE d = c /\ e # c
      <4>1. prepare'[e] = prepare[e]
        BY <2>2, <3>2
      <4> QED
        BY <2>4, <2>5, <2>6, <3>2, <4>1
    <3>3. CASE d # c /\ e = c
      <4>1. prepare'[d] = prepare[d]
        BY <2>2, <3>3
      <4> QED
        BY <2>4, <2>5, <2>6, <3>3, <4>1
    <3> QED
      BY <3>1, <3>2, <3>3
  <2> QED
    BY <2>6 DEF OneSourceEach, Recorded, SuccessorPolicy, SuccessorOf
<1> QED
  BY <1>2, <1>3, WhoWrites

\* A record is written for work that is done.
LEMMA RecordStepSound ==
    ASSUME TablesTyped, RunsTyped, JobsSound, RecordsSound, OneHolder, PlanPrecedesEffects,
           PrepareNext, NEW r \in Runs, RecordPreparePlan(r) \/ AdvancePreparePhase(r),
           NEW c, c = job[r].source
    PROVE RecordSound(c)'
<1>1. PICK n, j : n = job[r].plan /\ j = job[r]
  OBVIOUS
<1>2. JobTyped(j) /\ JobSound(j) /\ JobSound(j)'
  BY <1>1, WorkerAfter
<1>3. /\ TablesTyped' /\ Kept /\ c \in Cycles /\ n \in Plans
      /\ AdvancePreparePhase(r) =>
            /\ prepare[c].plan = n
            /\ job[r].phase + 1 \in 2..7 /\ prepare[c].phase > 0
            /\ prepare'[c] = [plan |-> n, phase |-> job[r].phase + 1]
      /\ RecordPreparePlan(r) =>
            /\ prepare[c].phase = 0 => prepare'[c] = [plan |-> n, phase |-> 1]
            /\ prepare[c].phase > 0 => prepare' = prepare /\ prepare[c].plan = n
  BY <1>1, RecordStepKept
<1>4. j.pc \notin {"IDLE", "FRESH"}
  BY <1>1 DEF RecordPreparePlan, AdvancePreparePhase
<1>5. Whole(c)'
  BY <1>1, <1>2, <1>4 DEF JobSound
<1>6. UNCHANGED <<admitted, cycle, carry, state, sessions, preauth, sidecar>>
  BY DEF RecordPreparePlan, AdvancePreparePhase, ledgerVars, authorityVars
<1>7. prepare[c].phase \in 0..7
  BY <1>3 DEF TablesTyped, PrepareRecord
<1>8. CASE RecordPreparePlan(r) /\ prepare[c].phase = 0
  <2>1. PICK k : k = 1
    OBVIOUS
  <2>2. \A d \in Recorded : SuccessorPolicy(prepare[d].plan) # SuccessorPolicy(n)
    BY <1>1, <1>3, <1>8 DEF RecordPreparePlan
  <2>3. cycle[SuccessorOf(n)] = "NONE"
    BY <1>3, <2>2 DEF PlanPrecedesEffects
  <2>4. Done(n, c, k)'
    BY <2>1 DEF Done
  <2> QED
    BY <1>3, <1>5, <1>6, <1>8, <2>1, <2>3, <2>4 DEF RecordSound, SuccessorOf
<1>9. CASE RecordPreparePlan(r) /\ prepare[c].phase > 0
  <2>1. RecordSound(c) /\ prepare' = prepare
    BY <1>3, <1>9 DEF RecordsSound
  <2> QED
    BY <1>3, <1>6, <1>9, <2>1, RecordStays
<1>10. CASE AdvancePreparePhase(r)
  <2>1. j.pc = "MARK" /\ Working(j) /\ Progress(j) = j.goal
    BY <1>1, <1>10 DEF AdvancePreparePhase, Working, Searching, Progress
  <2>2. PICK goal \in 2..7 : goal = j.goal
    BY <1>2, <2>1 DEF JobSound
  <2>3. Done(n, c, goal)'
    BY <1>1, <1>2, <2>1, <2>2, WorkersOnRecord
  <2>4. PICK k \in 2..7 : k = j.phase + 1
    BY <1>1, <1>3, <1>10
  <2>5. k <= goal
    BY <1>2, <2>1, <2>2, <2>4 DEF JobSound, JobTyped
  <2>6. Done(n, c, k)'
    BY <2>3, <2>5 DEF Done
  <2>7. prepare'[c].plan = n /\ prepare'[c].phase = k
    BY <1>1, <1>3, <1>10, <2>4
  <2>8. cycle'[SuccessorOf(n)] # "NONE" =>
           carry'[SuccessorOf(n)] = [from |-> c, amount |-> Quantity]
    <3>1. RecordSound(c) /\ prepare[c].phase > 0 /\ prepare[c].plan = n
      BY <1>3, <1>10 DEF RecordsSound
    <3> QED
      BY <1>6, <3>1 DEF RecordSound
  <2> QED
    BY <1>3, <1>5, <2>6, <2>7, <2>8 DEF RecordSound, SuccessorOf
<1> QED
  BY <1>3, <1>7, <1>8, <1>9, <1>10

\* The carry of one run leaves the records of the other sources sound.
LEMMA CarrySound ==
    ASSUME TablesTyped, RunsTyped, JobsSound, RecordsSound, OneSourceEach, OneHolder, PrepareNext,
           NEW r \in Runs, CarryInventory(r), NEW c \in Cycles, RecordSound(c)
    PROVE RecordSound(c)'
<1>1. PICK n, s : n = job[r].plan /\ s = job[r].source
  OBVIOUS
<1>2. /\ n \in Plans /\ s \in Cycles /\ s \in Recorded /\ prepare[s].plan = n
  BY <1>1, WorkOnRecord DEF CarryInventory, Working, Searching
<1>3. UNCHANGED prepare
  BY DEF CarryInventory
<1>4. CASE prepare[c].phase > 0
  <2>1. PICK m : m = prepare[c].plan
    OBVIOUS
  <2>2. m \in Plans /\ SuccessorOf(m) \in Cycles
    BY <1>4, <2>1, PlanFacts DEF RecordSound
  <2>3. CASE cycle[SuccessorOf(m)] = "NONE" => cycle'[SuccessorOf(m)] = "NONE"
    BY <1>3, <1>4, <2>1, <2>3, StepKept, RecordStays
  <2>4. CASE cycle[SuccessorOf(m)] = "NONE" /\ cycle'[SuccessorOf(m)] # "NONE"
    <3>1. ContinueInventoryIntoSuccessorCycle(s, SuccessorOf(n))
      BY <1>1, <2>4 DEF CarryInventory, ledgerVars
    <3>2. /\ \A e \in Cycles \ {SuccessorOf(n)} : cycle'[e] = "NONE" <=> cycle[e] = "NONE"
          /\ carry'[SuccessorOf(n)] = [from |-> s, amount |-> Inventory(s)]
          /\ CarriedFrom(s) = {}
      <4>1. UNCHANGED <<authorityVars, prepare, preauth, sidecar, printed>>
        BY DEF CarryInventory
      <4> QED
        BY <1>2, <3>1, <4>1, PlanFacts, CarryStepKept
    <3>3. SuccessorOf(m) = SuccessorOf(n)
      BY <2>2, <2>4, <3>2
    <3>4. c = s
      <4>1. SuccessorPolicy(m) = SuccessorPolicy(n) /\ c \in Recorded
        BY <1>4, <3>3 DEF SuccessorPolicy, Recorded
      <4> QED
        BY <1>2, <2>1, <4>1 DEF OneSourceEach
    <3>5. Whole(c) /\ Done(m, c, prepare[c].phase)
      BY <1>4, <2>1 DEF RecordSound
    <3>6. carry'[SuccessorOf(m)] = [from |-> c, amount |-> Quantity]
      BY <3>2, <3>3, <3>4, <3>5 DEF Whole
    <3>7. PICK k : k = prepare[c].phase
      OBVIOUS
    <3>8. Whole(c)' /\ Done(m, c, k)'
      BY <2>2, <3>5, <3>7, StepKept, WholeStays, DoneStays
    <3> QED
      BY <1>3, <2>1, <2>2, <3>6, <3>7, <3>8 DEF RecordSound, SuccessorOf
  <2> QED
    BY <2>3, <2>4
<1>5. CASE ~(prepare[c].phase > 0)
  BY <1>3, <1>5 DEF RecordSound
<1> QED
  BY <1>4, <1>5

LEMMA RecordsStep ==
    ASSUME TablesTyped, RunsTyped, JobsSound, RecordsSound, OneSourceEach, OneHolder,
           PlanPrecedesEffects, PrepareNext
    PROVE RecordsSound'
<1>1. TablesTyped' /\ Kept
  BY StepKept
<1>2. ASSUME NEW c \in Cycles, prepare'[c] = prepare[c]
      PROVE RecordSound(c)'
  <2>1. RecordSound(c)
    BY DEF RecordsSound
  <2>2. CASE UNCHANGED cycle
    <3>1. CASE prepare[c].phase > 0
      BY <1>1, <1>2, <2>1, <2>2, <3>1, RecordStays
    <3>2. CASE ~(prepare[c].phase > 0)
      BY <1>2, <3>2 DEF RecordSound
    <3> QED
      BY <3>1, <3>2
  <2>3. CASE \E r \in Runs : CarryInventory(r)
    BY <2>1, <2>3, CarrySound
  <2> QED
    BY <2>2, <2>3, WhoWrites
<1>3. ASSUME NEW c \in Cycles, prepare'[c] # prepare[c]
      PROVE RecordSound(c)'
  <2>1. PICK r \in Runs : RecordPreparePlan(r) \/ AdvancePreparePhase(r)
    BY <1>3, WhoWrites
  <2>2. c = job[r].source
    <3>1. PICK n, s : n = job[r].plan /\ s = job[r].source
      OBVIOUS
    <3>2. \A d \in Cycles \ {s} : prepare'[d] = prepare[d]
      BY <2>1, <3>1, RecordStepKept
    <3> QED
      BY <1>3, <3>1, <3>2
  <2> QED
    BY <2>1, <2>2, RecordStepSound
<1> QED
  BY <1>2, <1>3 DEF RecordsSound

-----------------------------------------------------------------------------
(* Effects come after the plan. *)

PlanKnown(n) == \E c \in Recorded : prepare[c].plan = n
PolicyKnown(p) == \E c \in Recorded : SuccessorPolicy(prepare[c].plan) = p
Prepares(n) == sessions[n] # -1 \/ n \in preauth
Opens(n) == \/ SuccessorPolicy(n) \in admitted
            \/ cycle[SuccessorOf(n)] # "NONE" \/ state[SellOf(n)] # "NONE"

LEMMA PrecedesMeans ==
    PlanPrecedesEffects <=>
        \A n \in Plans : /\ Prepares(n) => PlanKnown(n)
                         /\ Opens(n) => PolicyKnown(SuccessorPolicy(n))
BY DEF PlanPrecedesEffects, PlanKnown, PolicyKnown, Prepares, Opens

LEMMA PrecedesMeansNext ==
    PlanPrecedesEffects' <=>
        \A n \in Plans : /\ Prepares(n)' => PlanKnown(n)'
                         /\ Opens(n)' => PolicyKnown(SuccessorPolicy(n))'
BY DEF PlanPrecedesEffects, PlanKnown, PolicyKnown, Prepares, Opens, SuccessorPolicy, SuccessorOf

\* What is known stays known.
LEMMA KnownStays ==
    ASSUME TablesTyped, TablesTyped', Kept, NEW n, NEW p
    PROVE (PlanKnown(n) => PlanKnown(n)') /\ (PolicyKnown(p) => PolicyKnown(p)')
<1>1. ASSUME NEW c \in Recorded
      PROVE c \in Cycles /\ c \in Recorded' /\ prepare'[c].plan = prepare[c].plan
  <2>1. c \in Cycles /\ prepare[c].phase > 0
    BY DEF Recorded
  <2>2. prepare[c].phase \in Nat /\ prepare'[c].phase \in Nat
    BY <2>1 DEF TablesTyped, PrepareRecord
  <2> QED
    BY <2>1, <2>2 DEF Recorded, Kept
<1> QED
  BY <1>1 DEF PlanKnown, PolicyKnown, SuccessorPolicy, SuccessorOf

\* Nobody but a run that works on a plan does anything of it.
LEMMA EffectsOfWork ==
    ASSUME TablesTyped, RunsTyped, JobsSound, OneHolder, PrepareNext, NEW n \in Plans
    PROVE /\ Prepares(n)' => Prepares(n) \/ PlanKnown(n)
          /\ Opens(n)' => Opens(n) \/ PolicyKnown(SuccessorPolicy(n))
<1> DEFINE Same == Prepares(n)' = Prepares(n)
           Shut == Opens(n)' => Opens(n)
<1>1. /\ (UNCHANGED <<sessions, preauth>>) => Same
      /\ (UNCHANGED <<admitted, cycle, state>>) => Shut
  BY DEF Prepares, Opens, SuccessorPolicy, SuccessorOf, SellOf
<1>2. SuccessorOf(n) \in Cycles /\ SellOf(n) \in Actions
      /\ CycleOf(SellOf(n)) = SuccessorOf(n)
  BY PlanFacts
<1>3. ASSUME NEW r \in Runs, Working(job[r])
      PROVE /\ job[r].plan \in Plans
            /\ PlanKnown(job[r].plan) /\ PolicyKnown(SuccessorPolicy(job[r].plan))
  BY <1>3, WorkOnRecord DEF PlanKnown, PolicyKnown
<1>4. ASSUME NEW a \in Actions, state[a] # "NONE", NEW to, Transition(a, to)
      PROVE Shut
  <2>1. state' = [state EXCEPT ![a] = to] /\ UNCHANGED <<admitted, cycle>>
    BY <1>4, TransitionWrites
  <2>2. state[SellOf(n)] = "NONE" => state'[SellOf(n)] = "NONE"
    BY <1>2, <1>4, <2>1 DEF TablesTyped
  <2> QED
    BY <2>1, <2>2 DEF Opens, SuccessorPolicy, SuccessorOf, SellOf
<1>5. ASSUME NEW r \in Runs, Run(r) \/ Die(r)
      PROVE /\ Prepares(n)' => Prepares(n) \/ PlanKnown(n)
            /\ Opens(n)' => Opens(n) \/ PolicyKnown(SuccessorPolicy(n))
  <2> DEFINE m == job[r].plan
  <2>1. CASE RecordSession(r)
    <3>1. m \in Plans /\ sessions'[m] # -1 /\ \A i \in Plans \ {m} : sessions'[i] = sessions[i]
      BY <2>1, SessionStepKept
    <3>2. UNCHANGED <<admitted, cycle, state, preauth>>
      BY <2>1 DEF RecordSession, ledgerVars
    <3>3. PlanKnown(m)
      BY <1>3, <2>1 DEF RecordSession, Working, Searching
    <3>4. m = n \/ sessions'[n] = sessions[n]
      BY <3>1
    <3> QED
      BY <1>1, <3>2, <3>3, <3>4 DEF Prepares
  <2>2. CASE FreezePreauth(r)
    <3>1. preauth' = preauth \cup {m} /\ UNCHANGED <<sessions, admitted, cycle, state>>
      BY <2>2 DEF FreezePreauth, ledgerVars, authorityVars
    <3>2. PlanKnown(m)
      BY <1>3, <2>2 DEF FreezePreauth, Working, Searching
    <3> QED
      BY <1>1, <3>1, <3>2 DEF Prepares
  <2>3. CASE AdmitSuccessor(r)
    <3>1. UNCHANGED <<sessions, preauth, cycle, state>>
          /\ admitted' \subseteq admitted \cup {SuccessorPolicy(m)}
      BY <2>3 DEF AdmitSuccessor, AdmitPolicy, ledgerVars, authorityVars
    <3>2. PolicyKnown(SuccessorPolicy(m))
      BY <1>3, <2>3 DEF AdmitSuccessor, Working, Searching
    <3> QED
      BY <1>1, <3>1, <3>2 DEF Opens, SuccessorPolicy, SuccessorOf, SellOf
  <2>4. CASE CarryInventory(r)
    <3>1. UNCHANGED <<sessions, preauth, admitted, state>>
      BY <2>4 DEF CarryInventory, ContinueInventoryIntoSuccessorCycle, ledgerVars, authorityVars
    <3>2. m \in Plans /\ job[r].source \in Cycles /\ PolicyKnown(SuccessorPolicy(m))
      BY <1>3, <2>4, WorkOnRecord DEF CarryInventory, Working, Searching
    <3>3. \A e \in Cycles \ {SuccessorOf(m)} : cycle[e] = "NONE" => cycle'[e] = "NONE"
      <4>1. CASE ContinueInventoryIntoSuccessorCycle(job[r].source, SuccessorOf(m))
        <5>1. UNCHANGED <<authorityVars, prepare, preauth, sidecar, printed>>
          BY <2>4 DEF CarryInventory
        <5> QED
          BY <3>2, <4>1, <5>1, PlanFacts, CarryStepKept
      <4>2. CASE UNCHANGED ledgerVars
        BY <4>2 DEF ledgerVars
      <4> QED
        BY <2>4, <4>1, <4>2 DEF CarryInventory
    <3>4. SuccessorOf(n) = SuccessorOf(m) => SuccessorPolicy(n) = SuccessorPolicy(m)
      BY DEF SuccessorPolicy
    <3>5. CASE SuccessorOf(n) = SuccessorOf(m)
      BY <1>1, <3>1, <3>2, <3>4, <3>5
    <3>6. CASE SuccessorOf(n) # SuccessorOf(m)
      <4>1. cycle[SuccessorOf(n)] = "NONE" => cycle'[SuccessorOf(n)] = "NONE"
        BY <1>2, <3>3, <3>6
      <4> QED
        BY <1>1, <3>1, <4>1 DEF Opens, SuccessorPolicy, SuccessorOf, SellOf
    <3> QED
      BY <3>5, <3>6
  <2>5. CASE AdvanceIntent(r)
    <3>1. m \in Plans /\ PolicyKnown(SuccessorPolicy(m))
      BY <1>3, <2>5 DEF AdvanceIntent, Working, Searching
    <3>2. UNCHANGED <<sessions, preauth>>
      BY <2>5 DEF AdvanceIntent, sagaVars, authorityVars
    <3>3. SellOf(m) \in Actions /\ CycleOf(SellOf(m)) = SuccessorOf(m)
      BY <3>1, PlanFacts
    <3>4. CASE CreateIntent(SellOf(m))
      <4>1. CASE SellOf(n) = SellOf(m)
        <5>1. SuccessorPolicy(n) = SuccessorPolicy(m)
          BY <1>2, <3>3, <4>1 DEF SuccessorPolicy
        <5> QED
          BY <1>1, <3>1, <3>2, <5>1
      <4>2. CASE SellOf(n) # SellOf(m)
        <5>1. state'[SellOf(n)] = state[SellOf(n)] /\ UNCHANGED <<admitted, cycle>>
          BY <1>2, <3>3, <3>4, <4>2 DEF CreateIntent, TablesTyped
        <5> QED
          BY <1>1, <3>2, <5>1 DEF Opens, SuccessorPolicy, SuccessorOf, SellOf
      <4> QED
        BY <4>1, <4>2
    <3>5. CASE /\ state[SellOf(m)] \in DOMAIN SimulationStep
               /\ Transition(SellOf(m), SimulationStep[state[SellOf(m)]])
      <4>1. state[SellOf(m)] # "NONE"
        BY <3>5 DEF SimulationStep
      <4> QED
        BY <1>1, <1>4, <3>2, <3>3, <3>5, <4>1
    <3> QED
      BY <2>5, <3>4, <3>5 DEF AdvanceIntent
  <2>6. CASE ReserveSell(r)
    <3>1. UNCHANGED <<sessions, preauth>>
      BY <2>6 DEF ReserveSell, authorityVars
    <3>2. CASE state[SellOf(m)] = "SIMULATED" /\ Transition(SellOf(m), "RESERVED")
      <4>1. SellOf(m) \in Actions
        BY <1>3, <2>6, PlanFacts DEF ReserveSell, Working, Searching
      <4> QED
        BY <1>1, <1>4, <3>1, <3>2, <4>1
    <3>3. CASE UNCHANGED ledgerVars
      BY <1>1, <3>1, <3>3 DEF ledgerVars
    <3> QED
      BY <2>6, <3>2, <3>3 DEF ReserveSell
  <2>7. CASE RecordAuthority(r) \/ ReadCarried(r)
    BY <1>1, <2>7 DEF RecordAuthority, RecordVerifiedAuthority, ReadCarried, ledgerVars, authorityVars
  <2>8. CASE UNCHANGED <<ledgerVars, authorityVars, preauth>>
    BY <1>1, <2>8 DEF ledgerVars, authorityVars
  <2>9. \/ UNCHANGED <<ledgerVars, authorityVars, preauth>>
        \/ RecordSession(r) \/ FreezePreauth(r) \/ AdmitSuccessor(r) \/ CarryInventory(r)
        \/ AdvanceIntent(r) \/ ReserveSell(r) \/ RecordAuthority(r) \/ ReadCarried(r)
    BY <1>5 DEF Run, Load, FindSource, Prospect, IntentSimulated, SkipReserve, AuthorizeReserve,
           AuthorizePreauth, CreateSidecar, WriteSidecar, PrintSigningRequests, Die,
           RecordPreparePlan, AdvancePreparePhase
  <2> QED
    BY <2>1, <2>2, <2>3, <2>4, <2>5, <2>6, <2>7, <2>8, <2>9
<1>6. CASE \E a \in Actions : RecoverCancels(a)
  <2>1. PICK a \in Actions : RecoverCancels(a)
    BY <1>6
  <2>2. state[a] # "NONE" /\ Transition(a, "CANCELLED") /\ UNCHANGED <<sessions, preauth>>
    BY <2>1 DEF RecoverCancels, PRE_COMMITMENT_STATES, sagaVars, authorityVars
  <2> QED
    BY <1>1, <1>4, <2>2
<1>7. CASE (\E i \in Plans : RecordSigned(i)) \/ Others
  BY <1>1, <1>7 DEF RecordSigned, Others, Tick, EngageKillSwitch, ledgerVars, sagaVars, authorityVars
<1> QED
  BY <1>5, <1>6, <1>7 DEF PrepareNext

LEMMA PrecedesStep ==
    ASSUME TablesTyped, RunsTyped, JobsSound, OneHolder, PlanPrecedesEffects, PrepareNext
    PROVE PlanPrecedesEffects'
<1>1. ASSUME NEW n \in Plans
      PROVE /\ Prepares(n)' => PlanKnown(n)'
            /\ Opens(n)' => PolicyKnown(SuccessorPolicy(n))'
  <2>1. PICK p : p = SuccessorPolicy(n)
    OBVIOUS
  <2>2. (Prepares(n)' => PlanKnown(n)) /\ (Opens(n)' => PolicyKnown(p))
    BY <2>1, PrecedesMeans, EffectsOfWork
  <2>3. (PlanKnown(n) => PlanKnown(n)') /\ (PolicyKnown(p) => PolicyKnown(p)')
    BY StepKept, KnownStays
  <2>4. p = SuccessorPolicy(n)'
    BY <2>1 DEF SuccessorPolicy, SuccessorOf
  <2> QED
    BY <2>2, <2>3, <2>4 DEF PolicyKnown
<1> QED
  BY <1>1, PrecedesMeansNext

-----------------------------------------------------------------------------
(* One run holds the file. *)

\* A step that writes neither file nor prints, after which nobody holds the file
\* who did not.
LEMMA HoldersStay ==
    ASSUME OneHolder, UNCHANGED <<sidecar, printed>>,
           \A s \in Runs : /\ Holding(job'[s]) => Holding(job[s])
                           /\ job'[s].pc = "WRITING" => job[s].pc = "WRITING"
    PROVE OneHolder'
<1>1. \A s \in Runs : Holding(job[s])' <=> Holding(job'[s])
  BY DEF Holding
<1>2. \A s, t \in Runs : Holding(job[s])' /\ Holding(job[t])' => s = t
  BY <1>1 DEF OneHolder
<1>3. Unprinted' <=> Unprinted
  BY DEF Unprinted
<1>4. \A s \in Runs : Holding(job[s])' => Unprinted'
  BY <1>1, <1>3 DEF OneHolder
<1>5. \A s \in Runs : job'[s].pc = "WRITING" => sidecar' = "PARTIAL"
  BY DEF OneHolder
<1>6. sidecar' = "NONE" => Unprinted' /\ \A s \in Runs : ~Holding(job[s])'
  BY <1>1, <1>3 DEF OneHolder
<1>7. RequestsPrintedOnce'
  BY DEF OneHolder, RequestsPrintedOnce
<1> QED
  BY <1>2, <1>4, <1>5, <1>6, <1>7 DEF OneHolder

\* The run that does the step, and the others.
LEMMA MoverStays ==
    ASSUME RunsTyped, OneHolder, UNCHANGED <<sidecar, printed>>,
           NEW r \in Runs, NEW m, JobTyped(m), job' = [job EXCEPT ![r] = m],
           Holding(m) => Holding(job[r]), m.pc = "WRITING" => job[r].pc = "WRITING"
    PROVE OneHolder'
<1>1. job'[r] = m /\ \A s \in Runs \ {r} : job'[s] = job[s]
  BY MoveTyped
<1>2. \A s \in Runs : /\ Holding(job'[s]) => Holding(job[s])
                      /\ job'[s].pc = "WRITING" => job[s].pc = "WRITING"
  BY <1>1
<1> QED
  BY <1>2, HoldersStay

\* A run that marks a phase before the last holds no file, one that marks the last
\* held it.
LEMMA MarkingStays ==
    ASSUME RunsTyped, OneHolder, UNCHANGED <<sidecar, printed>>,
           NEW r \in Runs, NEW j, JobTyped(j), NEW goal \in 2..7,
           goal = 7 => Holding(job[r]),
           job' = [job EXCEPT ![r] = Marking(j, goal)]
    PROVE OneHolder'
<1>1. PICK m : m = Marking(j, goal)
  OBVIOUS
<1>2. JobTyped(m) /\ (Holding(m) <=> goal = 7) /\ m.pc # "WRITING"
  BY <1>1, MarkingFacts
<1> QED
  BY <1>1, <1>2, MoverStays

LEMMA PlacingStays ==
    ASSUME RunsTyped, OneHolder, UNCHANGED <<sidecar, printed>>, NEW r \in Runs,
           NEW p \in Places \ {"WRITING", "PRINT", "MARK"},
           NEW m, m.pc = p, JobTyped(m), job' = [job EXCEPT ![r] = m]
    PROVE OneHolder'
<1>1. ~Holding(m)
  BY DEF Holding
<1> QED
  BY <1>1, MoverStays

\* Where a run that has not come to write the file gets to.
LEMMA EarlierStays ==
    ASSUME TablesTyped, RunsTyped, JobsSound, OneHolder, NEW r \in Runs,
           \/ Quiet(r) \/ AdmitSuccessor(r) \/ CarryInventory(r) \/ RecordPreparePlan(r)
           \/ AdvancePreparePhase(r) \/ RecordSession(r) \/ ReserveSell(r) \/ FreezePreauth(r)
    PROVE OneHolder'
<1>1. PICK j : j = job[r]
  OBVIOUS
<1>2. JobTyped(j) /\ JobSound(j)
  BY <1>1 DEF RunsTyped, JobsSound
<1>3. UNCHANGED <<sidecar, printed>>
  BY DEF Quiet, Load, FindSource, Prospect, ReadCarried, IntentSimulated, RecordAuthority,
         SkipReserve, AuthorizeReserve, AuthorizePreauth, AdmitSuccessor, CarryInventory,
         RecordPreparePlan, AdvancePreparePhase, RecordSession, ReserveSell, FreezePreauth
<1>4. ASSUME NEW goal \in 2..6, job' = [job EXCEPT ![r] = Marking(@, goal)]
      PROVE OneHolder'
  <2>1. job' = [job EXCEPT ![r] = Marking(j, goal)] /\ goal \in 2..7 /\ goal # 7
    BY <1>1, <1>4 DEF RunsTyped
  <2> QED
    BY <1>2, <1>3, <2>1, MarkingStays
<1>5. ASSUME NEW p \in Places \ {"WRITING", "PRINT", "MARK"}, NEW m, job' = [job EXCEPT ![r] = m],
             \E at, grant, plan, source, stale : \E phase, goal \in 0..7 :
                m = [pc |-> p, at |-> at, grant |-> grant, plan |-> plan, source |-> source,
                     stale |-> stale, phase |-> phase, goal |-> goal]
      PROVE OneHolder'
  <2>1. JobTyped(m) /\ m.pc = p
    BY <1>5 DEF JobTyped
  <2> QED
    BY <1>3, <1>5, <2>1, PlacingStays
<1>6. ASSUME NEW p \in Places \ {"WRITING", "PRINT", "MARK"}, job' = [job EXCEPT ![r].pc = p]
      PROVE OneHolder'
  <2>1. PICK m : m = [j EXCEPT !.pc = p]
    OBVIOUS
  <2>2. m = [pc |-> p, at |-> j.at, grant |-> j.grant, plan |-> j.plan, source |-> j.source,
             stale |-> j.stale, phase |-> j.phase, goal |-> j.goal]
    BY <1>2, <2>1 DEF JobTyped
  <2>3. job' = [job EXCEPT ![r] = m]
    BY <1>1, <1>6, <2>1 DEF RunsTyped
  <2>4. j.phase \in 0..7 /\ j.goal \in 0..7
    BY <1>2 DEF JobTyped
  <2> QED
    BY <1>5, <2>2, <2>3, <2>4
<1>7. ASSUME NEW g \in Grants, Load(r, g)
      PROVE OneHolder'
  <2>1. CASE Recorded = {}
    <3>1. PICK m : m = [Resting EXCEPT !.pc = "FRESH", !.at = now, !.grant = g]
      OBVIOUS
    <3>2. m = [pc |-> "FRESH", at |-> now, grant |-> g, plan |-> "none", source |-> "none",
               stale |-> FALSE, phase |-> 0, goal |-> 0]
      BY <3>1 DEF Resting
    <3>3. job' = [job EXCEPT ![r] = m]
      BY <1>7, <2>1, <3>1 DEF Load
    <3>4. "FRESH" \in Places \ {"WRITING", "PRINT", "MARK"} /\ 0 \in 0..7
      BY DEF Places
    <3> QED
      BY <1>5, <3>2, <3>3, <3>4
  <2>2. CASE Recorded # {}
    <3>1. PICK c \in Recorded :
             job' = [job EXCEPT ![r] =
                      [Resting EXCEPT !.pc = "ADMIT", !.at = now, !.grant = g,
                          !.plan = prepare[c].plan, !.source = c, !.phase = prepare[c].phase]]
      BY <1>7, <2>2 DEF Load
    <3>2. PICK m : m = [Resting EXCEPT !.pc = "ADMIT", !.at = now, !.grant = g,
                          !.plan = prepare[c].plan, !.source = c, !.phase = prepare[c].phase]
      OBVIOUS
    <3>3. m = [pc |-> "ADMIT", at |-> now, grant |-> g, plan |-> prepare[c].plan, source |-> c,
               stale |-> FALSE, phase |-> prepare[c].phase, goal |-> 0]
      BY <3>2 DEF Resting
    <3>4. prepare[c].phase \in 0..7 /\ 0 \in 0..7
      BY DEF Recorded, TablesTyped, PrepareRecord
    <3>5. "ADMIT" \in Places \ {"WRITING", "PRINT", "MARK"}
      BY DEF Places
    <3>6. job' = [job EXCEPT ![r] = m]
      BY <3>1, <3>2
    <3> QED
      BY <1>5, <3>3, <3>4, <3>5, <3>6
  <2> QED
    BY <2>1, <2>2
<1>8. CASE FindSource(r)
  <2>1. PICK c, b : job' = [job EXCEPT ![r].pc = "SOURCED", ![r].source = c, ![r].stale = b]
    BY <1>8 DEF FindSource
  <2>2. PICK m : m = [j EXCEPT !.pc = "SOURCED", !.source = c, !.stale = b]
    OBVIOUS
  <2>3. m = [pc |-> "SOURCED", at |-> j.at, grant |-> j.grant, plan |-> j.plan, source |-> c,
             stale |-> b, phase |-> j.phase, goal |-> j.goal]
    BY <1>2, <2>2 DEF JobTyped
  <2>4. job' = [job EXCEPT ![r] = m]
    BY <1>1, <2>1, <2>2 DEF RunsTyped
  <2>5. j.phase \in 0..7 /\ j.goal \in 0..7 /\ "SOURCED" \in Places \ {"WRITING", "PRINT", "MARK"}
    BY <1>2 DEF JobTyped, Places
  <2> QED
    BY <1>5, <2>3, <2>4, <2>5
<1>9. CASE Prospect(r)
  <2>1. PICK p \in {"RECORD", "NAME_ERROR"}, n \in Plans :
           job' = [job EXCEPT ![r].pc = p, ![r].plan = n]
    BY <1>9 DEF Prospect
  <2>2. PICK m : m = [j EXCEPT !.pc = p, !.plan = n]
    OBVIOUS
  <2>3. m = [pc |-> p, at |-> j.at, grant |-> j.grant, plan |-> n, source |-> j.source,
             stale |-> j.stale, phase |-> j.phase, goal |-> j.goal]
    BY <1>2, <2>2 DEF JobTyped
  <2>4. job' = [job EXCEPT ![r] = m]
    BY <1>1, <2>1, <2>2 DEF RunsTyped
  <2>5. j.phase \in 0..7 /\ j.goal \in 0..7 /\ p \in Places \ {"WRITING", "PRINT", "MARK"}
    BY <1>2 DEF JobTyped, Places
  <2> QED
    BY <1>5, <2>3, <2>4, <2>5
<1>10. CASE ReadCarried(r) \/ RecordAuthority(r) \/ RecordSession(r)
            \/ AuthorizeReserve(r) \/ AuthorizePreauth(r)
  <2>1. PICK p \in {"INTENT", "SESSION", "RESERVE", "RESERVING", "FREEZE"} :
           job' = [job EXCEPT ![r].pc = p]
    BY <1>10 DEF ReadCarried, RecordAuthority, RecordSession, AuthorizeReserve, AuthorizePreauth
  <2>2. p \in Places \ {"WRITING", "PRINT", "MARK"}
    BY <2>1 DEF Places
  <2> QED
    BY <1>6, <2>1, <2>2
<1>11. CASE \/ AdmitSuccessor(r) \/ CarryInventory(r) \/ IntentSimulated(r) \/ SkipReserve(r)
            \/ ReserveSell(r) \/ FreezePreauth(r)
  <2>1. PICK goal \in 2..6 : job' = [job EXCEPT ![r] = Marking(@, goal)]
    BY <1>11 DEF AdmitSuccessor, CarryInventory, IntentSimulated, SkipReserve, ReserveSell,
           FreezePreauth
  <2> QED
    BY <1>4, <2>1
<1>12. CASE RecordPreparePlan(r)
  <2>1. PICK k, p : k = prepare'[j.source].phase /\ p = Begin(j)
    OBVIOUS
  <2>2. PICK m : m = [j EXCEPT !.pc = p, !.phase = k]
    OBVIOUS
  <2>3. m = [pc |-> p, at |-> j.at, grant |-> j.grant, plan |-> j.plan, source |-> j.source,
             stale |-> j.stale, phase |-> k, goal |-> j.goal]
    BY <1>2, <2>2 DEF JobTyped
  <2>4. job' = [job EXCEPT ![r] = m]
    BY <1>1, <1>12, <2>1, <2>2 DEF RecordPreparePlan, RunsTyped
  <2>5. p \in Places \ {"WRITING", "PRINT", "MARK"}
    BY <2>1 DEF Begin, Places
  <2>6. k \in 0..7 /\ j.goal \in 0..7
    <3>1. PICK n, c : n = job[r].plan /\ c = job[r].source
      OBVIOUS
    <3>2. TablesTyped' /\ c \in Cycles
      BY <1>12, <3>1, RecordStepKept
    <3> QED
      BY <1>1, <1>2, <2>1, <3>1, <3>2 DEF TablesTyped, PrepareRecord, JobTyped
  <2> QED
    BY <1>5, <2>3, <2>4, <2>5, <2>6
<1>13. CASE AdvancePreparePhase(r)
  <2>1. j.pc = "MARK" /\ j.goal \in 2..7 /\ j.phase < j.goal
    BY <1>1, <1>2, <1>13 DEF AdvancePreparePhase, JobSound
  <2>2. PICK i : i = [j EXCEPT !.phase = j.phase + 1]
    OBVIOUS
  <2>3. i = [pc |-> j.pc, at |-> j.at, grant |-> j.grant, plan |-> j.plan, source |-> j.source,
             stale |-> j.stale, phase |-> j.phase + 1, goal |-> j.goal]
    BY <1>2, <2>2 DEF JobTyped
  <2>4. j.phase + 1 \in 0..7
    BY <1>2, <2>1 DEF JobTyped
  <2>5. JobTyped(i)
    BY <1>2, <2>3, <2>4 DEF JobTyped
  <2>6. job' = [job EXCEPT ![r] = Marking(i, j.goal)]
    BY <1>1, <1>13, <2>2 DEF AdvancePreparePhase, RunsTyped
  <2>7. j.goal = 7 => Holding(job[r])
    BY <1>1, <2>1 DEF Holding
  <2> QED
    BY <1>3, <2>1, <2>5, <2>6, <2>7, MarkingStays
<1> QED
  BY <1>7, <1>8, <1>9, <1>10, <1>11, <1>12, <1>13 DEF Quiet

\* The file is created where there is none: nobody holds it and nothing is printed.
LEMMA CreateStays ==
    ASSUME TablesTyped, RunsTyped, JobsSound, OneHolder, NEW r \in Runs, CreateSidecar(r)
    PROVE OneHolder'
<1>1. PICK j : j = job[r]
  OBVIOUS
<1>2. JobTyped(j)
  BY <1>1 DEF RunsTyped
<1>3. PICK m : m = [j EXCEPT !.pc = "WRITING"]
  OBVIOUS
<1>4. m = [pc |-> "WRITING", at |-> j.at, grant |-> j.grant, plan |-> j.plan, source |-> j.source,
           stale |-> j.stale, phase |-> j.phase, goal |-> j.goal]
  BY <1>2, <1>3 DEF JobTyped
<1>5. JobTyped(m)
  BY <1>2, <1>4 DEF JobTyped, Places
<1>6. job' = [job EXCEPT ![r] = m]
  BY <1>1, <1>3 DEF CreateSidecar, RunsTyped
<1>7. job'[r] = m /\ \A s \in Runs \ {r} : job'[s] = job[s]
  BY <1>5, <1>6, MoveTyped
<1>8. Unprinted /\ \A s \in Runs : ~Holding(job[s])
  BY DEF CreateSidecar, OneHolder
<1>9. sidecar' = "PARTIAL" /\ UNCHANGED printed
  BY DEF CreateSidecar
<1>10. \A s \in Runs : Holding(job[s])' <=> Holding(job'[s])
  BY DEF Holding
<1>11. \A s \in Runs : Holding(job[s])' => s = r
  BY <1>7, <1>8, <1>10
<1>12. Unprinted' /\ RequestsPrintedOnce'
  BY <1>8, <1>9 DEF Unprinted, RequestsPrintedOnce
<1> QED
  BY <1>9, <1>11, <1>12 DEF OneHolder

\* Who writes the file goes on holding it.
LEMMA WriteStays ==
    ASSUME TablesTyped, RunsTyped, JobsSound, OneHolder, NEW r \in Runs, WriteSidecar(r)
    PROVE OneHolder'
<1>1. PICK j : j = job[r]
  OBVIOUS
<1>2. JobTyped(j) /\ j.pc = "WRITING" /\ Holding(j)
  BY <1>1 DEF RunsTyped, WriteSidecar, Holding
<1>3. PICK m : m = Marking(j, 7)
  OBVIOUS
<1>4. JobTyped(m) /\ Holding(m) /\ m.pc # "WRITING"
  BY <1>2, <1>3, MarkingFacts
<1>5. job' = [job EXCEPT ![r] = m]
  BY <1>1, <1>3 DEF WriteSidecar, RunsTyped
<1>6. job'[r] = m /\ \A s \in Runs \ {r} : job'[s] = job[s]
  BY <1>4, <1>5, MoveTyped
<1>7. Unprinted /\ \A s \in Runs : Holding(job[s]) => s = r
  BY <1>1, <1>2 DEF OneHolder
<1>8. sidecar' # "NONE" /\ UNCHANGED printed
  <2>1. j.plan \in Plans
    BY <1>1, <1>2, WorkOnRecord DEF Working, Searching
  <2> QED
    BY <1>1, <2>1, FileAssumption DEF WriteSidecar
<1>9. \A s \in Runs : Holding(job[s])' <=> Holding(job'[s])
  BY DEF Holding
<1>10. \A s \in Runs : Holding(job[s])' => s = r
  BY <1>6, <1>7, <1>9
<1>11. \A s \in Runs : job'[s].pc # "WRITING"
  <2>1. \A s \in Runs : job'[s].pc = "WRITING" => Holding(job'[s])
    BY DEF Holding
  <2> QED
    BY <1>4, <1>6, <1>9, <1>10, <2>1
<1>12. Unprinted' /\ RequestsPrintedOnce'
  BY <1>7, <1>8 DEF Unprinted, RequestsPrintedOnce
<1> QED
  BY <1>8, <1>10, <1>11, <1>12 DEF OneHolder

\* Who prints held the file, and nobody holds it then.
LEMMA PrintStays ==
    ASSUME TablesTyped, RunsTyped, JobsSound, OneHolder, NEW r \in Runs, PrintSigningRequests(r)
    PROVE OneHolder'
<1>1. JobTyped(Resting) /\ ~Holding(Resting)
  <2>1. Resting = [pc |-> "IDLE", at |-> 0, grant |-> "none", plan |-> "none",
                   source |-> "none", stale |-> FALSE, phase |-> 0, goal |-> 0]
    BY DEF Resting
  <2> QED
    BY <2>1 DEF JobTyped, Places, Holding
<1>2. job'[r] = Resting /\ \A s \in Runs \ {r} : job'[s] = job[s]
  BY <1>1, MoveTyped DEF PrintSigningRequests
<1>3. Holding(job[r])
  BY DEF PrintSigningRequests, Holding
<1>4. Unprinted /\ sidecar # "NONE" /\ \A s \in Runs : Holding(job[s]) => s = r
  BY <1>3 DEF OneHolder
<1>5. \A s \in Runs : ~Holding(job[s])'
  <2>1. \A s \in Runs : Holding(job[s])' <=> Holding(job'[s])
    BY DEF Holding
  <2> QED
    BY <1>1, <1>2, <1>4, <2>1
<1>6. \A s \in Runs : job'[s].pc # "WRITING"
  BY <1>5 DEF Holding
<1>7. job[r].plan \in Plans
  BY WorkOnRecord DEF PrintSigningRequests, Working, Searching
<1>8. RequestsPrintedOnce'
  <2>1. printed' = [printed EXCEPT ![job[r].plan] = @ + 1]
    BY DEF PrintSigningRequests
  <2>2. printed'[job[r].plan] = 1 /\ \A n \in Plans \ {job[r].plan} : printed'[n] = 0
    BY <1>4, <1>7, <2>1 DEF Unprinted, TablesTyped
  <2> QED
    BY <2>2 DEF RequestsPrintedOnce
<1>9. sidecar' # "NONE"
  BY <1>4 DEF PrintSigningRequests
<1> QED
  BY <1>5, <1>6, <1>8, <1>9 DEF OneHolder

\* Who dies with the file may remove it only while it was being written.
LEMMA DieStays ==
    ASSUME TablesTyped, RunsTyped, JobsSound, OneHolder, NEW r \in Runs, Die(r)
    PROVE OneHolder'
<1>1. JobTyped(Resting) /\ ~Holding(Resting) /\ Resting.pc = "IDLE"
  <2>1. Resting = [pc |-> "IDLE", at |-> 0, grant |-> "none", plan |-> "none",
                   source |-> "none", stale |-> FALSE, phase |-> 0, goal |-> 0]
    BY DEF Resting
  <2> QED
    BY <2>1 DEF JobTyped, Places, Holding
<1>2. job' = [job EXCEPT ![r] = Resting] /\ UNCHANGED printed
  BY DEF Die
<1>3. CASE UNCHANGED sidecar
  BY <1>1, <1>2, <1>3, MoverStays
<1>4. CASE job[r].pc = "WRITING"
  <2>1. job'[r] = Resting /\ \A s \in Runs \ {r} : job'[s] = job[s]
    BY <1>1, <1>2, MoveTyped
  <2>2. Holding(job[r])
    BY <1>4 DEF Holding
  <2>3. Unprinted /\ \A s \in Runs : Holding(job[s]) => s = r
    BY <2>2 DEF OneHolder
  <2>4. \A s \in Runs : ~Holding(job[s])'
    <3>1. \A s \in Runs : Holding(job[s])' <=> Holding(job'[s])
      BY DEF Holding
    <3> QED
      BY <1>1, <2>1, <2>3, <3>1
  <2>5. \A s \in Runs : job'[s].pc # "WRITING"
    BY <2>4 DEF Holding
  <2>6. Unprinted' /\ RequestsPrintedOnce'
    BY <1>2, <2>3 DEF Unprinted, RequestsPrintedOnce
  <2> QED
    BY <2>4, <2>5, <2>6 DEF OneHolder
<1> QED
  BY <1>3, <1>4 DEF Die

LEMMA HolderStep ==
    ASSUME TablesTyped, RunsTyped, JobsSound, OneHolder, PrepareNext
    PROVE OneHolder'
<1>1. ASSUME UNCHANGED <<sidecar, printed, job>>
      PROVE OneHolder'
  BY <1>1, HoldersStay
<1>2. ASSUME NEW r \in Runs, Run(r) \/ Die(r)
      PROVE OneHolder'
  <2>1. CASE AdvanceIntent(r)
    BY <1>1, <2>1 DEF AdvanceIntent, sagaVars
  <2>2. CASE CreateSidecar(r) \/ WriteSidecar(r) \/ PrintSigningRequests(r) \/ Die(r)
    BY <2>2, CreateStays, WriteStays, PrintStays, DieStays
  <2> QED
    BY <1>2, <2>1, <2>2, EarlierStays DEF Run, Quiet
<1>3. ASSUME (\E n \in Plans : RecordSigned(n)) \/ (\E a \in Actions : RecoverCancels(a)) \/ Others
      PROVE OneHolder'
  BY <1>1, <1>3 DEF RecordSigned, RecoverCancels, Others, sagaVars
<1> QED
  BY <1>2, <1>3 DEF PrepareNext

-----------------------------------------------------------------------------
(* The invariant. *)

LEMMA PrepareSoundStep ==
    ASSUME PrepareSound, [PrepareNext]_prepareVars
    PROVE PrepareSound'
<1>1. CASE PrepareNext
  BY <1>1, StepKept, RunsStep, RecordsStep, OneSourceStep, HolderStep, PrecedesStep
     DEF PrepareSound
<1>2. CASE UNCHANGED prepareVars
  <2>1. UNCHANGED <<ledgerVars, authorityVars, sagaVars>>
    BY <1>2 DEF prepareVars
  <2>2. TablesTyped' /\ Kept
    BY <2>1, QuietKept DEF PrepareSound, ledgerVars, authorityVars, sagaVars
  <2>3. UNCHANGED <<job, prepare, cycle, sidecar, printed>>
    BY <2>1 DEF sagaVars, ledgerVars
  <2>4. RunsTyped'
    BY <2>3 DEF PrepareSound, RunsTyped
  <2>5. JobsSound'
    <3>1. ASSUME NEW s \in Runs, NEW j, j = job'[s]
          PROVE JobSound(j)'
      <4>1. j = job[s]
        BY <2>3, <3>1
      <4>2. JobTyped(j) /\ JobSound(j)
        BY <4>1 DEF PrepareSound, RunsTyped, JobsSound
      <4> QED
        BY <2>2, <4>2, JobStays DEF PrepareSound
    <3> QED
      BY <3>1 DEF JobsSound
  <2>6. RecordsSound'
    <3>1. ASSUME NEW c \in Cycles
          PROVE RecordSound(c)'
      <4>1. CASE prepare[c].phase > 0
        BY <2>2, <2>3, <4>1, RecordStays DEF PrepareSound, RecordsSound
      <4>2. CASE ~(prepare[c].phase > 0)
        BY <2>3, <4>2 DEF RecordSound
      <4> QED
        BY <4>1, <4>2
    <3> QED
      BY <3>1 DEF RecordsSound
  <2>7. OneSourceEach'
    BY <2>3 DEF PrepareSound, OneSourceEach, Recorded, SuccessorPolicy, SuccessorOf
  <2>8. OneHolder'
    BY <2>3, HoldersStay DEF PrepareSound
  <2>9. PlanPrecedesEffects'
    BY <2>1 DEF PrepareSound, PlanPrecedesEffects, Recorded, SuccessorPolicy, SuccessorOf, SellOf,
           ledgerVars, authorityVars, sagaVars
  <2> QED
    BY <2>2, <2>4, <2>5, <2>6, <2>7, <2>8, <2>9 DEF PrepareSound
<1> QED
  BY <1>1, <1>2

LEMMA PrepareSoundInit ==
    ASSUME PrepareInit
    PROVE PrepareSound
<1>1. PICK legacy \in LegacyStates \cup {"NONE"} :
         /\ admitted \subseteq {CycleInfo[BuyCycle].policy, CycleInfo[LegacyCycle].policy}
         /\ cycle = [c \in Cycles |->
                CASE c = BuyCycle -> IF legacy # "NONE" THEN "COMPLETED" ELSE "OPEN"
                  [] c = LegacyCycle /\ legacy # "NONE" -> "OPEN"
                  [] OTHER -> "NONE"]
         /\ carry = [c \in Cycles |->
                IF c = LegacyCycle /\ legacy # "NONE"
                THEN [from |-> BuyCycle, amount |-> Quantity] ELSE NoCarry]
         /\ state = [a \in Actions |->
                CASE a \in {b \in Actions : CycleOf(b) = BuyCycle} -> "FILLED"
                  [] a \in {b \in Actions : CycleOf(b) = LegacyCycle} -> legacy
                  [] OTHER -> "NONE"]
  BY Zenon DEF PrepareInit
<1>2. /\ now \in Nat /\ sessions = [n \in Sessions |-> -1]
      /\ prepare = NoRecords \/ \E c \in Cycles, n \in Plans : PlanLeft(c, n)
      /\ preauth = {} /\ sidecar = "NONE"
      /\ printed = [n \in Plans |-> 0] /\ job = [r \in Runs |-> Resting]
  BY DEF PrepareInit, AuthorityInit
<1>3. LegacyStates \subseteq IntentState /\ BuyCycle # LegacyCycle /\ BuyCycle \in Cycles
  BY SourceAssumption
<1>4. ASSUME NEW c \in Cycles
      PROVE /\ cycle[c] \in CycleStatus \cup {"NONE"}
            /\ c \notin {BuyCycle, LegacyCycle} => cycle[c] = "NONE"
            /\ cycle[c] = "NONE" => carry[c] = NoCarry
            /\ carry[c] \in [from: Cycles \cup {"none"}, amount: Nat]
  <2>1. cycle[c] = CASE c = BuyCycle -> IF legacy # "NONE" THEN "COMPLETED" ELSE "OPEN"
                     [] c = LegacyCycle /\ legacy # "NONE" -> "OPEN"
                     [] OTHER -> "NONE"
    BY <1>1, Zenon
  <2>2. /\ carry[c] = IF c = LegacyCycle /\ legacy # "NONE"
                      THEN [from |-> BuyCycle, amount |-> Quantity] ELSE NoCarry
        /\ carry[c] \in [from: Cycles \cup {"none"}, amount: Nat]
    BY <1>1, <1>3, PlanAssumption DEF NoCarry
  <2>3. CASE c = BuyCycle
    <3>1. c # LegacyCycle
      BY <1>3, <2>3
    <3>2. cycle[c] = IF legacy # "NONE" THEN "COMPLETED" ELSE "OPEN"
      BY <2>1, <2>3, <3>1, Zenon
    <3> QED
      BY <2>2, <2>3, <3>2 DEF CycleStatus
  <2>4. CASE c # BuyCycle /\ c = LegacyCycle /\ legacy # "NONE"
    <3>1. cycle[c] = "OPEN"
      BY <2>1, <2>4, Zenon
    <3> QED
      BY <2>2, <2>4, <3>1 DEF CycleStatus
  <2>5. CASE c # BuyCycle /\ ~(c = LegacyCycle /\ legacy # "NONE")
    <3>1. cycle[c] = "NONE"
      BY <2>1, <2>5, Zenon
    <3> QED
      BY <2>2, <2>5, <3>1
  <2> QED
    BY <2>3, <2>4, <2>5
<1>5. ASSUME NEW a \in Actions
      PROVE /\ state[a] \in IntentState \cup {"NONE"}
            /\ CycleOf(a) \notin {BuyCycle, LegacyCycle} => state[a] = "NONE"
  <2>1. state[a] = CASE a \in {b \in Actions : CycleOf(b) = BuyCycle} -> "FILLED"
                     [] a \in {b \in Actions : CycleOf(b) = LegacyCycle} -> legacy
                     [] OTHER -> "NONE"
    BY <1>1, Zenon
  <2>2. CASE a \in {b \in Actions : CycleOf(b) = BuyCycle}
    <3>1. a \notin {b \in Actions : CycleOf(b) = LegacyCycle}
      BY <1>3, <2>2
    <3>2. state[a] = "FILLED"
      BY <2>1, <2>2, <3>1, Zenon
    <3> QED
      BY <2>2, <3>2 DEF IntentState
  <2>3. CASE /\ a \notin {b \in Actions : CycleOf(b) = BuyCycle}
             /\ a \in {b \in Actions : CycleOf(b) = LegacyCycle}
    <3>1. state[a] = legacy
      BY <2>1, <2>3, Zenon
    <3> QED
      BY <1>3, <2>3, <3>1
  <2>4. CASE /\ a \notin {b \in Actions : CycleOf(b) = BuyCycle}
             /\ a \notin {b \in Actions : CycleOf(b) = LegacyCycle}
    <3>1. state[a] = "NONE"
      BY <2>1, <2>4, Zenon
    <3> QED
      BY <3>1
  <2> QED
    BY <2>2, <2>3, <2>4
<1>6. TablesTyped
  <2>1. /\ cycle \in [Cycles -> CycleStatus \cup {"NONE"}]
        /\ carry \in [Cycles -> [from: Cycles \cup {"none"}, amount: Nat]]
        /\ state \in [Actions -> IntentState \cup {"NONE"}]
    <3> DEFINE C(c) == CASE c = BuyCycle -> IF legacy # "NONE" THEN "COMPLETED" ELSE "OPEN"
                         [] c = LegacyCycle /\ legacy # "NONE" -> "OPEN"
                         [] OTHER -> "NONE"
               S(a) == CASE a \in {b \in Actions : CycleOf(b) = BuyCycle} -> "FILLED"
                         [] a \in {b \in Actions : CycleOf(b) = LegacyCycle} -> legacy
                         [] OTHER -> "NONE"
    <3>1. cycle = [c \in Cycles |-> C(c)] /\ state = [a \in Actions |-> S(a)]
      BY <1>1, Zenon
    <3> HIDE DEF C, S
    <3>2. cycle = [c \in Cycles |-> cycle[c]] /\ state = [a \in Actions |-> state[a]]
      BY <3>1
    <3>3. carry = [c \in Cycles |-> carry[c]]
      BY <1>1
    <3> QED
      BY <1>4, <1>5, <3>2, <3>3
  <2>2. prepare \in [Cycles -> PrepareRecord] /\ printed \in [Plans -> Nat]
        /\ sessions \in [Plans -> Int]
    <3>1. prepare \in [Cycles -> PrepareRecord]
      BY <1>2 DEF NoRecords, NoRecord, PlanLeft, PrepareRecord
    <3> QED
      BY <1>2, <3>1, PlanAssumption
  <2> QED
    BY <1>2, <1>4, <2>1, <2>2 DEF TablesTyped
<1>7. RecordsSound /\ OneSourceEach
  <2>1. CASE prepare = NoRecords
    <3>1. \A c \in Cycles : ~(prepare[c].phase > 0)
      BY <2>1 DEF NoRecords, NoRecord
    <3> QED
      BY <3>1 DEF RecordsSound, RecordSound, OneSourceEach, Recorded
  <2>2. CASE \E c \in Cycles, n \in Plans : PlanLeft(c, n)
    <3>1. PICK c \in Cycles, n \in Plans : PlanLeft(c, n)
      BY <2>2
    <3>2. /\ prepare[c] = [plan |-> n, phase |-> 1]
          /\ \A d \in Cycles \ {c} : ~(prepare[d].phase > 0)
      BY <3>1 DEF PlanLeft, NoRecords, NoRecord
    <3>3. Whole(c) /\ cycle[SuccessorOf(n)] = "NONE"
      BY <3>1 DEF PlanLeft, Rehearsable, Whole
    <3>4. RecordSound(c)
      BY <3>2, <3>3 DEF RecordSound, Done
    <3> QED
      BY <3>2, <3>4 DEF RecordsSound, RecordSound, OneSourceEach, Recorded
  <2> QED
    BY <1>2, <2>1, <2>2
<1>8. Resting = [pc |-> "IDLE", at |-> 0, grant |-> "none", plan |-> "none",
                 source |-> "none", stale |-> FALSE, phase |-> 0, goal |-> 0]
  BY DEF Resting
<1>9. RunsTyped /\ JobsSound /\ \A r \in Runs : ~Holding(job[r]) /\ job[r].pc = "IDLE"
  <2>1. JobTyped(Resting) /\ JobSound(Resting) /\ ~Holding(Resting) /\ Resting.pc = "IDLE"
    BY <1>8 DEF JobTyped, Places, JobSound, Working, Searching, Holding
  <2> QED
    BY <1>2, <2>1 DEF RunsTyped, JobsSound
<1>10. OneHolder
  BY <1>2, <1>9 DEF OneHolder, Unprinted, RequestsPrintedOnce
<1>11. PlanPrecedesEffects
  <2> SUFFICES ASSUME NEW n \in Plans
               PROVE /\ sessions[n] = -1 /\ n \notin preauth
                     /\ SuccessorPolicy(n) \notin admitted
                     /\ cycle[SuccessorOf(n)] = "NONE" /\ state[SellOf(n)] = "NONE"
    BY DEF PlanPrecedesEffects
  <2>1. sessions[n] = -1 /\ n \notin preauth
    BY <1>2, PlanAssumption
  <2>2. SuccessorPolicy(n) \notin admitted
    BY <1>1, SuccessorAssumption
  <2>3. cycle[SuccessorOf(n)] = "NONE" /\ state[SellOf(n)] = "NONE"
    BY <1>4, <1>5, PlanFacts
  <2> QED
    BY <2>1, <2>2, <2>3
<1> QED
  BY <1>6, <1>7, <1>9, <1>10, <1>11 DEF PrepareSound

LEMMA PrepareSoundAlways == PrepareSpec => []PrepareSound
<1>1. PrepareInit => PrepareSound
  BY PrepareSoundInit
<1>2. PrepareSound /\ [PrepareNext]_prepareVars => PrepareSound'
  BY PrepareSoundStep
<1> QED
  BY <1>1, <1>2, PTL DEF PrepareSpec

\* Whoever resumes a preparation from its durable phase finds done all that the phase
\* stands for: policy, carry, sell, session, approval and file, whichever runs did
\* them, died on the way or were cancelled behind (_advance_to_phase, main()).
THEOREM PhaseCorrect == PrepareSpec => []PhaseTellsTruth
<1>1. PrepareSound => PhaseTellsTruth
  <2> SUFFICES ASSUME PrepareSound, NEW c \in Recorded
               PROVE Done(prepare[c].plan, c, prepare[c].phase)
    BY DEF PhaseTellsTruth, Done
  <2>1. RecordSound(c) /\ prepare[c].phase > 0
    BY DEF PrepareSound, RecordsSound, Recorded
  <2> QED
    BY <2>1 DEF RecordSound
<1> QED
  BY <1>1, PrepareSoundAlways, PTL

\* No session, approval, policy, cycle or sell of a preparation is in the ledger before
\* record_prepare_plan has made durable the plan it belongs to.
THEOREM PlanPrecedesCorrect == PrepareSpec => []PlanPrecedesEffects
<1>1. PrepareSound => PlanPrecedesEffects
  BY DEF PrepareSound
<1> QED
  BY <1>1, PrepareSoundAlways, PTL

\* The file created exclusively keeps the signing requests of a position from being
\* printed twice, by however many runs of the program (main(), 1214-1226).
THEOREM PrintedOnceCorrect == PrepareSpec => []RequestsPrintedOnce
<1>1. PrepareSound => RequestsPrintedOnce
  BY DEF PrepareSound, OneHolder
<1> QED
  BY <1>1, PrepareSoundAlways, PTL

\* Whatever grants the runs record, the accepted one never gives way to one of an
\* earlier epoch or to an older one of the same (record_verified_authority and the
\* trigger authority_root_state_no_rollback).
THEOREM RollBackCorrect == PrepareSpec => AuthorityNeverRollsBack
<1> DEFINE Forward ==
      accepted'.grant # accepted.grant /\ accepted.grant # "none" =>
         \/ GrantInfo[accepted'.grant].epoch > GrantInfo[accepted.grant].epoch
         \/ GrantInfo[accepted'.grant].issued > accepted.at
<1>1. ASSUME NEW g, NEW t, RecordVerifiedAuthority(g, t)
      PROVE Forward
  <2>1. CASE g = accepted.grant
    BY <1>1, <2>1 DEF RecordVerifiedAuthority
  <2>2. CASE g # accepted.grant
    <3>1. accepted'.grant = g
      BY <1>1, <2>2 DEF RecordVerifiedAuthority
    <3> QED
      BY <1>1, <2>2, <3>1 DEF RecordVerifiedAuthority, Acceptable, Succeeds
  <2> QED
    BY <2>1, <2>2
<1>2. (UNCHANGED accepted) => Forward
  OBVIOUS
<1>3. ASSUME [PrepareNext]_prepareVars
      PROVE Forward
  <2>1. ASSUME NEW r \in Runs, Run(r) \/ Die(r)
        PROVE Forward
    <3>1. CASE RecordAuthority(r)
      BY <1>1, <3>1 DEF RecordAuthority
    <3>2. CASE RecordSession(r)
      BY <1>2, <3>2 DEF RecordSession, CreateExecutionSession
    <3>3. CASE UNCHANGED authorityVars
      BY <1>2, <3>3 DEF authorityVars
    <3>4. UNCHANGED authorityVars \/ RecordAuthority(r) \/ RecordSession(r)
      BY <2>1 DEF Run, Load, FindSource, Prospect, RecordPreparePlan, AdvancePreparePhase,
             AdmitSuccessor, CarryInventory, ReadCarried, AdvanceIntent, IntentSimulated,
             SkipReserve, AuthorizeReserve, ReserveSell, AuthorizePreauth, FreezePreauth,
             CreateSidecar, WriteSidecar, PrintSigningRequests, Die
    <3> QED
      BY <3>1, <3>2, <3>3, <3>4
  <2>2. ASSUME \/ \E n \in Plans : RecordSigned(n)
               \/ \E a \in Actions : RecoverCancels(a)
               \/ Others \/ UNCHANGED prepareVars
        PROVE UNCHANGED accepted
    BY <2>2 DEF RecordSigned, RecoverCancels, Others, Tick, EngageKillSwitch, prepareVars,
           authorityVars
  <2> QED
    BY <1>2, <1>3, <2>1, <2>2 DEF PrepareNext
<1> QED
  BY <1>3, PTL DEF PrepareSpec, AuthorityNeverRollsBack

-----------------------------------------------------------------------------
(* The preparation is a caller of the ledger: what it does to the ledger's    *)
(* tables is what some call of the ledger does, or nothing.  It starts from   *)
(* tables for which the ledger's own invariants hold, and so keeps them.      *)

\* One step of anybody is one call of the ledger, or none.
LEMMA CallsLedger ==
    ASSUME PrepareSound, TypeOK, PrepareNext
    PROVE LedgerNext \/ UNCHANGED ledgerVars
<1>1. ASSUME NEW r \in Runs, Run(r) \/ Die(r)
      PROVE LedgerNext \/ UNCHANGED ledgerVars
  <2>1. CASE job[r].pc \in {"ADMIT", "CARRY", "READ", "INTENT", "RESERVING"}
    <3> DEFINE n == job[r].plan
    <3>1. /\ n \in Plans /\ job[r].source \in Cycles
          /\ SuccessorOf(n) \in Cycles /\ SellOf(n) \in Actions /\ SuccessorPolicy(n) \in Policies
      BY <2>1, WorkOnRecord, PlanFacts DEF PrepareSound, Working, Searching
    <3>2. CASE AdmitSuccessor(r)
      BY <3>1, <3>2 DEF AdmitSuccessor, LedgerNext
    <3>3. CASE CarryInventory(r)
      BY <3>1, <3>3 DEF CarryInventory, LedgerNext
    <3>4. CASE ReadCarried(r)
      <4> DEFINE d == SuccessorOf(n)
      <4>1. /\ Inventory(d) = Quantity /\ seen' = [seen EXCEPT ![d] = Inventory(d)]
            /\ UNCHANGED <<admitted, cycle, carry, state, bounds, resv, receipts, recon>>
        BY <3>4 DEF ReadCarried
      <4>2. cycle[d] # "NONE"
        <5>1. job[r].pc = "READ"
          BY <3>4 DEF ReadCarried
        <5>2. Done(n, job[r].source, 3)
          BY <5>1 DEF PrepareSound, JobsSound, JobSound, Working, Searching, Progress, ReachedAt
        <5> QED
          BY <5>2 DEF Done
      <4>3. CASE seen[d] = Quantity
        BY <4>1, <4>3 DEF TypeOK, ledgerVars
      <4>4. CASE seen[d] # Quantity
        BY <3>1, <4>1, <4>2, <4>4, PlanAssumption DEF ReadInventory, LedgerNext
      <4> QED
        BY <4>3, <4>4
    <3>5. CASE AdvanceIntent(r)
      <4>1. CASE state[SellOf(n)] \in DOMAIN SimulationStep
        <5>1. SimulationStep[state[SellOf(n)]] \in IntentState
          BY <4>1 DEF SimulationStep, IntentState
        <5> QED
          BY <3>1, <3>5, <5>1 DEF AdvanceIntent, LedgerNext
      <4> QED
        BY <3>1, <3>5, <4>1 DEF AdvanceIntent, LedgerNext
    <3>6. CASE ReserveSell(r)
      BY <3>1, <3>6 DEF ReserveSell, LedgerNext, IntentState
    <3>7. CASE UNCHANGED ledgerVars
      BY <3>7
    <3> QED
      BY <1>1, <3>2, <3>3, <3>4, <3>5, <3>6, <3>7
         DEF Run, Load, FindSource, Prospect, RecordPreparePlan, AdvancePreparePhase,
             IntentSimulated, RecordAuthority, RecordSession, SkipReserve, AuthorizeReserve,
             AuthorizePreauth, FreezePreauth, CreateSidecar, WriteSidecar,
             PrintSigningRequests, Die
  <2>2. CASE job[r].pc \notin {"ADMIT", "CARRY", "READ", "INTENT", "RESERVING"}
    BY <1>1, <2>2
       DEF Run, Load, FindSource, Prospect, RecordPreparePlan, AdvancePreparePhase,
           AdmitSuccessor, CarryInventory, ReadCarried, AdvanceIntent, IntentSimulated,
           RecordAuthority, RecordSession, SkipReserve, AuthorizeReserve, ReserveSell,
           AuthorizePreauth, FreezePreauth, CreateSidecar, WriteSidecar,
           PrintSigningRequests, Die
  <2> QED
    BY <2>1, <2>2
<1>2. CASE \E a \in Actions : RecoverCancels(a)
  BY <1>2 DEF RecoverCancels, LedgerNext, IntentState
<1>3. CASE (\E n \in Plans : RecordSigned(n)) \/ Others
  BY <1>3 DEF RecordSigned, Others
<1> QED
  BY <1>1, <1>2, <1>3 DEF PrepareNext

\* The tables a preparation starts from: the buy filled, its inventory where it is or
\* carried once.
LedgerStart(legacy) ==
    /\ \A c \in Cycles :
         /\ c = BuyCycle => cycle[c] \in {"OPEN", "COMPLETED"}
         /\ c = LegacyCycle => cycle[c] = IF legacy = "NONE" THEN "NONE" ELSE "OPEN"
         /\ c \notin {BuyCycle, LegacyCycle} => cycle[c] = "NONE"
         /\ carry[c] = IF c = LegacyCycle /\ legacy # "NONE"
                       THEN [from |-> BuyCycle, amount |-> Quantity] ELSE NoCarry
    /\ \A a \in Actions :
         /\ CycleOf(a) = BuyCycle => state[a] = "FILLED" /\ resv[a] = "COMMITTED"
         /\ CycleOf(a) = LegacyCycle => state[a] = legacy
         /\ CycleOf(a) \notin {BuyCycle, LegacyCycle} => state[a] = "NONE" /\ bounds[a] = NoBounds
         /\ CycleOf(a) # BuyCycle => resv[a] = "NONE"
         /\ CycleOf(a) = BuyCycle => bounds[a] = [maxInput |-> Quantity, minOutput |-> Quantity]
         /\ bounds[a] \in [maxInput: Nat, minOutput: Nat]
    /\ cycle = [c \in Cycles |-> cycle[c]] /\ carry = [c \in Cycles |-> carry[c]]
    /\ state = [a \in Actions |-> state[a]] /\ bounds = [a \in Actions |-> bounds[a]]
    /\ resv = [a \in Actions |-> resv[a]]

LEMMA PrepareStarts ==
    ASSUME PrepareInit
    PROVE \E legacy \in LegacyStates \cup {"NONE"} : LedgerStart(legacy)
<1> DEFINE Buys == {a \in Actions : CycleOf(a) = BuyCycle}
           Left == {a \in Actions : CycleOf(a) = LegacyCycle}
<1>1. PICK legacy \in LegacyStates \cup {"NONE"} :
        /\ cycle = [c \in Cycles |->
                CASE c = BuyCycle -> IF legacy # "NONE" THEN "COMPLETED" ELSE "OPEN"
                  [] c = LegacyCycle /\ legacy # "NONE" -> "OPEN"
                  [] OTHER -> "NONE"]
        /\ carry = [c \in Cycles |->
                IF c = LegacyCycle /\ legacy # "NONE"
                THEN [from |-> BuyCycle, amount |-> Quantity] ELSE NoCarry]
        /\ state = [a \in Actions |->
                CASE a \in Buys -> "FILLED" [] a \in Left -> legacy [] OTHER -> "NONE"]
        /\ bounds = [a \in Actions |->
                IF a \in Buys \/ (a \in Left /\ legacy # "NONE")
                THEN [maxInput |-> Quantity, minOutput |-> Quantity] ELSE NoBounds]
        /\ resv = [a \in Actions |-> IF a \in Buys THEN "COMMITTED" ELSE "NONE"]
  BY Zenon DEF PrepareInit
<1>2. BuyCycle # LegacyCycle
  BY SourceAssumption
<1>3. ASSUME NEW c \in Cycles
      PROVE /\ c = BuyCycle => cycle[c] \in {"OPEN", "COMPLETED"}
            /\ c = LegacyCycle => cycle[c] = IF legacy = "NONE" THEN "NONE" ELSE "OPEN"
            /\ c \notin {BuyCycle, LegacyCycle} => cycle[c] = "NONE"
  <2>1. cycle[c] = CASE c = BuyCycle -> IF legacy # "NONE" THEN "COMPLETED" ELSE "OPEN"
                     [] c = LegacyCycle /\ legacy # "NONE" -> "OPEN"
                     [] OTHER -> "NONE"
    BY <1>1, Zenon
  <2>2. CASE c = BuyCycle
    <3>1. c # LegacyCycle
      BY <1>2, <2>2
    <3>2. cycle[c] = IF legacy # "NONE" THEN "COMPLETED" ELSE "OPEN"
      BY <2>1, <2>2, <3>1, Zenon
    <3> QED
      BY <2>2, <3>1, <3>2
  <2>3. CASE c # BuyCycle /\ c = LegacyCycle /\ legacy # "NONE"
    <3>1. cycle[c] = "OPEN"
      BY <2>1, <2>3, Zenon
    <3> QED
      BY <2>3, <3>1
  <2>4. CASE c # BuyCycle /\ ~(c = LegacyCycle /\ legacy # "NONE")
    <3>1. cycle[c] = "NONE"
      BY <2>1, <2>4, Zenon
    <3> QED
      BY <2>4, <3>1
  <2> QED
    BY <2>2, <2>3, <2>4
<1>4. ASSUME NEW a \in Actions
      PROVE /\ CycleOf(a) = BuyCycle => state[a] = "FILLED"
            /\ CycleOf(a) = LegacyCycle => state[a] = legacy
            /\ CycleOf(a) \notin {BuyCycle, LegacyCycle} => state[a] = "NONE"
  <2>1. state[a] = CASE a \in Buys -> "FILLED" [] a \in Left -> legacy [] OTHER -> "NONE"
    BY <1>1, Zenon
  <2>2. /\ a \in Buys <=> CycleOf(a) = BuyCycle
        /\ a \in Left <=> CycleOf(a) = LegacyCycle
    OBVIOUS
  <2>3. a \in Buys => a \notin Left
    BY <1>2
  <2> HIDE DEF Buys, Left
  <2>4. /\ a \in Buys => state[a] = "FILLED"
        /\ a \in Left => state[a] = legacy
        /\ a \notin Buys /\ a \notin Left => state[a] = "NONE"
    BY <2>1, <2>3, Zenon
  <2> QED
    BY <2>2, <2>4
<1>5. ASSUME NEW c \in Cycles
      PROVE carry[c] = IF c = LegacyCycle /\ legacy # "NONE"
                       THEN [from |-> BuyCycle, amount |-> Quantity] ELSE NoCarry
  BY <1>1
<1>6. ASSUME NEW a \in Actions
      PROVE /\ CycleOf(a) = BuyCycle => resv[a] = "COMMITTED"
            /\ CycleOf(a) # BuyCycle => resv[a] = "NONE"
            /\ CycleOf(a) = BuyCycle => bounds[a] = [maxInput |-> Quantity, minOutput |-> Quantity]
            /\ CycleOf(a) \notin {BuyCycle, LegacyCycle} => bounds[a] = NoBounds
            /\ bounds[a] \in [maxInput: Nat, minOutput: Nat]
  BY <1>1, PlanAssumption DEF NoBounds
<1>7. /\ cycle = [c \in Cycles |-> cycle[c]] /\ carry = [c \in Cycles |-> carry[c]]
      /\ state = [a \in Actions |-> state[a]] /\ bounds = [a \in Actions |-> bounds[a]]
      /\ resv = [a \in Actions |-> resv[a]]
  <2> DEFINE C(c) == CASE c = BuyCycle -> IF legacy # "NONE" THEN "COMPLETED" ELSE "OPEN"
                       [] c = LegacyCycle /\ legacy # "NONE" -> "OPEN"
                       [] OTHER -> "NONE"
             S(a) == CASE a \in Buys -> "FILLED" [] a \in Left -> legacy [] OTHER -> "NONE"
  <2>1. cycle = [c \in Cycles |-> C(c)] /\ state = [a \in Actions |-> S(a)]
    BY <1>1, Zenon
  <2>2. /\ carry = [c \in Cycles |-> carry[c]] /\ bounds = [a \in Actions |-> bounds[a]]
        /\ resv = [a \in Actions |-> resv[a]]
    BY <1>1
  <2> HIDE DEF C, S
  <2> QED
    BY <2>1, <2>2
<1>8. LedgerStart(legacy)
  BY <1>3, <1>4, <1>5, <1>6, <1>7 DEF LedgerStart
<1> QED
  BY <1>8

\* What is known of the ledger wherever it is used.
LedgerSoundness ==
    /\ TypeOK /\ CapitalFollowsLifecycle
    /\ IsFiniteSet(receipts) /\ NothingFromNowhere /\ UnopenedUntouched

LEMMA PrepareStartsSound == PrepareInit => LedgerSoundness
<1> SUFFICES ASSUME PrepareInit
             PROVE LedgerSoundness
  OBVIOUS
<1>1. PICK legacy \in LegacyStates \cup {"NONE"} : LedgerStart(legacy)
  BY PrepareStarts
<1>2. LegacyStates \subseteq IntentState /\ BuyCycle # LegacyCycle /\ BuyCycle \in Cycles
  BY SourceAssumption
<1>3. /\ \A c \in Cycles : /\ cycle[c] \in CycleStatus \cup {"NONE"}
                           /\ carry[c] \in [from: Cycles \cup {"none"}, amount: Nat]
                           /\ carry[c].from = "none" => carry[c].amount = 0
      /\ \A a \in Actions : /\ state[a] \in IntentState \cup {"NONE"}
                            /\ bounds[a] \in [maxInput: Nat, minOutput: Nat]
                            /\ resv[a] \in ReservationStatus \cup {"NONE"}
  <2>1. ASSUME NEW c \in Cycles
        PROVE /\ cycle[c] \in CycleStatus \cup {"NONE"}
              /\ carry[c] \in [from: Cycles \cup {"none"}, amount: Nat]
              /\ carry[c].from = "none" => carry[c].amount = 0
    BY <1>1, <1>2, PlanAssumption, CycleAssumption DEF LedgerStart, CycleStatus, NoCarry
  <2>2. ASSUME NEW a \in Actions
        PROVE /\ state[a] \in IntentState \cup {"NONE"}
              /\ bounds[a] \in [maxInput: Nat, minOutput: Nat]
              /\ resv[a] \in ReservationStatus \cup {"NONE"}
    BY <1>1, <1>2 DEF LedgerStart, IntentState, ReservationStatus
  <2> QED
    BY <2>1, <2>2
<1>4. /\ cycle = [c \in Cycles |-> cycle[c]] /\ carry = [c \in Cycles |-> carry[c]]
      /\ state = [a \in Actions |-> state[a]] /\ bounds = [a \in Actions |-> bounds[a]]
      /\ resv = [a \in Actions |-> resv[a]]
  BY <1>1 DEF LedgerStart
<1>5. /\ recon = [a \in Actions |->
              IF a \in {b \in Actions : CycleOf(b) = BuyCycle} THEN "SETTLED" ELSE "NONE"]
      /\ seen = [c \in Cycles |-> 0]
      /\ admitted \subseteq Policies
  <2>1. /\ CycleInfo[BuyCycle].policy \in Policies /\ CycleInfo[LegacyCycle].policy \in Policies
    BY SourceAssumption, CycleAssumption
  <2>2. \E x : admitted = {CycleInfo[BuyCycle].policy}
                             \cup (IF x # "NONE" THEN {CycleInfo[LegacyCycle].policy} ELSE {})
    BY Zenon DEF PrepareInit
  <2>3. /\ recon = [a \in Actions |->
                IF a \in {b \in Actions : CycleOf(b) = BuyCycle} THEN "SETTLED" ELSE "NONE"]
        /\ seen = [c \in Cycles |-> 0]
    BY Zenon DEF PrepareInit
  <2> QED
    BY <2>1, <2>2, <2>3
<1>6. receipts \subseteq ReceiptRow /\ IsFiniteSet(receipts)
  <2> DEFINE Buys == {a \in Actions : CycleOf(a) = BuyCycle}
  <2>1. PICK ref \in Refs : receipts =
          {[ref |-> ref, action |-> a, input |-> Quantity, output |-> Quantity] : a \in Buys}
    BY Zenon DEF PrepareInit
  <2>2. IsFiniteSet(Buys)
    BY FiniteAssumption, FS_Subset
  <2> DEFINE Row == [a \in Buys |->
                       [ref |-> ref, action |-> a, input |-> Quantity, output |-> Quantity]]
  <2>3. receipts \subseteq ReceiptRow
    BY <2>1, LegAssumption DEF ReceiptRow
  <2>4. Row \in Surjection(Buys, receipts)
    BY <2>1 DEF Surjection
  <2>5. IsFiniteSet(receipts)
    BY <2>2, <2>4, FS_Surjection DEF ExistsSurjection
  <2> QED
    BY <2>3, <2>5
<1>7. TypeOK
  <2>1. recon \in [Actions -> {"NONE", "SETTLED", "REVERTED", "AMBIGUOUS"}] /\ seen \in [Cycles -> Nat]
    BY <1>5
  <2> QED
    BY <1>3, <1>4, <1>5, <1>6, <2>1 DEF TypeOK
<1>8. CapitalFollowsLifecycle
  <2> SUFFICES ASSUME NEW a \in Actions
               PROVE IF Exposure(a) = 0
                     THEN resv[a] = "NONE"
                     ELSE /\ resv[a] = "ACTIVE" <=> state[a] \in BUDGET_HOLDING_STATES
                          /\ resv[a] = "COMMITTED" <=> state[a] = "FILLED"
                          /\ resv[a] = "QUARANTINED" => state[a] = "SAFE_HALT"
                          /\ resv[a] = "RELEASED" => state[a] \in RELEASING_STATES
    BY DEF CapitalFollowsLifecycle
  <2>1. CASE CycleOf(a) = BuyCycle
    BY <1>1, <2>1, LegAssumption, PlanAssumption
       DEF LedgerStart, Exposure, BUDGET_HOLDING_STATES, EXTERNALLY_AMBIGUOUS_STATES
  <2>2. CASE CycleOf(a) # BuyCycle
    <3>1. Exposure(a) = 0
      BY <1>1, <2>2, LegAssumption DEF LedgerStart, Exposure, NoBounds
    <3> QED
      BY <1>1, <2>2, <3>1 DEF LedgerStart
  <2> QED
    BY <2>1, <2>2
<1>9. NothingFromNowhere
  BY <1>3 DEF NothingFromNowhere
<1>10. UnopenedUntouched
  <2> SUFFICES ASSUME NEW d \in Cycles, cycle[d] = "NONE"
               PROVE Untouched(d)
    BY DEF UnopenedUntouched
  <2>1. d # BuyCycle /\ (d = LegacyCycle => legacy = "NONE")
    BY <1>1 DEF LedgerStart
  <2>2. carry[d] = NoCarry /\ \A a \in Actions : CycleOf(a) = d => state[a] = "NONE"
    BY <1>1, <2>1 DEF LedgerStart
  <2>3. CarriedFrom(d) = {}
    BY <1>1, <2>1, CycleAssumption DEF LedgerStart, CarriedFrom, NoCarry
  <2> QED
    BY <2>2, <2>3 DEF Untouched
<1> QED
  BY <1>6, <1>7, <1>8, <1>9, <1>10 DEF LedgerSoundness

LEMMA CallsKeepSound ==
    ASSUME LedgerSoundness, [LedgerNext]_ledgerVars
    PROVE LedgerSoundness'
BY StepTypeOK, StepCapital, StepFinite, StepCarrySource, StepUntouched DEF LedgerSoundness

LEMMA CallsAndSound == PrepareSpec => [](PrepareSound /\ LedgerSoundness)
<1>1. PrepareSound /\ LedgerSoundness /\ [PrepareNext]_prepareVars => LedgerSoundness'
  <2> SUFFICES ASSUME PrepareSound, LedgerSoundness, [PrepareNext]_prepareVars
               PROVE LedgerSoundness'
    OBVIOUS
  <2>1. [LedgerNext]_ledgerVars
    BY CallsLedger DEF LedgerSoundness, prepareVars
  <2> QED
    BY <2>1, CallsKeepSound
<1> QED
  BY <1>1, PrepareStartsSound, PrepareSoundAlways, PTL DEF PrepareSpec

\* Every step of every run of the preparation, and of a recovery beside it, is to the
\* ledger one call of its own, made where the ledger allows it, or none.
THEOREM PrepareCallsLedger == PrepareSpec => [][LedgerNext]_ledgerVars
<1>1. PrepareSound /\ LedgerSoundness /\ [PrepareNext]_prepareVars => [LedgerNext]_ledgerVars
  BY CallsLedger DEF LedgerSoundness, prepareVars
<1> QED
  BY <1>1, CallsAndSound, PTL DEF PrepareSpec

\* So what the ledger promises on its own it promises the preparation, which starts
\* after the buy: capital follows the lifecycle of every intent (store.py
\* integrity_check), and moving the inventory into a successor creates and loses none.
THEOREM PrepareKeepsBooks == PrepareSpec => [](CapitalFollowsLifecycle /\ BaseConserved)
<1>1. LedgerSoundness => CapitalFollowsLifecycle /\ BaseConserved
  BY CarriesConserve DEF LedgerSoundness
<1> QED
  BY <1>1, CallsAndSound, PTL

\* The carry of a preparation, whichever run makes it, moves all the source has
\* (continue_inventory_into_successor_cycle, called by main()).
THEOREM PrepareCarriesAll == PrepareSpec => CarryMovesEverything
<1>1. LedgerSoundness /\ [LedgerNext]_ledgerVars =>
        [\A c, d \in Cycles :
           carry'[d] # carry[d] /\ carry'[d].from = c =>
               Inventory(d)' = Inventory(c) /\ Inventory(c)' = 0]_ledgerVars
  BY StepMovesAll DEF LedgerSoundness
<1> QED
  BY <1>1, CallsAndSound, PrepareCallsLedger, PTL DEF CarryMovesEverything

=============================================================================
