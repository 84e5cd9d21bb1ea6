----------------------------- MODULE PartsProofs ------------------------------
(***************************************************************************)
(* Proofs about the parts that share no state with the ledger's tables:    *)
(* the process lock and the backups (operations.py), the driver of a       *)
(* sell's preparation, the upgrade of the schema, the judgement of what    *)
(* providers report, the sizing of a swap and the reading of its terms.    *)
(* Each is proved over its own specification, whatever the others do.      *)
(***************************************************************************)
EXTENDS Operations, GrantDriver, SchemaUpgrade, LiveReading, ChainWatch,
        FunctionTheorems, FiniteSetTheorems, WellFoundedInduction, SequenceTheorems, TLAPS

-----------------------------------------------------------------------------
(* The process lock.  The path in a process's memory is there for a handle   *)
(* that has the kernel's lock, and one handle of all has it.                 *)

LockTyped ==
    /\ lock \in [Handles -> {"OPEN", "HELD", "CLOSING"}]
    /\ report \in [Reporters -> {"NEW", "FILE", "FLOCK", "UNLOCK", "FREE", "HELD", "NOT_PRESENT"}]
    /\ exclusive \subseteq Handles

OneHolder == \A h, k \in exclusive : h = k
HeldIsLocked == \A h \in Handles : lock[h] # "OPEN" <=> h \in exclusive
PathsAreHeld == \A d \in heldPaths : \E h \in exclusive : HomeOf[h] = d

LockSound == LockTyped /\ OneHolder /\ HeldIsLocked /\ PathsAreHeld

LEMMA LockAlwaysSound == LockSpec => []LockSound
<1>1. LockInit => LockSound
  BY DEF LockInit, LockSound, LockTyped, OneHolder, HeldIsLocked, PathsAreHeld
<1>2. LockSound /\ [LockNext]_lockVars => LockSound'
  <2> SUFFICES ASSUME LockSound, [LockNext]_lockVars
               PROVE LockSound'
    OBVIOUS
  <2> USE DEF LockSound, LockTyped, OneHolder, HeldIsLocked, PathsAreHeld
  <2>1. ASSUME NEW h \in Handles, Acquire(h)
        PROVE LockSound'
    BY <2>1 DEF Acquire, FlockFree
  <2>2. ASSUME NEW h \in Handles, CloseStart(h)
        PROVE LockSound'
    BY <2>2 DEF CloseStart
  <2>3. ASSUME NEW h \in Handles, CloseEnd(h)
        PROVE LockSound'
    BY <2>3 DEF CloseEnd
  <2>4. ASSUME NEW d \in Daemons, Die(d)
        PROVE LockSound'
    <3> DEFINE its == {h \in Handles : HomeOf[h] = d}
    <3>1. /\ exclusive' = exclusive \ its /\ heldPaths' = heldPaths \ {d}
          /\ lock' = [h \in Handles |-> IF h \in its THEN "OPEN" ELSE lock[h]]
      BY <2>4 DEF Die
    <3>2. LockTyped'
      BY <2>4 DEF Die
    <3>3. OneHolder' /\ HeldIsLocked' /\ PathsAreHeld'
      BY <3>1
    <3> QED
      BY <3>2, <3>3
  <2>5. ASSUME NEW r \in Reporters, LookInProcess(r) \/ LookForFile(r) \/ TryShared(r) \/ Unshare(r)
        PROVE LockSound'
    BY <2>5 DEF LookInProcess, LookForFile, TryShared, Unshare, Finds
  <2>6. CASE UNCHANGED lockVars
    BY <2>6 DEF lockVars
  <2> QED
    BY <2>1, <2>2, <2>3, <2>4, <2>5, <2>6 DEF LockNext
<1> QED
  BY <1>1, <1>2, PTL DEF LockSpec

\* InspectionTrue for any number of processes, handles and inspections: the report
\* says HELD when the lock is someone's and goes on to FREE when it is nobody's,
\* since close gives the path back before the kernel's lock (operations.py,
\* ProcessLock.close and inspect_lock).
THEOREM InspectionCorrect == LockSpec => InspectionTrue
<1> DEFINE Tells(r) ==
             /\ report[r] # "HELD" /\ report'[r] = "HELD" => exclusive # {}
             /\ report[r] # "UNLOCK" /\ report'[r] = "UNLOCK" => exclusive = {}
<1>1. ASSUME LockSound, [LockNext]_lockVars, NEW r \in Reporters
      PROVE Tells(r)
  <2> USE DEF LockSound, LockTyped
  <2>1. ASSUME NEW q \in Reporters, LookInProcess(q) \/ LookForFile(q) \/ TryShared(q) \/ Unshare(q)
        PROVE Tells(r)
    BY <1>1, <2>1 DEF LookInProcess, LookForFile, TryShared, Unshare, Finds, PathsAreHeld
  <2>2. ASSUME NEW h \in Handles, Acquire(h) \/ CloseStart(h) \/ CloseEnd(h)
        PROVE Tells(r)
    BY <2>2 DEF Acquire, CloseStart, CloseEnd
  <2>3. ASSUME NEW d \in Daemons, Die(d)
        PROVE Tells(r)
    BY <2>3 DEF Die
  <2>4. CASE UNCHANGED lockVars
    BY <2>4 DEF lockVars
  <2> QED
    BY <1>1, <2>1, <2>2, <2>3, <2>4 DEF LockNext
<1>2. LockSound /\ [LockNext]_lockVars =>
        [\A r \in Reporters : Tells(r)]_<<lockVars, backupVars>>
  BY <1>1
<1> QED
  BY <1>2, LockAlwaysSound, PTL DEF LockSpec, InspectionTrue

-----------------------------------------------------------------------------
(* The backups.  What is whole at the destination was written after every    *)
(* backup now under way began, for each of them found nothing there.         *)

Destinations == {Nothing, Unfinished} \cup {Copy(n) : n \in Nat}

BackupTyped ==
    /\ ledger \in Nat
    /\ destination \in Destinations
    /\ copier \in [Copiers -> [at: {"IDLE", "COPY", "COPYING", "VERIFY", "REPORTED"},
                               since: Nat, linked: BOOLEAN]]

BeganBefore(n) == \A b \in Copiers : copier[b].since <= n

BackupSound ==
    /\ BackupTyped /\ BeganBefore(ledger)
    /\ destination.is = "WHOLE" => BeganBefore(destination.upTo)

LEMMA BackupAlwaysSound == BackupSpec => []BackupSound
<1> USE DEF BackupSound, BackupTyped, BeganBefore, Destinations, Nothing, Unfinished, Copy
<1>1. BackupInit => BackupSound
  BY DEF BackupInit
<1>2. BackupSound /\ [BackupNext]_backupVars => BackupSound'
  <2> SUFFICES ASSUME BackupSound, [BackupNext]_backupVars
               PROVE BackupSound'
    OBVIOUS
  <2>1. CASE Commit
    BY <2>1 DEF Commit
  <2>2. CASE Collect
    BY <2>2 DEF Collect, AllUnlinked
  <2>3. ASSUME NEW b \in Copiers, BackupBegin(b)
        PROVE BackupSound'
    BY <2>3 DEF BackupBegin
  <2>4. ASSUME NEW b \in Copiers, CopyStart(b) \/ CopyEnd(b) \/ BackupReport(b) \/ BackupGone(b)
        PROVE BackupSound'
    BY <2>4 DEF CopyStart, CopyEnd, BackupReport, BackupGone, CopierMoves
  <2>5. ASSUME NEW b \in Copiers, BackupFail(b)
        PROVE BackupSound'
    BY <2>5 DEF BackupFail, AllUnlinked
  <2>6. CASE UNCHANGED backupVars
    BY <2>6 DEF backupVars
  <2> QED
    BY <2>1, <2>2, <2>3, <2>4, <2>5, <2>6 DEF BackupNext
<1> QED
  BY <1>1, <1>2, PTL DEF BackupSpec

\* ReportedIsWhole for any number of backups and commits: backup_database reports
\* success over a destination that others write to or remove only when the file is
\* a whole copy with every commit made before this backup began.
THEOREM BackupCorrect == BackupSpec => ReportedIsWhole
<1> DEFINE Reports(b) == ~CopierAt(b, "REPORTED") /\ copier'[b].at = "REPORTED" =>
                             destination.is = "WHOLE" /\ destination.upTo >= copier[b].since
<1>1. ASSUME BackupSound, [BackupNext]_backupVars, NEW b \in Copiers
      PROVE Reports(b)
  <2> USE DEF BackupSound, BackupTyped, CopierAt
  <2>1. ASSUME NEW c \in Copiers, BackupReport(c)
        PROVE Reports(b)
    <3>1. destination.is = "WHOLE" /\ BeganBefore(destination.upTo)
      BY <1>1, <2>1 DEF BackupReport, Verified
    <3>2. destination.upTo \in Nat
      BY <1>1 DEF Destinations, Nothing, Unfinished, Copy
    <3> QED
      BY <1>1, <3>1, <3>2 DEF BeganBefore
  <2>2. ASSUME NEW c \in Copiers, BackupBegin(c) \/ CopyStart(c) \/ CopyEnd(c) \/ BackupGone(c)
        PROVE Reports(b)
    BY <1>1, <2>2 DEF BackupBegin, CopyStart, CopyEnd, BackupGone, CopierMoves
  <2>3. ASSUME NEW c \in Copiers, BackupFail(c)
        PROVE Reports(b)
    BY <1>1, <2>3 DEF BackupFail, AllUnlinked
  <2>4. CASE Commit \/ Collect \/ UNCHANGED backupVars
    BY <1>1, <2>4 DEF Commit, Collect, AllUnlinked, backupVars
  <2> QED
    BY <1>1, <2>1, <2>2, <2>3, <2>4 DEF BackupNext
<1>2. BackupSound /\ [BackupNext]_backupVars =>
        [\A b \in Copiers : Reports(b)]_<<lockVars, backupVars>>
  BY <1>1
<1> QED
  BY <1>2, BackupAlwaysSound, PTL DEF BackupSpec, ReportedIsWhole
-----------------------------------------------------------------------------
(* The driver.  Every copy of the state, in the file or in a run's memory, names *)
(* no grant or the one that is linked; once linked it stays.                     *)

\* A state that names no grant but the one there is, and names it once committed.
TrueState(s, grant) ==
    /\ s.digest \in {None, grant}
    /\ s.phase \in {"GRANT_COMMITTED", "PREPARED"} => s.digest # None

\* What a run holds in memory, at each place where it matters.
TrueRun(run, grant) ==
    /\ TrueState(run.state, grant)
    /\ run.at \in {"LINK", "COMPARE"} => run.raw # None
    /\ run.at = "RECORD" => grant # None /\ run.raw = grant
    /\ run.at = "PREPARE" => run.state.digest # None

DriverRecord == [at: {"OUT", "START", "LOADED", "PREFLIGHT", "READ", "LINK", "COMPARE", "RECORD", "PREPARE"},
                 facts: Facts \cup {None}, raw: Grants \cup {None},
                 state: [phase: {"INIT", "SAFE_STOP", "PREFLIGHT_COMPLETE", "GRANT_COMMITTED", "PREPARED"},
                         facts: Facts \cup {None}, digest: Grants \cup {None}]]

DriverSound ==
    /\ receipt \in Grants \cup {None} /\ snapshot \in Grants \cup {None}
    /\ driver \in [Runs -> DriverRecord]
    /\ stateFile \in [phase: {"INIT", "SAFE_STOP", "PREFLIGHT_COMPLETE", "GRANT_COMMITTED", "PREPARED"},
                      facts: Facts \cup {None}, digest: Grants \cup {None}]
    /\ TrueState(stateFile, snapshot)
    /\ \A r \in Runs : TrueRun(driver[r], snapshot)

LEMMA DriverAlwaysSound == DriverSpec => []DriverSound
<1> USE NoneIsNothing DEF DriverSound, DriverRecord, TrueState, TrueRun, Blank, Fresh, Gone
<1>1. DriverInit => DriverSound
  BY DEF DriverInit
<1>2. DriverSound /\ [DriverNext]_driverVars => DriverSound'
  <2> SUFFICES ASSUME DriverSound, [DriverNext]_driverVars
               PROVE DriverSound'
    OBVIOUS
  <2> USE DEF RunAt, RunGoes, Writes, Finishes, Phase
  <2>1. ASSUME NEW r \in Runs, NEW f \in Facts, Invoke(r, f)
        PROVE DriverSound'
    BY <2>1 DEF Invoke
  <2>2. ASSUME NEW r \in Runs, LoadState(r)
        PROVE DriverSound'
    BY <2>2 DEF LoadState
  <2>3. ASSUME NEW r \in Runs, FixFacts(r)
        PROVE DriverSound'
    BY <2>3 DEF FixFacts
  <2>4. ASSUME NEW r \in Runs, Preflight(r)
        PROVE DriverSound'
    <3>1. CASE Finishes(r, Phase(r, "SAFE_STOP"))
      BY <2>4, <3>1 DEF Preflight
    <3>2. CASE Writes(r, Phase(r, "PREFLIGHT_COMPLETE"), "READ")
      BY <2>4, <3>2 DEF Preflight
    <3> QED
      BY <2>4, <3>1, <3>2 DEF Preflight
  <2>5. ASSUME NEW r \in Runs, ReadReceipt(r)
        PROVE DriverSound'
    BY <2>5 DEF ReadReceipt
  <2>6. ASSUME NEW r \in Runs, LinkSnapshot(r)
        PROVE DriverSound'
    BY <2>6 DEF LinkSnapshot
  <2>7. ASSUME NEW r \in Runs, CompareSnapshot(r)
        PROVE DriverSound'
    BY <2>7 DEF CompareSnapshot
  <2>8. ASSUME NEW r \in Runs, RecordGrant(r)
        PROVE DriverSound'
    BY <2>8 DEF RecordGrant
  <2>9. ASSUME NEW r \in Runs, Prepare(r)
        PROVE DriverSound'
    <3>1. CASE Finishes(r, Phase(r, "PREPARED"))
      BY <2>9, <3>1 DEF Prepare
    <3>2. CASE Finishes(r, Phase(r, "SAFE_STOP"))
      BY <2>9, <3>2 DEF Prepare
    <3> QED
      BY <2>9, <3>1, <3>2 DEF Prepare
  <2>10. ASSUME NEW r \in Runs, GiveUp(r)
         PROVE DriverSound'
    BY <2>10 DEF GiveUp
  <2>11. ASSUME NEW g \in Grants, Supply(g)
         PROVE DriverSound'
    BY <2>11 DEF Supply
  <2>12. CASE UNCHANGED driverVars
    BY <2>12 DEF driverVars
  <2> QED
    BY <2>1, <2>2, <2>3, <2>4, <2>5, <2>6, <2>7, <2>8, <2>9, <2>10, <2>11, <2>12
       DEF DriverNext, DriverRun
<1> QED
  BY <1>1, <1>2, PTL DEF DriverSpec

\* RecordedIsCommitted for any number of runs and receipts: however runs of the
\* driver overtake each other in replacing state.json, the grant it names is the one
\* that _commit_grant_snapshot linked.
THEOREM RecordedCorrect == DriverSpec => []RecordedIsCommitted
<1>1. DriverSound => RecordedIsCommitted
  BY DEF DriverSound, TrueState, RecordedIsCommitted
<1> QED
  BY <1>1, DriverAlwaysSound, PTL

-----------------------------------------------------------------------------
(* The upgrade of the schema.  No migration takes away what the shape check asks *)
(* for once it is there, though it acts on what its process read before.         *)

\* The table of today with its guards stays, and a process that begins to use the
\* database found both.
SchemaSound ==
    /\ opener \in [Openers -> Places]
    /\ OpenStaysGuarded

LEMMA MigrationIsPlace ==
    ASSUME NEW v \in 1..5
    PROVE MigrationOf(v) \in Upgrading
<1>1. v = 1 \/ v = 2 \/ v = 3 \/ v = 4 \/ v = 5
  OBVIOUS
<1>2. CASE v = 1
  <2>1. v # 2 /\ v # 3 /\ v # 4 /\ v # 5
    BY <1>2
  <2>2. MigrationOf(v) = "M12"
    BY <1>2, <2>1, Zenon DEF MigrationOf
  <2> QED
    BY <2>2 DEF Upgrading
<1>3. CASE v = 2
  <2>1. v # 1 /\ v # 3 /\ v # 4 /\ v # 5
    BY <1>3
  <2>2. MigrationOf(v) = "M23"
    BY <1>3, <2>1, Zenon DEF MigrationOf
  <2> QED
    BY <2>2 DEF Upgrading
<1>4. CASE v = 3
  <2>1. v # 1 /\ v # 2 /\ v # 4 /\ v # 5
    BY <1>4
  <2>2. MigrationOf(v) = "M34"
    BY <1>4, <2>1, Zenon DEF MigrationOf
  <2> QED
    BY <2>2 DEF Upgrading
<1>5. CASE v = 4
  <2>1. v # 1 /\ v # 2 /\ v # 3 /\ v # 5
    BY <1>5
  <2>2. MigrationOf(v) = "M45"
    BY <1>5, <2>1, Zenon DEF MigrationOf
  <2> QED
    BY <2>2 DEF Upgrading
<1>6. CASE v = 5
  <2>1. v # 1 /\ v # 2 /\ v # 3 /\ v # 4
    BY <1>6
  <2>2. MigrationOf(v) = "M56"
    BY <1>6, <2>1, Zenon DEF MigrationOf
  <2> QED
    BY <2>2 DEF Upgrading
<1> QED
  BY <1>1, <1>2, <1>3, <1>4, <1>5, <1>6

LEMMA LookIsPlace ==
    ASSUME NEW w \in Openers, Look(w)
    PROVE \E place \in Places \ {"OPEN"} : OpenerGoes(w, place) /\ UNCHANGED Data
<1>1. tables = {} \/ tables = {"b1"} \/ tables = All \/ tables \notin {{}, {"b1"}, All}
  OBVIOUS
<1>2. {} # {"b1"} /\ {} # All /\ {"b1"} # All
  <2>1. "b1" \in {"b1"} /\ "b1" \in All /\ "refs" \in All /\ "refs" \notin {"b1"}
    BY DEF All
  <2> QED BY <2>1
<1>3. CASE tables = {}
  <2>1. OpenerGoes(w, "APPLY") /\ UNCHANGED Data
    BY <1>2, <1>3, Zenon DEF Look
  <2> QED BY <2>1 DEF Places
<1>4. CASE tables = {"b1"}
  <2>1. OpenerGoes(w, "M12") /\ UNCHANGED Data
    BY <1>2, <1>4, Zenon DEF Look
  <2> QED BY <2>1 DEF Places, Upgrading
<1>5. CASE tables = All
  <2>1. OpenerGoes(w, IF version \in 2..5 THEN MigrationOf(version) ELSE "CHECK") /\ UNCHANGED Data
    BY <1>2, <1>5, Zenon DEF Look
  <2> QED BY <2>1, MigrationIsPlace DEF Places, Upgrading
<1>6. CASE tables \notin {{}, {"b1"}, All}
  <2>1. OpenerGoes(w, "OUT") /\ UNCHANGED Data
    BY <1>6, Zenon DEF Look
  <2> QED BY <2>1 DEF Places
<1> QED
  BY <1>1, <1>3, <1>4, <1>5, <1>6

LEMMA SchemaAlwaysSound == SchemaSpec => []SchemaSound
<1> USE DEF SchemaSound, OpenStaysGuarded
<1>1. SchemaInit => SchemaSound
  BY DEF SchemaInit, OpenerAt, Places
<1>2. SchemaSound /\ [SchemaNext]_schemaVars => SchemaSound'
  <2> SUFFICES ASSUME SchemaSound, [SchemaNext]_schemaVars
               PROVE SchemaSound'
    OBVIOUS
  <2> USE DEF OpenerAt, OpenerGoes
  \* A step that keeps what is whole and opens nothing keeps the invariant.
  <2>1. ASSUME NEW w \in Openers, NEW place \in Places \ {"OPEN"}, OpenerGoes(w, place),
               signed = "CURRENT" /\ guarded => signed' = "CURRENT" /\ guarded'
        PROVE SchemaSound'
    BY <2>1
  <2>2. ASSUME NEW w \in Openers, Arrive(w)
        PROVE SchemaSound'
    <3>1. PICK place \in Upgrading \cup {"LOOK"} : OpenerGoes(w, place) /\ UNCHANGED Data
      BY <2>2, MigrationIsPlace DEF Arrive
    <3> QED
      BY <2>1, <3>1 DEF Data, Places, Upgrading
  <2>3. ASSUME NEW w \in Openers, Look(w)
        PROVE SchemaSound'
    BY <2>1, <2>3, LookIsPlace DEF Data
  <2>4. ASSUME NEW w \in Openers, Apply(w)
        PROVE SchemaSound'
    BY <2>1, <2>4 DEF Apply, Places
  <2>5. ASSUME NEW w \in Openers, Check(w)
        PROVE SchemaSound'
    BY <2>5 DEF Check, Whole, Data, Places
  <2>6. ASSUME NEW w \in Openers, Leave(w)
        PROVE SchemaSound'
    BY <2>1, <2>6 DEF Leave, Data, Places
  <2>7. ASSUME NEW w \in Openers, Upgrade(w)
        PROVE SchemaSound'
    <3> USE DEF Refused, Retrigger, Rebuilt, Data, Places, Upgrading
    <3>1. CASE FirstToSecond(w)
      BY <2>1, <3>1 DEF FirstToSecond
    <3>2. CASE SecondToThird(w)
      BY <2>1, <3>2 DEF SecondToThird
    <3>3. CASE ThirdToFourth(w)
      BY <2>1, <3>3 DEF ThirdToFourth, Migrate
    <3>4. CASE FourthToFifth(w)
      BY <2>1, <3>4 DEF FourthToFifth, Migrate
    <3>5. CASE FifthToSixth(w)
      BY <2>1, <3>5 DEF FifthToSixth
    <3>6. CASE CreatePrepare(w) \/ StampPrepare(w)
      BY <2>1, <3>6 DEF CreatePrepare, StampPrepare
    <3>7. CASE GuardPrepare(w)
      BY <3>7 DEF GuardPrepare
    <3> QED
      BY <2>7, <3>1, <3>2, <3>3, <3>4, <3>5, <3>6, <3>7 DEF Upgrade
  <2>8. CASE UNCHANGED schemaVars
    BY <2>8 DEF schemaVars
  <2> QED
    BY <2>2, <2>3, <2>4, <2>5, <2>6, <2>7, <2>8 DEF SchemaNext
<1> QED
  BY <1>1, <1>2, PTL DEF SchemaSpec

\* OpenStaysGuarded for any number of processes: while one has the database open,
\* no other that is still migrating what it read (execution_schema.py, migrate_...)
\* takes the present table of signed transactions or its guards away.
THEOREM OpenGuardedCorrect == SchemaSpec => []OpenStaysGuarded
<1>1. SchemaSound => OpenStaysGuarded
  BY DEF SchemaSound
<1> QED
  BY <1>1, SchemaAlwaysSound, PTL

-----------------------------------------------------------------------------
(* The judgement of what providers report.                                   *)

\* A verdict that settles a transaction is of enough providers, whose latest records
\* agree, each past the confirmation depth, and none of which ever saw anything else.
LEMMA SettledVerdict ==
    ASSUME NEW O, NEW verdict, verdict = Verdict(O, FALSE), verdict \in {"CONFIRMED", "REVERTED"}
    PROVE /\ ~Contradictory(O) /\ Included(Latest(O)) # {}
          /\ FinalDepth(Included(Latest(O)))
          /\ ~(Cardinality(Included(Latest(O))) < MinAgreeingProviders)
          /\ verdict = "CONFIRMED" <=> Settled(Included(Latest(O)))
<1> DEFINE I == Included(Latest(O))
<1>1. CASE Contradictory(O)
  <2>1. verdict = "AMBIGUOUS"
    BY <1>1, Zenon DEF Verdict
  <2> QED
    BY <2>1
<1>2. CASE ~Contradictory(O) /\ I = {}
  <2>1. verdict = UnseenVerdict(O, FALSE)
    BY <1>2, Zenon DEF Verdict
  <2> QED
    BY <2>1 DEF UnseenVerdict
<1>3. CASE ~Contradictory(O) /\ I # {}
  <2>1. verdict = IF Cardinality(I) < MinAgreeingProviders THEN "VISIBLE"
                        ELSE IF ~FinalDepth(I) THEN "INCLUDED"
                        ELSE IF Settled(I) THEN "CONFIRMED" ELSE "REVERTED"
    BY <1>3, Zenon DEF Verdict
  <2> HIDE DEF I
  <2>2. /\ FinalDepth(I) /\ ~(Cardinality(I) < MinAgreeingProviders)
        /\ verdict = "CONFIRMED" <=> Settled(I)
    BY <2>1
  <2> QED
    BY <1>3, <2>2 DEF I
<1> QED
  BY <1>1, <1>2, <1>3

\* Two members are one where there is at most one.
LEMMA OnlyOne ==
    ASSUME NEW S, IsFiniteSet(S), ~(Cardinality(S) > 1), NEW a \in S, NEW b \in S
    PROVE a = b
<1> SUFFICES ASSUME a # b
             PROVE FALSE
  OBVIOUS
<1>1. {a, b} \subseteq S /\ IsFiniteSet({a, b})
  BY FS_Subset
<1>2. Cardinality({a}) = 1 /\ IsFiniteSet({a})
  BY FS_Singleton
<1>3. {a, b} = {a} \cup {b}
  OBVIOUS
<1>4. Cardinality({a} \cup {b}) = Cardinality({a}) + 1
  BY <1>2, FS_AddElement
<1>5. Cardinality({a, b}) <= Cardinality(S) /\ Cardinality(S) \in Nat
  BY <1>1, FS_Subset, FS_CardinalityType
<1> QED
  BY <1>2, <1>3, <1>4, <1>5

\* What is not contradictory names one set of facts.
LEMMA OneSetOfFacts ==
    ASSUME NEW O, IsFiniteSet(O), ~Contradictory(O)
    PROVE \A f, g \in FactSets(O) : f = g
<1>1. IsFiniteSet(Included(O))
  BY FS_Subset DEF Included
<1> DEFINE factsOf == [e \in Included(O) |-> e.facts]
<1>2. factsOf \in Surjection(Included(O), FactSets(O))
  BY DEF Surjection, FactSets
<1>3. IsFiniteSet(FactSets(O))
  BY <1>1, <1>2, FS_Surjection
<1> QED
  BY <1>3, OnlyOne DEF Contradictory

\* A set of integers between two bounds has a largest.
LEMMA LargestExists ==
    ASSUME NEW n \in Int, NEW S \in SUBSET Int, S # {}, \A s \in S : s <= n
    PROVE \E s \in S : \A t \in S : t <= s
<1> DEFINE Below == {n - s : s \in S}
<1>1. Below \subseteq Nat /\ Below # {}
  <2>1. ASSUME NEW s \in S
        PROVE n - s \in Nat
    <3>1. s \in Int /\ s <= n
      OBVIOUS
    <3> QED BY <3>1
  <2>2. PICK s \in S : TRUE
    OBVIOUS
  <2>3. n - s \in Below
    OBVIOUS
  <2> QED
    BY <2>1, <2>3
<1>2. PICK least \in Below : \A m \in Below : ~(<<m, least>> \in OpToRel(<, Nat))
  <2> HIDE DEF Below
  <2> QED BY <1>1, NatLessThanWellFounded, WFMin
<1>3. PICK s \in S : least = n - s
  OBVIOUS
<1>4. ASSUME NEW t \in S
      PROVE t <= s
  <2>1. n - t \in Below /\ n - t \in Nat /\ least \in Nat
    BY <1>1
  <2>2. ~(n - t < least)
    BY <1>2, <2>1 DEF OpToRel
  <2> QED
    BY <1>3, <2>2
<1> QED
  BY <1>4

\* A provider's latest record is one of its records.
LEMMA LatestIsOwn ==
    ASSUME NEW O, NEW p \in Reporting(O), NEW n \in Int,
           \A o \in O : o.at \in Int /\ o.at <= n /\ o.id \in Int /\ o.id <= MaxHead
    PROVE LatestBy(O, p) \in O /\ LatestBy(O, p).provider = p
<1> DEFINE Own == {o \in O : o.provider = p}
           Moments == {o.at : o \in Own}
<1>1. PICK late \in Moments : \A t \in Moments : t <= late
  <2>1. Moments \in SUBSET Int /\ Moments # {} /\ \A t \in Moments : t <= n
    BY DEF Reporting
  <2> HIDE DEF Moments
  <2> QED BY <2>1, LargestExists
<1> DEFINE Last == {o.id : o \in {e \in Own : e.at = late}}
<1>2. PICK id \in Last : \A t \in Last : t <= id
  <2>1. Last \in SUBSET Int /\ Last # {} /\ \A t \in Last : t <= MaxHead
    OBVIOUS
  <2>2. MaxHead \in Int
    BY BoundAssumption
  <2> HIDE DEF Last
  <2> QED BY <2>1, <2>2, LargestExists
<1>3. PICK o \in Own : o.at = late /\ o.id = id
  OBVIOUS
<1>4. /\ o.provider = p
      /\ \A e \in O : e.provider = p => e.at < o.at \/ (e.at = o.at /\ e.id <= o.id)
  <2>1. ASSUME NEW e \in O, e.provider = p
        PROVE e.at < o.at \/ (e.at = o.at /\ e.id <= o.id)
    <3>1. e.at <= late
      BY <1>1, <2>1
    <3>2. e.at = late => e.id <= id
      BY <1>2, <2>1
    <3> QED
      BY <1>3, <2>1, <3>1, <3>2
  <2> QED
    BY <2>1
<1>5. \E e \in O : /\ e.provider = p
                   /\ \A d \in O : d.provider = p => d.at < e.at \/ (d.at = e.at /\ d.id <= e.id)
  BY <1>4
<1> QED
  BY <1>5 DEF LatestBy

-----------------------------------------------------------------------------
(* The chain they report of.  While no reorganisation undid a block at the   *)
(* confirmation depth, a transaction once seen that deep is there still.     *)

ChainState == [height: 0..MaxHead,
               facts: [block: Nat, hash: Nat, status: ReceiptStatus \cup {"NONE"}, input: Nat, output: Nat]]

\* Facts that are not NoFacts are those of a receipt.
SomeFacts(f) == f # NoFacts => f.status \in ReceiptStatus

WatchTyped ==
    /\ chain \in ChainState /\ SomeFacts(chain.facts)
    /\ fork \in Nat /\ deep \in BOOLEAN
    /\ IsFiniteSet(past) /\ IsFiniteSet(obs)
    /\ \E m \in past : m.chain = chain
    /\ \A m \in past : /\ m.chain \in ChainState /\ SomeFacts(m.chain.facts)
                       /\ m.at \in Nat /\ m.at < Cardinality(past)

\* A record is of a moment that was, includes the transaction with facts only, and
\* is true of that moment unless its provider is faulty.
TrueRecord(o) ==
    /\ o.at \in Nat /\ o.at <= Cardinality(past)
    /\ o.id \in Int /\ o.id <= MaxHead /\ o.head = o.id
    /\ o.presence = "INCLUDED" => o.facts # NoFacts /\ o.facts.status \in ReceiptStatus
    /\ o.provider \in Faulty \/ \E m \in past : /\ o.facts = m.chain.facts
                                               /\ o.head \in {NoHead, m.chain.height}

DeepIn(c) == c.facts # NoFacts /\ c.height - c.facts.block >= MinConfirmationDepth

DeepKept == ~deep => \A m \in past : DeepIn(m.chain) =>
                         chain.facts = m.chain.facts /\ chain.height >= m.chain.height

WatchSound == WatchTyped /\ (\A o \in obs : TrueRecord(o)) /\ DeepKept

\* What the chain becomes is added to what it was.
LEMMA PastGrows ==
    ASSUME WatchTyped, NEW height, NEW facts, Become(height, facts)
    PROVE /\ chain' = [height |-> height, facts |-> facts]
          /\ past \subseteq past' /\ IsFiniteSet(past')
          /\ Cardinality(past) \in Nat /\ Cardinality(past') = Cardinality(past) + 1
          /\ \E m \in past' : m.chain = chain'
          /\ \A m \in past' : m \in past \/ (m.chain = chain' /\ m.at = Cardinality(past))
<1> DEFINE now == [at |-> Cardinality(past), chain |-> chain']
<1>1. past' = past \cup {now} /\ chain' = [height |-> height, facts |-> facts]
  BY DEF Become
<1>2. Cardinality(past) \in Nat
  BY FS_CardinalityType DEF WatchTyped
<1>3. now \notin past
  BY <1>2 DEF WatchTyped
<1>4. IsFiniteSet(past) /\ now.at = Cardinality(past) /\ now.chain = chain'
  BY DEF WatchTyped
<1>5. IsFiniteSet(past') /\ Cardinality(past') = Cardinality(past) + 1
  <2> HIDE DEF now
  <2> QED BY <1>1, <1>3, <1>4, FS_AddElement
<1> QED
  BY <1>1, <1>2, <1>4, <1>5

LEMMA ChainMovesSoundly ==
    ASSUME WatchSound, NEW height, NEW facts, Become(height, facts), UNCHANGED obs,
           [height |-> height, facts |-> facts] \in ChainState, SomeFacts(facts),
           fork' \in Nat, deep' \in BOOLEAN, height >= chain.height,
           ~deep' => ~deep /\ (DeepIn(chain) => facts = chain.facts)
    PROVE WatchSound'
<1>1. WatchTyped
  BY DEF WatchSound
<1>2. /\ chain' = [height |-> height, facts |-> facts]
      /\ past \subseteq past' /\ IsFiniteSet(past')
      /\ Cardinality(past) \in Nat /\ Cardinality(past') = Cardinality(past) + 1
      /\ \E m \in past' : m.chain = chain'
      /\ \A m \in past' : m \in past \/ (m.chain = chain' /\ m.at = Cardinality(past))
  BY <1>1, PastGrows
<1>3. WatchTyped'
  BY <1>1, <1>2 DEF WatchTyped
<1>4. \A o \in obs' : TrueRecord(o)'
  BY <1>2 DEF WatchSound, TrueRecord
<1>5. DeepKept'
  <2> SUFFICES ASSUME ~deep', NEW m \in past', DeepIn(m.chain)
               PROVE chain'.facts = m.chain.facts /\ chain'.height >= m.chain.height
    BY DEF DeepKept, DeepIn
  <2>1. CASE m \in past
    <3>1. chain.facts = m.chain.facts /\ chain.height >= m.chain.height
      BY <2>1 DEF WatchSound, DeepKept
    <3>2. /\ chain.height \in Int /\ m.chain.height \in Int /\ m.chain.facts.block \in Int
          /\ height \in Int /\ MinConfirmationDepth \in Int
      BY <1>1, <2>1, FinalityAssumption, BoundAssumption DEF WatchTyped, ChainState
    <3>3. DeepIn(chain)
      BY <3>1, <3>2 DEF DeepIn
    <3> QED
      BY <1>2, <3>1, <3>2, <3>3
  <2>2. CASE m.chain = chain'
    <3>1. chain'.height \in Int
      BY <1>3, BoundAssumption DEF WatchTyped, ChainState
    <3> QED
      BY <2>2, <3>1
  <2> QED
    BY <1>2, <2>1, <2>2
<1> QED
  BY <1>3, <1>4, <1>5 DEF WatchSound

LEMMA WatchAlwaysSound == WatchSpec => []WatchSound
<1> USE FinalityAssumption, BoundAssumption
<1>1. WatchInit => WatchSound
  <2> SUFFICES ASSUME WatchInit
               PROVE WatchSound
    OBVIOUS
  <2>1. IsFiniteSet({}) /\ IsFiniteSet(past) /\ Cardinality(past) = 1
    BY FS_EmptySet, FS_Singleton DEF WatchInit
  <2>2. chain = [height |-> 0, facts |-> NoFacts] /\ past = {[at |-> 0, chain |-> chain]}
    BY DEF WatchInit
  <2>3. chain \in ChainState /\ SomeFacts(chain.facts)
    BY <2>2 DEF ChainState, SomeFacts, NoFacts
  <2>4. \A m \in past : m.at = 0 /\ m.chain = chain
    BY <2>2
  <2>5. \E m \in past : m.chain = chain
    BY <2>2
  <2>6. WatchTyped
    <3>1. fork = 0 /\ deep = FALSE /\ obs = {}
      BY DEF WatchInit
    <3>2. \A m \in past : /\ m.chain \in ChainState /\ SomeFacts(m.chain.facts)
                          /\ m.at \in Nat /\ m.at < Cardinality(past)
      BY <2>1, <2>3, <2>4
    <3> QED
      BY <2>1, <2>3, <2>5, <3>1, <3>2 DEF WatchTyped
  <2>7. DeepKept /\ \A o \in obs : TrueRecord(o)
    BY DEF WatchInit, DeepKept, DeepIn
  <2> QED
    BY <2>6, <2>7 DEF WatchSound
<1>2. WatchSound /\ [WatchNext]_watchVars => WatchSound'
  <2> SUFFICES ASSUME WatchSound, [WatchNext]_watchVars
               PROVE WatchSound'
    OBVIOUS
  <2>1. /\ chain \in ChainState /\ SomeFacts(chain.facts) /\ fork \in Nat /\ deep \in BOOLEAN
        /\ chain.height \in 0..MaxHead /\ chain.facts.block \in Nat
    BY DEF WatchSound, WatchTyped, ChainState
  <2>2. CASE Mine
    <3>1. PICK facts : /\ Become(chain.height + 1, facts)
                       /\ \/ facts = chain.facts
                          \/ /\ chain.facts = NoFacts
                             /\ \E status \in ReceiptStatus :
                                   facts = FactsAt(chain.height + 1, fork, status)
      BY <2>2 DEF Mine
    <3>2. [height |-> chain.height + 1, facts |-> facts] \in ChainState /\ SomeFacts(facts)
      BY <2>1, <2>2, <3>1 DEF Mine, FactsAt, ChainState, SomeFacts, ReceiptStatus
    <3>3. UNCHANGED <<fork, deep, obs>> /\ (DeepIn(chain) => facts = chain.facts)
      BY <2>2, <3>1 DEF Mine, DeepIn
    <3>4. PICK height : height = chain.height + 1
      OBVIOUS
    <3> QED
      BY <2>1, <3>1, <3>2, <3>3, <3>4, ChainMovesSoundly
  <2>3. CASE Reorganise
    <3>1. PICK facts : /\ Become(chain.height, facts)
                       /\ \/ facts = NoFacts
                          \/ \E b \in chain.facts.block..chain.height, status \in ReceiptStatus :
                                facts = FactsAt(b, fork', status)
      BY <2>3 DEF Reorganise
    <3>2. fork' \in Nat /\ UNCHANGED obs /\ deep' \in BOOLEAN
      BY <2>1, <2>3 DEF Reorganise
    <3>3. [height |-> chain.height, facts |-> facts] \in ChainState /\ SomeFacts(facts)
      BY <2>1, <3>1, <3>2 DEF FactsAt, NoFacts, ChainState, SomeFacts, ReceiptStatus
    <3>4. ~deep' => ~deep /\ ~DeepIn(chain)
      BY <2>3 DEF Reorganise, DeepIn
    <3>5. PICK height : height = chain.height
      OBVIOUS
    <3> QED
      BY <2>1, <3>1, <3>2, <3>3, <3>4, <3>5, ChainMovesSoundly
  <2>4. ASSUME NEW p \in Providers, Observe(p)
        PROVE WatchSound'
    <3>1. PICK r : /\ r \in IF p \in Faulty THEN FaultyReadings(p) ELSE HonestReadings(p)
                   /\ obs' = obs \cup {r}
      BY <2>4 DEF Observe
    <3>2. UNCHANGED <<chain, past, fork, deep>>
      BY <2>4 DEF Observe
    <3>3. IsFiniteSet(obs')
      BY <3>1, FS_AddElement DEF WatchSound, WatchTyped
    <3>4. Cardinality(past) \in Nat
      BY FS_CardinalityType DEF WatchSound, WatchTyped
    <3>5. TrueRecord(r)
      <4>1. CASE p \in Faulty
        <5>1. PICK b \in 1..chain.height, f \in 0..fork, s \in ReceiptStatus :
                 r = Reading(p, Cardinality(past), FactsAt(b, f, s), MaxHead)
          BY <3>1, <4>1 DEF FaultyReadings
        <5>2. /\ r.provider = p /\ r.at = Cardinality(past) /\ r.id = MaxHead /\ r.head = MaxHead
              /\ r.facts = FactsAt(b, f, s)
          BY <5>1 DEF Reading
        <5>3. r.facts # NoFacts /\ r.facts.status \in ReceiptStatus
          BY <5>2 DEF FactsAt, NoFacts, ReceiptStatus
        <5> QED
          BY <3>4, <4>1, <5>2, <5>3 DEF TrueRecord
      <4>2. CASE p \notin Faulty
        <5>1. PICK m, h : /\ m \in past /\ h \in {NoHead, m.chain.height}
                          /\ r = Reading(p, m.at, m.chain.facts, h)
          BY <3>1, <4>2 DEF HonestReadings
        <5>2. /\ r.at = m.at /\ r.id = h /\ r.head = h /\ r.facts = m.chain.facts
              /\ r.presence = "INCLUDED" => r.facts # NoFacts
          BY <5>1 DEF Reading
        <5>3. /\ m.at \in Nat /\ m.at < Cardinality(past) /\ m.chain.height \in 0..MaxHead
              /\ SomeFacts(m.chain.facts)
          BY <5>1 DEF WatchSound, WatchTyped, ChainState
        <5> QED
          BY <3>4, <5>1, <5>2, <5>3 DEF TrueRecord, SomeFacts, NoHead
      <4> QED
        BY <4>1, <4>2
    <3> QED
      BY <3>1, <3>2, <3>3, <3>5 DEF WatchSound, WatchTyped, TrueRecord, DeepKept
  <2>5. CASE UNCHANGED watchVars
    BY <2>5 DEF watchVars, WatchSound, WatchTyped, TrueRecord, DeepKept
  <2> QED
    BY <2>2, <2>3, <2>4, <2>5 DEF WatchNext
<1> QED
  BY <1>1, <1>2, PTL DEF WatchSpec

-----------------------------------------------------------------------------
\* The records a verdict rests on: one of each of those providers.
LEMMA IncludedAreRecords ==
    ASSUME WatchSound
    PROVE /\ Included(Latest(obs)) \subseteq Included(obs)
          /\ \A o, e \in Included(Latest(obs)) : o.provider = e.provider => o = e
<1>1. /\ Cardinality(past) \in Int
      /\ \A o \in obs : o.at \in Int /\ o.at <= Cardinality(past) /\ o.id \in Int /\ o.id <= MaxHead
  BY FS_CardinalityType DEF WatchSound, WatchTyped, TrueRecord
<1>2. \A p \in Reporting(obs) : LatestBy(obs, p) \in obs /\ LatestBy(obs, p).provider = p
  <2>1. PICK n : n = Cardinality(past)
    OBVIOUS
  <2> QED
    BY <1>1, <2>1, LatestIsOwn
<1> QED
  BY <1>2 DEF Included, Latest

\* ConclusionNeverFlips for any number of providers, faulty ones and records, and any
\* confirmation depth: whatever part of the records evaluate_chain_truth was given
\* before, its conclusion is not the opposite of what all of them support.
THEOREM NeverFlipsCorrect == WatchSpec => []ConclusionNeverFlips
<1>1. ASSUME WatchSound, NEW part \in SUBSET obs, NEW x, NEW z,
             x = Verdict(part, FALSE), z = Verdict(obs, FALSE),
             {x, z} = {"CONFIRMED", "REVERTED"}
      PROVE FALSE
  <2>1. x \in {"CONFIRMED", "REVERTED"} /\ z \in {"CONFIRMED", "REVERTED"} /\ x # z
    <3>1. x \in {"CONFIRMED", "REVERTED"} /\ z \in {"CONFIRMED", "REVERTED"}
      BY <1>1
    <3>2. "CONFIRMED" \in {x, z} /\ "REVERTED" \in {x, z}
      BY <1>1
    <3> QED
      BY <3>1, <3>2
  <2> DEFINE P == Included(Latest(part))
             I == Included(Latest(obs))
  <2>2. P # {} /\ (x = "CONFIRMED" <=> Settled(P))
    BY <1>1, <2>1, SettledVerdict
  <2>3. ~Contradictory(obs) /\ I # {} /\ (z = "CONFIRMED" <=> Settled(I))
    BY <1>1, <2>1, SettledVerdict
  <2>4. \A f, g \in FactSets(obs) : f = g
    BY <1>1, <2>3, OneSetOfFacts DEF WatchSound, WatchTyped
  <2>5. P \subseteq Included(obs)
    <3>1. /\ Cardinality(past) \in Int
          /\ \A o \in part : o.at \in Int /\ o.at <= Cardinality(past) /\ o.id \in Int /\ o.id <= MaxHead
      BY <1>1, FS_CardinalityType DEF WatchSound, WatchTyped, TrueRecord
    <3>2. PICK n : n = Cardinality(past)
      OBVIOUS
    <3>3. \A p \in Reporting(part) : LatestBy(part, p) \in part
      BY <3>1, <3>2, LatestIsOwn
    <3> QED
      BY <3>3 DEF Included, Latest
  <2>6. I \subseteq Included(obs)
    BY <1>1, IncludedAreRecords
  <2>7. \A o \in P, e \in I : o.facts = e.facts
    BY <2>4, <2>5, <2>6 DEF FactSets
  <2>8. Settled(P) <=> Settled(I)
    BY <2>2, <2>3, <2>7 DEF Settled
  <2> QED
    BY <2>1, <2>2, <2>3, <2>8
<1>2. WatchSound => ConclusionNeverFlips
  BY <1>1 DEF ConclusionNeverFlips
<1> QED
  BY <1>2, WatchAlwaysSound, PTL

\* One of the providers a conclusion rests on is not faulty.
LEMMA OneIsHonest ==
    ASSUME WatchSound, ~(Cardinality(Included(Latest(obs))) < MinAgreeingProviders)
    PROVE \E o \in Included(Latest(obs)) : o.provider \notin Faulty
<1> DEFINE I == Included(Latest(obs))
<1> SUFFICES ASSUME \A o \in I : o.provider \in Faulty
             PROVE FALSE
  OBVIOUS
<1> DEFINE provider == [o \in I |-> o.provider]
<1>1. provider \in Injection(I, Faulty)
  BY IncludedAreRecords DEF Injection, IsInjective
<1>2. IsFiniteSet(Faulty) /\ Cardinality(Faulty) < MinAgreeingProviders
  BY ProviderAssumption
<1>3. IsFiniteSet(I) /\ Cardinality(I) <= Cardinality(Faulty)
  <2> HIDE DEF I, provider
  <2> QED BY <1>1, <1>2, FS_Injection
<1>4. Cardinality(I) \in Nat /\ Cardinality(Faulty) \in Nat /\ MinAgreeingProviders \in Nat
  <2> HIDE DEF I
  <2> QED BY <1>2, <1>3, FS_CardinalityType, FinalityAssumption
<1> QED
  BY <1>2, <1>3, <1>4

\* ConclusionIsFinal for any number of providers of which fewer are faulty than must
\* agree, any chain and any confirmation depth: the code concludes only what is on
\* the chain to stay (evaluate_chain_truth, FinalityPolicyV0).
THEOREM FinalCorrect == WatchSpec => []ConclusionIsFinal
<1>1. ASSUME WatchSound, Concluded, ~deep
      PROVE /\ chain.facts = SettledFacts(obs)
            /\ chain.facts.status = (IF Verdict(obs, FALSE) = "CONFIRMED" THEN "SUCCESS" ELSE "REVERTED")
            /\ chain.height - chain.facts.block >= MinConfirmationDepth
  <2> DEFINE I == Included(Latest(obs))
  <2>1. /\ ~Contradictory(obs) /\ I # {} /\ FinalDepth(I)
        /\ ~(Cardinality(I) < MinAgreeingProviders)
        /\ Verdict(obs, FALSE) = "CONFIRMED" <=> Settled(I)
    <3>1. PICK verdict : verdict = Verdict(obs, FALSE)
      OBVIOUS
    <3> QED
      BY <1>1, <3>1, SettledVerdict DEF Concluded
  <2>2. PICK o \in I : o.provider \notin Faulty
    BY <1>1, <2>1, OneIsHonest
  <2>3. I \subseteq Included(obs)
    BY <1>1, IncludedAreRecords
  <2>4. \A f, g \in FactSets(obs) : f = g
    BY <1>1, <2>1, OneSetOfFacts DEF WatchSound, WatchTyped
  <2>5. \A e \in I : e.facts = o.facts /\ e.facts \in FactSets(obs)
    BY <2>3, <2>4 DEF FactSets
  <2>6. SettledFacts(obs) = o.facts
    BY <2>4, <2>5 DEF SettledFacts
  <2>7. o \in obs /\ o.facts # NoFacts /\ o.facts.status \in ReceiptStatus
    BY <1>1, <2>3 DEF WatchSound, TrueRecord, Included
  <2>8. PICK m \in past : o.facts = m.chain.facts /\ o.head \in {NoHead, m.chain.height}
    BY <1>1, <2>2, <2>7 DEF WatchSound, TrueRecord
  <2>9. /\ m.chain.height \in Int /\ m.chain.facts.block \in Nat /\ MinConfirmationDepth \in Nat \ {0}
        /\ chain.height \in Int
    BY <1>1, FinalityAssumption, BoundAssumption DEF WatchSound, WatchTyped, ChainState
  <2>10. DeepIn(m.chain)
    <3>1. Depth(o) >= MinConfirmationDepth
      BY <2>1 DEF FinalDepth
    <3> QED
      BY <2>7, <2>8, <2>9, <3>1 DEF Depth, NoHead, DeepIn
  <2>11. chain.facts = m.chain.facts /\ chain.height >= m.chain.height
    BY <1>1, <2>10 DEF WatchSound, DeepKept
  <2>12. Settled(I) <=> o.facts.status = "SUCCESS"
    BY <2>5 DEF Settled
  <2>13. chain.height - chain.facts.block >= MinConfirmationDepth
    BY <2>9, <2>10, <2>11 DEF DeepIn
  <2>14. chain.facts.status = (IF Verdict(obs, FALSE) = "CONFIRMED" THEN "SUCCESS" ELSE "REVERTED")
    BY <2>1, <2>7, <2>8, <2>11, <2>12 DEF ReceiptStatus
  <2> QED
    BY <2>6, <2>8, <2>11, <2>13, <2>14
<1>2. WatchSound => ConclusionIsFinal
  BY <1>1 DEF ConclusionIsFinal
<1> QED
  BY <1>2, WatchAlwaysSound, PTL

\* The search's questions about an amount, over plain integers: the output that
\* the curve pays is u * x over a weight a + f * x, and n over d is required of each
\* unit.
HasUnit(u, a, f, n, d, x) == u * x - n * x * (a + f * x) >= d * (a + f * x)
Rises(u, a, f, n, x, y) == u * a > n * (a + f * x) * (a + f * y)

\* A larger factor and a product.
LEMMA TimesGrows ==
    ASSUME NEW a \in Int, NEW b \in Int, NEW c \in Nat, a <= b
    PROVE a * c <= b * c
OBVIOUS

LEMMA TimesPositive ==
    ASSUME NEW a \in Nat \ {0}, NEW b \in Nat \ {0}
    PROVE a * b \in Nat \ {0}
OBVIOUS

LEMMA TimesReflects ==
    ASSUME NEW a \in Int, NEW b \in Int, NEW c \in Nat \ {0}
    PROVE (a * c <= b * c => a <= b) /\ (a * c < b * c => a < b)
OBVIOUS

\* Where the surplus rises, what has a unit to spare before has one after, and where
\* it does not, the other way round.
LEMMA RisingKeepsUnit ==
    ASSUME NEW u \in Nat, NEW a \in Nat \ {0}, NEW f \in Nat \ {0}, NEW n \in Nat, NEW d \in Nat \ {0},
           NEW x \in Nat, NEW y \in Nat, x < y
    PROVE /\ Rises(u, a, f, n, x, y) /\ HasUnit(u, a, f, n, d, x) => HasUnit(u, a, f, n, d, y)
          /\ ~Rises(u, a, f, n, x, y) /\ HasUnit(u, a, f, n, d, y) => HasUnit(u, a, f, n, d, x)
<1>1. PICK v \in Nat \ {0} : v = a + f * x
  OBVIOUS
<1>2. PICK w \in Nat \ {0} : w = a + f * y
  OBVIOUS
<1>3. PICK s \in Int : s = u * x - n * x * v
  OBVIOUS
<1>4. PICK t \in Int : t = u * y - n * y * w
  OBVIOUS
<1>5. t * v - s * w = (y - x) * (u * a - n * v * w)
  <2>1. u * y * v - u * x * w = (y - x) * (u * a)
    BY <1>1, <1>2
  <2>2. t * v = u * y * v - n * y * w * v
    BY <1>4
  <2>3. s * w = u * x * w - n * x * v * w
    BY <1>3
  <2> QED
    BY <2>1, <2>2, <2>3
<1>6. (Rises(u, a, f, n, x, y) <=> u * a > n * v * w)
  BY <1>1, <1>2 DEF Rises
<1>7. /\ HasUnit(u, a, f, n, d, x) <=> s >= d * v
      /\ HasUnit(u, a, f, n, d, y) <=> t >= d * w
  BY <1>1, <1>2, <1>3, <1>4 DEF HasUnit
<1>8. PICK g \in Int : g = u * a - n * v * w
  OBVIOUS
<1>9. ASSUME g > 0, s >= d * v
      PROVE t >= d * w
  <2>1. (y - x) * g > 0
    BY <1>9
  <2>2. t * v > s * w
    BY <1>5, <1>8, <2>1
  <2>3. s * w >= (d * v) * w
    BY <1>9
  <2>4. t * v > (d * w) * v
    BY <2>2, <2>3
  <2> QED
    BY <2>4, TimesReflects
<1>10. ASSUME ~(g > 0), t >= d * w
       PROVE s >= d * v
  <2>1. (y - x) * g <= 0
    BY <1>10
  <2>2. t * v <= s * w
    BY <1>5, <1>8, <2>1
  <2>3. t * v >= (d * w) * v
    BY <1>10
  <2>4. s * w >= (d * v) * w
    BY <2>2, <2>3
  <2> QED
    BY <2>4, TimesReflects
<1> QED
  BY <1>6, <1>7, <1>8, <1>9, <1>10

\* The surplus rises less and less.
LEMMA RisesLess ==
    ASSUME NEW u \in Nat, NEW a \in Nat \ {0}, NEW f \in Nat \ {0}, NEW n \in Nat,
           NEW x \in Nat, NEW y \in Nat, NEW p \in Nat, NEW q \in Nat, x <= p, y <= q,
           Rises(u, a, f, n, p, q)
    PROVE Rises(u, a, f, n, x, y)
<1>1. PICK v \in Nat : v = a + f * x
  OBVIOUS
<1>2. PICK w \in Nat : w = a + f * y
  OBVIOUS
<1>3. PICK r \in Nat : r = a + f * p
  OBVIOUS
<1>4. PICK s \in Nat : s = a + f * q
  OBVIOUS
<1>5. v <= r /\ w <= s
  <2>1. x * f <= p * f /\ y * f <= q * f
    BY TimesGrows
  <2> QED
    BY <1>1, <1>2, <1>3, <1>4, <2>1
<1>6. n * v * w <= n * r * s
  <2>1. v * w <= r * w /\ w * r <= s * r
    BY <1>5, TimesGrows
  <2>2. v * w <= r * s
    BY <2>1
  <2>3. (v * w) * n <= (r * s) * n
    BY <2>2, TimesGrows
  <2> QED
    BY <2>3
<1> QED
  BY <1>1, <1>2, <1>3, <1>4, <1>6 DEF Rises

-----------------------------------------------------------------------------
(* The quote and what is required of it.                                     *)

LEMMA Division ==
    ASSUME NEW x \in Nat, NEW y \in Nat \ {0}
    PROVE /\ x \div y \in Nat
          /\ y * (x \div y) <= x /\ x < y * (x \div y) + y
OBVIOUS

\* A unit to spare on the curve leaves more than what is required once the output is
\* rounded down.
LEMMA SpareUnitIsPaid ==
    ASSUME NEW b \in Nat, NEW a \in Nat \ {0}, NEW f \in Nat \ {0}, NEW n \in Nat, NEW d \in Nat \ {0},
           NEW x \in Nat, NEW u \in Nat, u = f * b * d, HasUnit(u, a, f, n, d, x),
           NEW paid, paid = (x * f * b) \div (a + f * x)
    PROVE n * x < d * paid
<1>1. PICK w \in Nat \ {0} : w = a + f * x
  OBVIOUS
<1>2. PICK q \in Nat : q = x * f * b
  OBVIOUS
<1>3. PICK o \in Nat : o = q \div w
  BY Division
<1>4. q < w * o + w
  BY <1>3, Division
<1>5. q * d >= n * x * w + d * w
  BY <1>1, <1>2 DEF HasUnit
<1>6. q * d < (w * o + w) * d
  BY <1>4
<1>7. (n * x) * w < (d * o) * w
  BY <1>5, <1>6
<1>8. n * x < d * o
  BY <1>7, TimesReflects
<1> QED
  BY <1>1, <1>2, <1>3, <1>8

LEMMA QuoteType ==
    ASSUME NEW pool \in Pools, NEW side \in Sides, NEW x \in Nat
    PROVE /\ ReserveIn(pool, side) \in Nat \ {0} /\ ReserveOut(pool, side) \in Nat \ {0}
          /\ Output(pool, side, x) \in Nat
<1>1. ReserveIn(pool, side) \in Nat \ {0} /\ ReserveOut(pool, side) \in Nat \ {0}
  BY TermsAssumption DEF Pools, Sides, ReserveIn, ReserveOut
<1>2. FeeNumerator \in Nat \ {0} /\ FeeDenominator \in Nat \ {0}
  BY TermsAssumption
<1>3. PICK q \in Nat : q = x * FeeNumerator * ReserveOut(pool, side)
  BY <1>1, <1>2
<1>4. PICK w \in Nat \ {0} : w = ReserveIn(pool, side) * FeeDenominator + x * FeeNumerator
  BY <1>1, <1>2
<1>5. q \div w \in Nat
  BY Division
<1> QED
  BY <1>1, <1>3, <1>4, <1>5 DEF Output

LEMMA RequiredType ==
    ASSUME NEW pool \in Pools, NEW side \in Sides, NEW ceiling \in 0..Bps
    PROVE /\ Required(pool, side, ceiling).num \in Nat /\ Required(pool, side, ceiling).den \in Nat \ {0}
          /\ side = "BUY" \/ ceiling # Bps => Required(pool, side, ceiling).num # 0
<1>1. PICK i \in Nat \ {0} : i = ReserveIn(pool, side)
  BY QuoteType
<1>2. PICK o \in Nat \ {0} : o = ReserveOut(pool, side)
  BY QuoteType
<1>3. Bps \in Nat \ {0}
  BY TermsAssumption
<1>4. CASE side = "BUY"
  <2>1. o * Bps \in Nat \ {0} /\ i * (Bps + ceiling) \in Nat \ {0}
    BY <1>3
  <2> QED
    BY <1>1, <1>2, <1>4, <2>1 DEF Required
<1>5. CASE side # "BUY"
  <2>1. o * (Bps - ceiling) \in Nat /\ (ceiling # Bps => o * (Bps - ceiling) # 0) /\ i * Bps \in Nat \ {0}
    BY <1>3
  <2> QED
    BY <1>1, <1>2, <1>5, <2>1 DEF Required
<1> QED
  BY <1>4, <1>5

\* The search's questions, in plain integers.
LEMMA SearchMeans ==
    ASSUME NEW pool \in Pools, NEW side \in Sides, NEW ceiling \in 0..Bps
    PROVE \E b \in Nat \ {0}, a \in Nat \ {0}, n \in Nat, d \in Nat \ {0} :
             /\ FeeNumerator \in Nat \ {0}
             /\ b = ReserveOut(pool, side) /\ a = ReserveIn(pool, side) * FeeDenominator
             /\ n = Required(pool, side, ceiling).num /\ d = Required(pool, side, ceiling).den
             /\ \A x \in Nat : HasMargin(pool, side, ceiling, x) <=>
                                   HasUnit(FeeNumerator * b * d, a, FeeNumerator, n, d, x)
             /\ \A x, y \in Nat : SurplusGrows(pool, side, ceiling, x, y) <=>
                                      Rises(FeeNumerator * b * d, a, FeeNumerator, n, x, y)
             /\ \A x \in Nat : Output(pool, side, x) = (x * FeeNumerator * b) \div (a + FeeNumerator * x)
<1>1. PICK f \in Nat \ {0}, g \in Nat \ {0} : f = FeeNumerator /\ g = FeeDenominator
  BY TermsAssumption
<1>2. PICK i \in Nat \ {0}, b \in Nat \ {0} : i = ReserveIn(pool, side) /\ b = ReserveOut(pool, side)
  BY QuoteType
<1>3. PICK n \in Nat, d \in Nat \ {0} : /\ n = Required(pool, side, ceiling).num
                                       /\ d = Required(pool, side, ceiling).den
  BY RequiredType
<1>4. PICK a \in Nat \ {0} : a = i * g
  BY TimesPositive
<1>5. ASSUME NEW x \in Nat
      PROVE /\ HasMargin(pool, side, ceiling, x) <=> HasUnit(f * b * d, a, f, n, d, x)
            /\ Output(pool, side, x) = (x * f * b) \div (a + f * x)
  <2>1. PICK w \in Nat : w = a + f * x
    OBVIOUS
  <2>2. Weight(pool, side, x) = w
    BY <1>1, <1>2, <1>4, <2>1 DEF Weight
  <2>3. HasMargin(pool, side, ceiling, x) <=> f * x * b * d - n * x * w >= d * w
    BY <1>1, <1>2, <1>3, <2>2 DEF HasMargin
  <2>4. f * x * b * d = f * b * d * x
    OBVIOUS
  <2>5. a + f * x = i * g + x * f
    BY <1>4
  <2> QED
    BY <1>1, <1>2, <2>1, <2>3, <2>4, <2>5 DEF HasUnit, Output
<1>6. ASSUME NEW x \in Nat, NEW y \in Nat
      PROVE SurplusGrows(pool, side, ceiling, x, y) <=> Rises(f * b * d, a, f, n, x, y)
  <2>1. Weight(pool, side, x) = a + f * x /\ Weight(pool, side, y) = a + f * y
    BY <1>1, <1>2, <1>4 DEF Weight
  <2>2. f * b * i * g * d = f * b * d * a
    BY <1>4
  <2>3. SurplusGrows(pool, side, ceiling, x, y) <=> f * b * i * g * d > n * (a + f * x) * (a + f * y)
    BY <1>1, <1>2, <1>3, <2>1 DEF SurplusGrows
  <2> QED
    BY <2>2, <2>3 DEF Rises
<1>7. /\ FeeNumerator \in Nat \ {0}
      /\ b = ReserveOut(pool, side) /\ a = ReserveIn(pool, side) * FeeDenominator
      /\ n = Required(pool, side, ceiling).num /\ d = Required(pool, side, ceiling).den
  BY <1>1, <1>2, <1>3, <1>4
<1>8. /\ \A x \in Nat : HasMargin(pool, side, ceiling, x) <=>
                            HasUnit(FeeNumerator * b * d, a, FeeNumerator, n, d, x)
      /\ \A x \in Nat : Output(pool, side, x) = (x * FeeNumerator * b) \div (a + FeeNumerator * x)
  BY <1>1, <1>5
<1>9. \A x, y \in Nat : SurplusGrows(pool, side, ceiling, x, y) <=>
                             Rises(FeeNumerator * b * d, a, FeeNumerator, n, x, y)
  BY <1>1, <1>6
<1> QED
  BY <1>7, <1>8, <1>9

\* Where the surplus grows from one amount to another, so does the room for a unit,
\* and where it does not, the other way round (rounding_surplus).
LEMMA MarginFollowsSurplus ==
    ASSUME NEW pool \in Pools, NEW side \in Sides, NEW ceiling \in 0..Bps,
           NEW x \in Nat, NEW y \in Nat, x < y
    PROVE /\ SurplusGrows(pool, side, ceiling, x, y) /\ HasMargin(pool, side, ceiling, x) =>
                 HasMargin(pool, side, ceiling, y)
          /\ ~SurplusGrows(pool, side, ceiling, x, y) /\ HasMargin(pool, side, ceiling, y) =>
                 HasMargin(pool, side, ceiling, x)
<1>1. PICK b \in Nat \ {0}, a \in Nat \ {0}, n \in Nat, d \in Nat \ {0} :
         /\ FeeNumerator \in Nat \ {0}
         /\ \A z \in Nat : HasMargin(pool, side, ceiling, z) <=>
                               HasUnit(FeeNumerator * b * d, a, FeeNumerator, n, d, z)
         /\ \A v, z \in Nat : SurplusGrows(pool, side, ceiling, v, z) <=>
                                  Rises(FeeNumerator * b * d, a, FeeNumerator, n, v, z)
  BY SearchMeans
<1>2. PICK u \in Nat : u = FeeNumerator * b * d
  BY <1>1
<1> QED
  BY <1>1, <1>2, RisingKeepsUnit

LEMMA SurplusGrowsLess ==
    ASSUME NEW pool \in Pools, NEW side \in Sides, NEW ceiling \in 0..Bps,
           NEW x \in Nat, NEW y \in Nat, NEW p \in Nat, NEW q \in Nat, x <= p, y <= q,
           SurplusGrows(pool, side, ceiling, p, q)
    PROVE SurplusGrows(pool, side, ceiling, x, y)
<1>1. PICK b \in Nat \ {0}, a \in Nat \ {0}, n \in Nat, d \in Nat \ {0} :
         /\ FeeNumerator \in Nat \ {0}
         /\ \A v, z \in Nat : SurplusGrows(pool, side, ceiling, v, z) <=>
                                  Rises(FeeNumerator * b * d, a, FeeNumerator, n, v, z)
  BY SearchMeans
<1>2. PICK u \in Nat : u = FeeNumerator * b * d
  BY <1>1
<1> QED
  BY <1>1, <1>2, RisesLess

\* An amount between two that have room has room.
LEMMA RoomIsAnInterval ==
    ASSUME NEW pool \in Pools, NEW side \in Sides, NEW ceiling \in 0..Bps,
           NEW x \in Nat, NEW y \in Nat, NEW z \in Nat, x < y, y < z,
           HasMargin(pool, side, ceiling, x), HasMargin(pool, side, ceiling, z)
    PROVE HasMargin(pool, side, ceiling, y)
<1>1. CASE SurplusGrows(pool, side, ceiling, x, y)
  BY <1>1, MarginFollowsSurplus
<1>2. CASE ~SurplusGrows(pool, side, ceiling, x, y)
  <2>1. ~SurplusGrows(pool, side, ceiling, y, z)
    BY <1>2, SurplusGrowsLess
  <2> QED
    BY <2>1, MarginFollowsSurplus
<1> QED
  BY <1>1, <1>2

\* An amount with a unit to spare is paid for, within the ceiling by the rounded
\* quote: the last check of impact_capped_input_atomic cannot fail.
LEMMA MarginIsPaid ==
    ASSUME NEW pool \in Pools, NEW side \in Sides, NEW ceiling \in 0..Bps, NEW x \in Nat,
           HasMargin(pool, side, ceiling, x)
    PROVE Output(pool, side, x) > 0 /\ ImpactWithin(pool, side, x, ceiling)
<1>1. PICK b \in Nat \ {0}, a \in Nat \ {0}, n \in Nat, d \in Nat \ {0} :
         /\ FeeNumerator \in Nat \ {0}
         /\ b = ReserveOut(pool, side) /\ a = ReserveIn(pool, side) * FeeDenominator
         /\ n = Required(pool, side, ceiling).num /\ d = Required(pool, side, ceiling).den
         /\ HasUnit(FeeNumerator * b * d, a, FeeNumerator, n, d, x)
         /\ Output(pool, side, x) = (x * FeeNumerator * b) \div (a + FeeNumerator * x)
  BY SearchMeans
<1>2. PICK o \in Nat : o = Output(pool, side, x)
  BY QuoteType
<1>3. n * x < d * o
  <2>1. PICK f \in Nat \ {0}, u \in Nat : f = FeeNumerator /\ u = f * b * d
    BY <1>1
  <2>2. HasUnit(u, a, f, n, d, x) /\ o = (x * f * b) \div (a + f * x)
    BY <1>1, <1>2, <2>1
  <2> QED
    BY <2>1, <2>2, SpareUnitIsPaid
<1>4. o > 0
  <2>1. n * x >= 0 /\ (o = 0 => d * o = 0)
    OBVIOUS
  <2> QED
    BY <1>3, <2>1
<1>5. PICK i \in Nat \ {0} : i = ReserveIn(pool, side)
  BY QuoteType
<1>6. Bps \in Nat \ {0} /\ ceiling \in Nat /\ ceiling <= Bps
  BY TermsAssumption
<1>7. CASE side = "BUY"
  <2>1. n = b * Bps /\ d = i * (Bps + ceiling)
    BY <1>1, <1>5, <1>7 DEF Required
  <2>2. b * Bps * x < i * (Bps + ceiling) * o
    BY <1>3, <2>1
  <2>3. Bps * (x * b - o * i) <= ceiling * (o * i)
    BY <1>6, <2>2
  <2> QED
    BY <1>1, <1>2, <1>4, <1>5, <1>7, <2>3 DEF ImpactWithin
<1>8. CASE side # "BUY"
  <2>1. n = b * (Bps - ceiling) /\ d = i * Bps
    BY <1>1, <1>5, <1>8 DEF Required
  <2>2. b * (Bps - ceiling) * x < i * Bps * o
    BY <1>3, <2>1
  <2>3. Bps * (x * b - o * i) <= ceiling * (x * b)
    BY <1>6, <2>2
  <2> QED
    BY <1>1, <1>2, <1>4, <1>5, <1>8, <2>3 DEF ImpactWithin
<1> QED
  BY <1>7, <1>8

\* A set of naturals has a smallest.
LEMMA SmallestExists ==
    ASSUME NEW S \in SUBSET Nat, S # {}
    PROVE \E s \in S : \A t \in S : s <= t
<1>1. PICK s \in S : \A t \in S : ~(<<t, s>> \in OpToRel(<, Nat))
  BY NatLessThanWellFounded, WFMin
<1>2. \A t \in S : t \in Nat /\ s \in Nat /\ ~(t < s)
  BY <1>1 DEF OpToRel
<1> QED
  BY <1>2

\* The first amount after which the surplus does not grow is the best there is.
LEMMA PeakExists ==
    ASSUME NEW pool \in Pools, NEW side \in Sides, NEW ceiling \in 0..Bps,
           NEW lo \in Nat, NEW hi \in Nat, lo <= hi
    PROVE \E x \in lo..hi : /\ \A y \in x+1..hi : ~SurplusGrows(pool, side, ceiling, x, y)
                            /\ \A y \in lo..x-1 : SurplusGrows(pool, side, ceiling, y, x)
<1> DEFINE Grows(x, y) == SurplusGrows(pool, side, ceiling, x, y)
           Stops == {x \in lo..hi : x = hi \/ ~Grows(x, x + 1)}
<1>1. PICK x \in Stops : \A t \in Stops : x <= t
  <2>1. Stops \in SUBSET Nat /\ hi \in Stops
    OBVIOUS
  <2> HIDE DEF Stops
  <2> QED BY <2>1, SmallestExists
<1>2. x \in lo..hi /\ x \in Nat
  OBVIOUS
<1>3. ASSUME NEW y \in x+1..hi
      PROVE ~Grows(x, y)
  <2>1. ~Grows(x, x + 1) /\ y \in Nat /\ x + 1 \in Nat /\ x + 1 <= y
    OBVIOUS
  <2>2. PICK next \in Nat : next = x + 1
    BY <2>1
  <2> QED
    BY <1>2, <2>1, <2>2, SurplusGrowsLess
<1>4. ASSUME NEW y \in lo..x-1
      PROVE Grows(y, x)
  <2>1. PICK before \in Nat : before = x - 1
    OBVIOUS
  <2>2. before \in lo..hi /\ before # hi /\ before + 1 = x /\ y <= before /\ y \in Nat
    BY <1>2, <2>1
  <2>3. before \notin Stops
    BY <1>1, <1>2, <2>1
  <2>4. Grows(before, x)
    BY <2>2, <2>3
  <2> QED
    BY <1>2, <2>2, <2>4, SurplusGrowsLess
<1> QED
  BY <1>2, <1>3, <1>4

\* If any amount there has room for a unit, the best one has.
LEMMA PeakHasRoom ==
    ASSUME NEW pool \in Pools, NEW side \in Sides, NEW ceiling \in 0..Bps,
           NEW lo \in Nat, NEW hi \in Nat, NEW x \in lo..hi,
           \A y \in x+1..hi : ~SurplusGrows(pool, side, ceiling, x, y),
           \A y \in lo..x-1 : SurplusGrows(pool, side, ceiling, y, x),
           NEW z \in lo..hi, HasMargin(pool, side, ceiling, z)
    PROVE HasMargin(pool, side, ceiling, x)
<1>1. x \in Nat /\ z \in Nat
  OBVIOUS
<1>2. CASE z < x
  <2>1. SurplusGrows(pool, side, ceiling, z, x)
    BY <1>2
  <2> QED
    BY <1>1, <1>2, <2>1, MarginFollowsSurplus
<1>3. CASE z > x
  <2>1. ~SurplusGrows(pool, side, ceiling, x, z)
    BY <1>3
  <2> QED
    BY <1>1, <1>3, <2>1, MarginFollowsSurplus
<1> QED
  BY <1>1, <1>2, <1>3

-----------------------------------------------------------------------------
(* The search, turn by turn.                                                 *)

Turns == {"DESIRED", "CLIMB", "WIDEN", "SELECTED", "REFUSED", "HALTED"}

SizingTyped ==
    sizing \in [pool: Pools, side: Sides, desired: Desires, ceiling: Ceilings,
                step: Turns, lo: Int, hi: Int, selected: Int]

\* The amounts with room for a unit.
HasRoom(x) == x \in 1..UpperEnd /\ Margin(x)

\* The search is needed, and what it is between is where the room is, if there is any.
Searching ==
    /\ Output(sizing.pool, sizing.side, sizing.desired) > 0
    /\ ~TakenWhole(sizing.pool, sizing.side, sizing.desired, sizing.ceiling)

Climbing ==
    /\ 1 <= sizing.lo /\ sizing.lo <= sizing.hi /\ sizing.hi <= UpperEnd
    /\ (\E x \in 1..UpperEnd : Margin(x)) => \E x \in sizing.lo..sizing.hi : Margin(x)

Widening ==
    /\ HasRoom(sizing.selected)
    /\ sizing.selected <= sizing.lo /\ sizing.lo <= sizing.selected + 1 /\ sizing.hi <= UpperEnd
    /\ \A x \in sizing.hi+1..UpperEnd : ~Margin(x)

SizingSound ==
    /\ SizingTyped
    /\ sizing.step \in {"CLIMB", "WIDEN"} => Searching
    /\ sizing.step = "CLIMB" => Climbing
    /\ sizing.step = "WIDEN" => Widening
    /\ SizingIsSafe

\* What a turn leaves alone.
LEMMA SizingGoes ==
    ASSUME SizingTyped, NEW step \in Turns, NEW lo \in Int, NEW hi \in Int, NEW selected \in Int,
           Goes(step, lo, hi, selected)
    PROVE /\ SizingTyped'
          /\ sizing'.pool = sizing.pool /\ sizing'.side = sizing.side
          /\ sizing'.desired = sizing.desired /\ sizing'.ceiling = sizing.ceiling
          /\ sizing'.step = step /\ sizing'.lo = lo /\ sizing'.hi = hi /\ sizing'.selected = selected
          /\ UpperEnd' = UpperEnd /\ (Searching' <=> Searching)
          /\ \A x : (Margin(x)' <=> Margin(x))
BY DEF SizingTyped, Goes, UpperEnd, Margin, Searching

LEMMA SizingArguments ==
    ASSUME SizingTyped
    PROVE /\ sizing.pool \in Pools /\ sizing.side \in Sides /\ sizing.ceiling \in 0..Bps
          /\ sizing.desired \in Nat \ {0} /\ sizing.lo \in Int /\ sizing.hi \in Int
          /\ sizing.selected \in Int
BY TermsAssumption DEF SizingTyped

\* The upper end is a number when a search is needed.
LEMMA UpperEndType ==
    ASSUME NEW pool \in Pools, NEW side \in Sides, NEW desired \in Nat, NEW ceiling \in 0..Bps,
           ~TakenWhole(pool, side, desired, ceiling)
    PROVE /\ Lesser(desired, Crossing(pool, side, ceiling)) \in Int
          /\ Lesser(desired, Crossing(pool, side, ceiling)) <= desired
<1>1. PICK n \in Nat, d \in Nat \ {0} : /\ n = Required(pool, side, ceiling).num
                                       /\ d = Required(pool, side, ceiling).den /\ n # 0
  <2>1. side = "BUY" \/ ceiling # Bps
    BY DEF TakenWhole, Sides
  <2> QED
    BY <2>1, RequiredType
<1>2. PICK i \in Nat, o \in Nat : i = ReserveIn(pool, side) /\ o = ReserveOut(pool, side)
  BY QuoteType
<1>3. PICK f \in Nat \ {0}, g \in Nat : f = FeeNumerator /\ g = FeeDenominator
  BY TermsAssumption
<1>4. PICK q \in Int, w \in Nat \ {0} : q = f * o * d - n * i * g /\ w = f * n
  BY <1>1, TimesPositive
<1>5. Crossing(pool, side, ceiling) = q \div w
  BY <1>1, <1>2, <1>3, <1>4 DEF Crossing
<1>6. q \div w \in Int
  OBVIOUS
<1> QED
  BY <1>5, <1>6 DEF Lesser

\* The largest of the roomy amounts is one of them.
LEMMA LargestRoomy ==
    ASSUME NEW pool \in Pools, NEW side \in Sides, NEW desired \in Nat, NEW ceiling \in 0..Bps,
           ~TakenWhole(pool, side, desired, ceiling),
           Roomy(pool, side, desired, ceiling) # {}
    PROVE /\ Sized(pool, side, desired, ceiling) \in Roomy(pool, side, desired, ceiling)
          /\ \A x \in Roomy(pool, side, desired, ceiling) : x <= Sized(pool, side, desired, ceiling)
<1> DEFINE R == Roomy(pool, side, desired, ceiling)
<1>1. PICK n \in Int : n = Lesser(desired, Crossing(pool, side, ceiling))
  BY UpperEndType
<1>2. R \in SUBSET Int /\ R # {} /\ \A x \in R : x <= n
  BY <1>1 DEF Roomy
<1>3. PICK s \in R : \A t \in R : t <= s
  <2> HIDE DEF R
  <2> QED BY <1>2, LargestExists
<1>4. Sized(pool, side, desired, ceiling) = Max(R)
  BY DEF Sized
<1>5. Max(R) = CHOOSE x \in R : \A y \in R : x >= y
  BY DEF Max
<1>6. \A y \in R : s >= y
  BY <1>2, <1>3
<1>7. Max(R) \in R /\ \A y \in R : Max(R) >= y
  <2> HIDE DEF R
  <2> QED BY <1>3, <1>5, <1>6
<1> QED
  <2> HIDE DEF R
  <2>1. \A y \in R : y <= Max(R)
    BY <1>2, <1>7
  <2> QED
    BY <1>4, <1>7, <2>1 DEF R

\* What the search ends with is the most there is room for.
LEMMA WidestIsSized ==
    ASSUME SizingTyped, Searching, Widening, sizing.lo > sizing.hi
    PROVE /\ Sizable(sizing.pool, sizing.side, sizing.desired, sizing.ceiling)
          /\ sizing.selected = Sized(sizing.pool, sizing.side, sizing.desired, sizing.ceiling)
          /\ sizing.selected <= sizing.desired /\ Fits(sizing.selected)
          /\ Output(sizing.pool, sizing.side, sizing.selected) > 0
<1>1. PICK pool \in Pools, side \in Sides, desired \in Nat, ceiling \in 0..Bps, n \in Int :
         /\ pool = sizing.pool /\ side = sizing.side /\ desired = sizing.desired
         /\ ceiling = sizing.ceiling /\ n = UpperEnd /\ n <= desired
  BY SizingArguments, UpperEndType DEF Searching, UpperEnd
<1>2. \A x : Margin(x) <=> HasMargin(pool, side, ceiling, x)
  BY <1>1 DEF Margin
<1>3. PICK selected \in 1..n : selected = sizing.selected /\ HasMargin(pool, side, ceiling, selected)
  BY <1>1, <1>2 DEF Widening, HasRoom
<1>4. ~TakenWhole(pool, side, desired, ceiling) /\ Output(pool, side, desired) > 0
  BY <1>1 DEF Searching
<1>5. n = Lesser(desired, Crossing(pool, side, ceiling))
  BY <1>1 DEF UpperEnd
<1>6. selected \in Roomy(pool, side, desired, ceiling)
  BY <1>3, <1>5 DEF Roomy
<1>7. \A x \in Roomy(pool, side, desired, ceiling) : x <= selected
  <2> SUFFICES ASSUME NEW x \in Roomy(pool, side, desired, ceiling), x > selected
               PROVE FALSE
    BY <1>3, <1>5 DEF Roomy
  <2>1. x \in 1..n /\ HasMargin(pool, side, ceiling, x)
    BY <1>5 DEF Roomy
  <2>2. sizing.lo \in Int /\ sizing.hi \in Int
    BY SizingArguments
  <2>3. x \in sizing.hi+1..UpperEnd
    BY <1>1, <1>3, <2>1, <2>2 DEF Widening
  <2> QED
    BY <1>2, <2>1, <2>3 DEF Widening
<1>8. selected = Sized(pool, side, desired, ceiling)
  <2>1. /\ Sized(pool, side, desired, ceiling) \in Roomy(pool, side, desired, ceiling)
        /\ \A x \in Roomy(pool, side, desired, ceiling) : x <= Sized(pool, side, desired, ceiling)
    BY <1>4, <1>6, LargestRoomy
  <2>2. Sized(pool, side, desired, ceiling) \in Int
    BY <2>1 DEF Roomy
  <2> QED
    BY <1>3, <1>6, <1>7, <2>1, <2>2
<1>9. Output(pool, side, selected) > 0 /\ ImpactWithin(pool, side, selected, ceiling)
  BY <1>3, MarginIsPaid
<1>10. Sizable(pool, side, desired, ceiling)
  BY <1>4, <1>6 DEF Sizable
<1> QED
  BY <1>1, <1>3, <1>8, <1>9, <1>10 DEF Fits

LEMMA StepDesired ==
    ASSUME SizingSound, SizeDesired
    PROVE SizingSound'
<1>1. SizingTyped
  BY DEF SizingSound
<1>2. PICK pool \in Pools, side \in Sides, desired \in Nat \ {0}, ceiling \in 0..Bps :
         /\ pool = sizing.pool /\ side = sizing.side /\ desired = sizing.desired /\ ceiling = sizing.ceiling
  BY <1>1, SizingArguments
<1>3. CASE Output(sizing.pool, sizing.side, sizing.desired) <= 0 /\ Goes("REFUSED", 0, 0, 0)
  <2>1. ~Sizable(pool, side, desired, ceiling)
    BY <1>2, <1>3, QuoteType DEF Sizable
  <2> QED
    BY <1>1, <1>2, <1>3, <2>1, SizingGoes DEF Turns, SizingSound, SizingIsSafe
<1>4. CASE /\ Output(sizing.pool, sizing.side, sizing.desired) > 0
           /\ TakenWhole(sizing.pool, sizing.side, sizing.desired, sizing.ceiling)
           /\ Goes("SELECTED", 0, 0, sizing.desired)
  <2>1. /\ Sizable(pool, side, desired, ceiling) /\ Sized(pool, side, desired, ceiling) = desired
        /\ ImpactWithin(pool, side, desired, ceiling) \/ (side = "SELL" /\ ceiling = Bps)
    BY <1>2, <1>4 DEF Sizable, Sized, TakenWhole
  <2>2. /\ sizing'.pool = pool /\ sizing'.side = side /\ sizing'.desired = desired
        /\ sizing'.ceiling = ceiling /\ sizing'.step = "SELECTED" /\ sizing'.selected = desired
        /\ SizingTyped'
    BY <1>1, <1>2, <1>4, SizingGoes DEF Turns
  <2> QED
    BY <2>1, <2>2 DEF SizingSound, SizingIsSafe, Fits
<1>5. CASE /\ Output(sizing.pool, sizing.side, sizing.desired) > 0
           /\ ~TakenWhole(sizing.pool, sizing.side, sizing.desired, sizing.ceiling)
           /\ IF UpperEnd <= 0 THEN Goes("REFUSED", 0, 0, 0) ELSE Goes("CLIMB", 1, UpperEnd, 0)
  <2>1. UpperEnd \in Int /\ Searching
    BY <1>2, <1>5, UpperEndType DEF UpperEnd, Searching
  <2>2. CASE UpperEnd <= 0
    <3>1. 1..UpperEnd = {}
      BY <2>1, <2>2
    <3>2. ~Sizable(pool, side, desired, ceiling)
      BY <1>2, <1>5, <3>1 DEF Sizable, Roomy, UpperEnd
    <3> QED
      BY <1>1, <1>2, <1>5, <2>2, <3>2, SizingGoes DEF Turns, SizingSound, SizingIsSafe
  <2>3. CASE ~(UpperEnd <= 0)
    <3>1. Goes("CLIMB", 1, UpperEnd, 0)
      BY <1>5, <2>3
    <3>2. PICK n \in Int : n = UpperEnd
      BY <2>1
    <3>3. /\ SizingTyped' /\ sizing'.step = "CLIMB" /\ sizing'.lo = 1 /\ sizing'.hi = n
          /\ UpperEnd' = n /\ Searching' /\ \A x : (Margin(x)' <=> Margin(x))
      BY <1>1, <2>1, <3>1, <3>2, SizingGoes DEF Turns
    <3>4. Climbing'
      BY <2>3, <3>2, <3>3 DEF Climbing
    <3> QED
      BY <3>3, <3>4 DEF SizingSound, SizingIsSafe
  <2> QED
    BY <2>2, <2>3
<1> QED
  BY <1>3, <1>4, <1>5 DEF SizeDesired

LEMMA StepClimb ==
    ASSUME SizingSound, Climb
    PROVE SizingSound'
<1>1. SizingTyped /\ Searching /\ Climbing
  BY DEF SizingSound, Climb
<1>2. PICK pool \in Pools, side \in Sides, ceiling \in 0..Bps, lo \in Nat, hi \in Nat, n \in Int :
         /\ pool = sizing.pool /\ side = sizing.side /\ ceiling = sizing.ceiling
         /\ lo = sizing.lo /\ hi = sizing.hi /\ n = UpperEnd /\ 1 <= lo /\ lo <= hi /\ hi <= n
  BY <1>1, SizingArguments, UpperEndType DEF Climbing, Searching, UpperEnd
<1>3. Coarse \in Nat /\ Coarse >= 2 /\ hi - lo > Coarse
  BY <1>2, TermsAssumption DEF Climb
<1>4. PICK third \in Nat : third = (hi - lo) \div 3 /\ 3 * third <= hi - lo /\ third >= 1
  <2>1. PICK width \in Nat : width = hi - lo /\ width >= 3
    BY <1>2, <1>3
  <2> QED
    BY <2>1
<1>5. PICK left \in Nat, right \in Nat : left = lo + third /\ right = hi - third /\ left < right
  BY <1>3, <1>4
<1>6. \A x : Margin(x) <=> HasMargin(pool, side, ceiling, x)
  BY <1>2 DEF Margin
<1>7. /\ SurplusGrows(pool, side, ceiling, left, right) => Goes("CLIMB", left + 1, hi, 0)
      /\ ~SurplusGrows(pool, side, ceiling, left, right) => Goes("CLIMB", lo, right - 1, 0)
  BY <1>2, <1>4, <1>5 DEF Climb
<1>8. CASE SurplusGrows(pool, side, ceiling, left, right)
  <2>1. ASSUME NEW x \in lo..hi, Margin(x)
        PROVE \E z \in left+1..hi : Margin(z)
    <3>1. CASE x > left
      BY <1>2, <1>5, <2>1, <3>1
    <3>2. CASE x <= left
      <4>1. x \in Nat /\ x < right /\ right \in left+1..hi
        BY <1>2, <1>4, <1>5, <3>2
      <4>2. SurplusGrows(pool, side, ceiling, x, right)
        BY <1>8, <3>2, <4>1, SurplusGrowsLess
      <4>3. Margin(right)
        BY <1>6, <2>1, <4>1, <4>2, MarginFollowsSurplus
      <4> QED
        BY <4>1, <4>3
    <3> QED
      BY <1>2, <1>5, <3>1, <3>2
  <2>2. /\ SizingTyped' /\ sizing'.step = "CLIMB" /\ sizing'.lo = left + 1 /\ sizing'.hi = hi
        /\ UpperEnd' = n /\ Searching' /\ \A x : (Margin(x)' <=> Margin(x))
    <3>1. PICK next \in Int : next = left + 1
      OBVIOUS
    <3> QED
      BY <1>1, <1>2, <1>7, <1>8, <3>1, SizingGoes DEF Turns
  <2>3. Climbing'
    <3>1. 1 <= left + 1 /\ left + 1 <= hi
      BY <1>2, <1>4, <1>5
    <3> QED
      BY <1>1, <1>2, <2>1, <2>2, <3>1 DEF Climbing
  <2> QED
    BY <2>2, <2>3 DEF SizingSound, SizingIsSafe
<1>9. CASE ~SurplusGrows(pool, side, ceiling, left, right)
  <2>1. ASSUME NEW x \in lo..hi, Margin(x)
        PROVE \E z \in lo..right-1 : Margin(z)
    <3>1. CASE x < right
      BY <1>2, <1>5, <2>1, <3>1
    <3>2. CASE x >= right
      <4>1. x \in Nat /\ left < x /\ left \in lo..right-1
        BY <1>2, <1>4, <1>5, <3>2
      <4>2. ~SurplusGrows(pool, side, ceiling, left, x)
        BY <1>9, <3>2, <4>1, SurplusGrowsLess
      <4>3. Margin(left)
        BY <1>6, <2>1, <4>1, <4>2, MarginFollowsSurplus
      <4> QED
        BY <4>1, <4>3
    <3> QED
      BY <1>2, <1>5, <3>1, <3>2
  <2>2. /\ SizingTyped' /\ sizing'.step = "CLIMB" /\ sizing'.lo = lo /\ sizing'.hi = right - 1
        /\ UpperEnd' = n /\ Searching' /\ \A x : (Margin(x)' <=> Margin(x))
    <3>1. PICK next \in Int : next = right - 1
      OBVIOUS
    <3> QED
      BY <1>1, <1>2, <1>7, <1>9, <3>1, SizingGoes DEF Turns
  <2>3. Climbing'
    <3>1. lo <= right - 1 /\ right - 1 <= n
      BY <1>2, <1>4, <1>5
    <3> QED
      BY <1>1, <1>2, <2>1, <2>2, <3>1 DEF Climbing
  <2> QED
    BY <2>2, <2>3 DEF SizingSound, SizingIsSafe
<1> QED
  BY <1>8, <1>9

LEMMA StepPeak ==
    ASSUME SizingSound, Peak
    PROVE SizingSound'
<1>1. SizingTyped /\ Searching /\ Climbing
  BY DEF SizingSound, Peak
<1>2. PICK pool \in Pools, side \in Sides, desired \in Nat, ceiling \in 0..Bps, lo \in Nat, hi \in Nat, n \in Int :
         /\ pool = sizing.pool /\ side = sizing.side /\ ceiling = sizing.ceiling /\ desired = sizing.desired
         /\ lo = sizing.lo /\ hi = sizing.hi /\ n = UpperEnd /\ 1 <= lo /\ lo <= hi /\ hi <= n
  BY <1>1, SizingArguments, UpperEndType DEF Climbing, Searching, UpperEnd
<1>3. \A x : Margin(x) <=> HasMargin(pool, side, ceiling, x)
  BY <1>2 DEF Margin
<1> DEFINE Best(x) == /\ \A y \in x+1..hi : ~SurplusGrows(pool, side, ceiling, x, y)
                      /\ \A y \in lo..x-1 : SurplusGrows(pool, side, ceiling, y, x)
           peak == CHOOSE x \in lo..hi : Best(x)
<1>4. IF Margin(peak) THEN Goes("WIDEN", peak, UpperEnd, peak) ELSE Goes("REFUSED", 0, 0, 0)
  BY <1>2 DEF Peak
<1>5. peak \in lo..hi /\ Best(peak)
  BY <1>2, PeakExists
<1>6. PICK best \in lo..hi : best = peak
  BY <1>5
<1>7. Best(best)
  BY <1>5, <1>6
<1> HIDE DEF peak
<1>8. ASSUME NEW z \in lo..hi, Margin(z)
      PROVE Margin(best)
  BY <1>2, <1>3, <1>7, <1>8, PeakHasRoom
<1>9. CASE Margin(best)
  <2>1. Goes("WIDEN", best, n, best)
    BY <1>2, <1>4, <1>6, <1>9
  <2>2. /\ SizingTyped' /\ sizing'.step = "WIDEN" /\ sizing'.lo = best /\ sizing'.hi = n
        /\ sizing'.selected = best
        /\ UpperEnd' = n /\ Searching' /\ \A x : (Margin(x)' <=> Margin(x))
    BY <1>1, <1>2, <2>1, SizingGoes DEF Turns
  <2>3. Widening'
    BY <1>2, <1>9, <2>2 DEF Widening, HasRoom
  <2> QED
    BY <2>2, <2>3 DEF SizingSound, SizingIsSafe
<1>10. CASE ~Margin(best)
  <2>1. ~\E x \in 1..UpperEnd : Margin(x)
    BY <1>1, <1>2, <1>8, <1>10 DEF Climbing
  <2>2. ~Sizable(pool, side, desired, ceiling)
    BY <1>1, <1>2, <1>3, <2>1 DEF Sizable, Roomy, UpperEnd, Searching
  <2>3. Goes("REFUSED", 0, 0, 0)
    BY <1>4, <1>6, <1>10
  <2> QED
    BY <1>1, <1>2, <2>2, <2>3, SizingGoes DEF Turns, SizingSound, SizingIsSafe
<1> QED
  BY <1>9, <1>10

LEMMA StepWiden ==
    ASSUME SizingSound, Widen
    PROVE SizingSound'
<1>1. SizingTyped /\ Searching /\ Widening
  BY DEF SizingSound, Widen
<1>2. PICK pool \in Pools, side \in Sides, ceiling \in 0..Bps, n \in Int :
         /\ pool = sizing.pool /\ side = sizing.side /\ ceiling = sizing.ceiling /\ n = UpperEnd
  BY <1>1, SizingArguments, UpperEndType DEF Searching, UpperEnd
<1>3. PICK lo \in Int, hi \in Int, selected \in Nat :
         /\ lo = sizing.lo /\ hi = sizing.hi /\ selected = sizing.selected
         /\ selected \in 1..n /\ selected <= lo /\ lo <= selected + 1 /\ hi <= n
  BY <1>1, <1>2, SizingArguments DEF Widening, HasRoom
<1>4. \A x : Margin(x) <=> HasMargin(pool, side, ceiling, x)
  BY <1>2 DEF Margin
<1>5. Margin(selected) /\ \A x \in hi+1..n : ~Margin(x)
  BY <1>1, <1>2, <1>3 DEF Widening, HasRoom
<1>6. CASE lo <= hi
  <2>1. PICK mid \in Nat : mid = (lo + hi) \div 2 /\ lo <= mid /\ mid <= hi
    <3>1. PICK both \in Nat : both = lo + hi
      BY <1>3, <1>6
    <3> QED
      BY <1>3, <1>6, <3>1
  <2>2. CASE Margin(mid)
    <3>1. Goes("WIDEN", mid + 1, hi, mid)
      BY <1>3, <1>6, <2>1, <2>2 DEF Widen
    <3>2. PICK next \in Int : next = mid + 1
      OBVIOUS
    <3>3. /\ SizingTyped' /\ sizing'.step = "WIDEN" /\ sizing'.lo = next /\ sizing'.hi = hi
          /\ sizing'.selected = mid
          /\ UpperEnd' = n /\ Searching' /\ \A x : (Margin(x)' <=> Margin(x))
      BY <1>1, <1>2, <3>1, <3>2, SizingGoes DEF Turns
    <3>4. Widening'
      BY <1>3, <1>5, <2>1, <2>2, <3>2, <3>3 DEF Widening, HasRoom
    <3> QED
      BY <3>3, <3>4 DEF SizingSound, SizingIsSafe
  <2>3. CASE ~Margin(mid)
    <3>1. Goes("WIDEN", lo, mid - 1, selected)
      BY <1>3, <1>6, <2>1, <2>3 DEF Widen
    <3>2. PICK next \in Int : next = mid - 1
      OBVIOUS
    <3>3. /\ SizingTyped' /\ sizing'.step = "WIDEN" /\ sizing'.lo = lo /\ sizing'.hi = next
          /\ sizing'.selected = selected
          /\ UpperEnd' = n /\ Searching' /\ \A x : (Margin(x)' <=> Margin(x))
      BY <1>1, <1>2, <1>3, <3>1, <3>2, SizingGoes DEF Turns
    <3>4. ASSUME NEW x \in mid..n, Margin(x)
          PROVE FALSE
      <4>1. x \in Nat /\ selected < mid /\ mid < x
        <5>1. selected # mid /\ x # mid
          BY <1>5, <2>3, <3>4
        <5> QED
          BY <1>3, <2>1, <5>1
      <4> QED
        BY <1>4, <1>5, <2>3, <3>4, <4>1, RoomIsAnInterval
    <3>5. Widening'
      BY <1>3, <1>5, <2>1, <3>2, <3>3, <3>4 DEF Widening, HasRoom
    <3> QED
      BY <3>3, <3>5 DEF SizingSound, SizingIsSafe
  <2> QED
    BY <2>2, <2>3
<1>7. CASE ~(lo <= hi)
  <2>1. /\ Sizable(sizing.pool, sizing.side, sizing.desired, sizing.ceiling)
        /\ sizing.selected = Sized(sizing.pool, sizing.side, sizing.desired, sizing.ceiling)
        /\ sizing.selected <= sizing.desired /\ Fits(sizing.selected)
        /\ Output(sizing.pool, sizing.side, sizing.selected) > 0
    BY <1>1, <1>3, <1>7, WidestIsSized
  <2>2. Output(sizing.pool, sizing.side, sizing.selected) \in Nat
    BY <1>2, <1>3, QuoteType
  <2>3. Goes("SELECTED", 0, 0, selected)
    BY <1>3, <1>7, <2>1, <2>2 DEF Widen
  <2>4. /\ SizingTyped' /\ sizing'.step = "SELECTED" /\ sizing'.selected = sizing.selected
        /\ sizing'.pool = sizing.pool /\ sizing'.side = sizing.side
        /\ sizing'.desired = sizing.desired /\ sizing'.ceiling = sizing.ceiling
    <3>1. PICK last \in Int, zero \in Int : last = selected /\ zero = 0
      BY <1>3
    <3>2. Goes("SELECTED", zero, zero, last)
      BY <2>3, <3>1
    <3> QED
      BY <1>1, <1>3, <3>1, <3>2, SizingGoes DEF Turns
  <2> QED
    BY <2>1, <2>4 DEF SizingSound, SizingIsSafe, Fits
<1> QED
  BY <1>6, <1>7

\* SizingIsSafe for every pool, amount, fee and ceiling: impact_capped_input_atomic,
\* by leaving out thirds of an interval of integers and then by bisection, ends with
\* the most that the ceiling leaves room for, and its last check never fails.
THEOREM SizingCorrect == SizingSpec => []SizingIsSafe
<1>1. SizingInit => SizingSound
  BY TermsAssumption DEF SizingInit, Case, Turns, SizingSound, SizingTyped, SizingIsSafe
<1>2. SizingSound /\ [SizingNext]_sizing => SizingSound'
  <2>1. CASE UNCHANGED sizing
    BY <2>1 DEF SizingSound, SizingTyped, Searching, Climbing, Widening, HasRoom, Margin, UpperEnd,
                SizingIsSafe, Fits
  <2> QED
    BY <2>1, StepDesired, StepClimb, StepPeak, StepWiden DEF SizingNext
<1>3. SizingSound => SizingIsSafe
  BY DEF SizingSound
<1> QED
  BY <1>1, <1>2, <1>3, PTL DEF SizingSpec

-----------------------------------------------------------------------------
(* What a floor and an amount keep.                                          *)

LEMMA DivUpCovers ==
    ASSUME NEW x \in Nat, NEW y \in Nat \ {0}
    PROVE DivUp(x, y) \in Nat /\ x <= DivUp(x, y) * y
<1>1. PICK q \in Nat : q = (x + y - 1) \div y /\ x + y - 1 < y * q + y
  <2>1. PICK z \in Nat : z = x + y - 1
    OBVIOUS
  <2> QED
    BY <2>1, Division
<1>2. x <= q * y
  BY <1>1
<1> QED
  BY <1>1, <1>2 DEF DivUp

\* What is within a ceiling is within a higher one.
LEMMA ImpactWithinHigher ==
    ASSUME NEW pool \in Pools, NEW side \in Sides, NEW x \in Nat,
           NEW c \in Nat, NEW d \in Nat, c <= d, ImpactWithin(pool, side, x, c)
    PROVE ImpactWithin(pool, side, x, d)
<1>1. PICK i \in Nat, b \in Nat, o \in Nat :
         i = ReserveIn(pool, side) /\ b = ReserveOut(pool, side) /\ o = Output(pool, side, x)
  BY QuoteType
<1>2. PICK base \in Nat : base = IF side = "BUY" THEN o * i ELSE x * b
  OBVIOUS
<1>3. Bps * (x * b - o * i) <= c * base
  BY <1>1, <1>2 DEF ImpactWithin
<1>4. c * base <= d * base
  BY TimesGrows
<1>5. Bps \in Nat
  BY TermsAssumption
<1>6. Bps * (x * b - o * i) <= d * base
  BY <1>3, <1>4, <1>5
<1> QED
  BY <1>1, <1>2, <1>6 DEF ImpactWithin

BoundsOk(b) ==
    /\ b.maxInput \in Nat \ {0} /\ b.minOutput \in Nat \ {0} /\ b.side \in Sides
    /\ b.impact \in 0..Bps /\ b.slippage \in 0..Bps

LEMMA IntentBounds ==
    /\ \A b \in Intents : BoundsOk(b)
    /\ Risk.impact \in 0..Bps /\ Risk.slippage \in 0..Bps
    /\ Market \subseteq Pools
BY ReadingAssumption DEF BoundsOk

\* A floor that is enough for an amount and its output keeps the limit price and both
\* slippages (prorated_min_output_atomic, amount_out_min_atomic).
FloorKeeps(b, x, floor, output) ==
    /\ floor * b.maxInput >= b.minOutput * x
    /\ floor * Bps >= output * (Bps - b.slippage)
    /\ floor * Bps >= output * (Bps - Risk.slippage)

LEMMA FloorIsEnough ==
    ASSUME NEW b \in Intents, NEW x \in Nat, NEW output \in Nat, NEW floor \in Nat,
           floor >= AmountOutMin(Risk, b, x, output)
    PROVE FloorKeeps(b, x, floor, output)
<1>1. PICK maxInput \in Nat \ {0}, minOutput \in Nat, slip \in 0..Bps, risk \in 0..Bps :
         maxInput = b.maxInput /\ minOutput = b.minOutput /\ slip = b.slippage /\ risk = Risk.slippage
  BY IntentBounds DEF BoundsOk
<1>2. Bps \in Nat \ {0}
  BY TermsAssumption
<1>3. PICK least \in 0..Bps : least = Lesser(risk, slip) /\ least <= risk /\ least <= slip
  BY <1>2 DEF Lesser
<1>4. PICK due \in Nat : due = minOutput * x
  OBVIOUS
<1>5. PICK rest \in Nat : rest = output * (Bps - least)
  BY <1>2, <1>3
<1>6. PICK p \in Nat : p = DivUp(due, maxInput) /\ due <= p * maxInput
  BY DivUpCovers
<1>7. PICK q \in Nat : q = DivUp(rest, Bps) /\ rest <= q * Bps
  BY <1>2, DivUpCovers
<1>8. p <= floor /\ q <= floor
  <2>1. floor >= Greater(p, q)
    BY <1>1, <1>3, <1>4, <1>5, <1>6, <1>7 DEF AmountOutMin, ProratedMinOutput
  <2> QED
    BY <2>1 DEF Greater
<1>9. p * maxInput <= floor * maxInput /\ q * Bps <= floor * Bps
  BY <1>2, <1>8, TimesGrows
<1>10. output * (Bps - slip) <= rest /\ output * (Bps - risk) <= rest
  <2>1. (Bps - slip) * output <= (Bps - least) * output /\ (Bps - risk) * output <= (Bps - least) * output
    BY <1>2, <1>3, TimesGrows
  <2> QED
    BY <1>2, <1>3, <1>5, <2>1
<1> QED
  BY <1>1, <1>2, <1>4, <1>6, <1>7, <1>9, <1>10 DEF FloorKeeps

LEMMA FloorType ==
    ASSUME NEW b \in Intents, NEW x \in Nat, NEW output \in Nat
    PROVE AmountOutMin(Risk, b, x, output) \in Nat
<1>1. PICK maxInput \in Nat \ {0}, minOutput \in Nat, slip \in 0..Bps, risk \in 0..Bps :
         maxInput = b.maxInput /\ minOutput = b.minOutput /\ slip = b.slippage /\ risk = Risk.slippage
  BY IntentBounds DEF BoundsOk
<1>2. Bps \in Nat \ {0}
  BY TermsAssumption
<1>3. PICK least \in 0..Bps : least = Lesser(risk, slip)
  BY <1>2 DEF Lesser
<1>4. PICK due \in Nat : due = minOutput * x
  OBVIOUS
<1> PICK rest \in Nat : rest = output * (Bps - least)
  BY <1>2, <1>3
<1>5. DivUp(due, maxInput) \in Nat /\ DivUp(rest, Bps) \in Nat
  BY <1>2, DivUpCovers
<1> QED
  BY <1>1, <1>3, <1>4, <1>5 DEF AmountOutMin, ProratedMinOutput, Greater

\* What both ceilings and the amount itself allow.
AmountKeeps(b, pool, x) ==
    /\ ImpactWithin(pool, b.side, x, b.impact)
    /\ ImpactWithin(pool, b.side, x, Risk.impact)

LEMMA AdmissibleKeeps ==
    ASSUME NEW b \in Intents, NEW pool \in Market, NEW x \in Nat, Admissible(b, pool, x)
    PROVE AmountKeeps(b, pool, x)
<1>1. WithinRisk(b, pool, x)
  BY DEF Admissible, EntryAdmissible, ExitAdmissible
<1>2. b.side \in Sides /\ b.impact \in Nat /\ Risk.impact \in Nat /\ pool \in Pools
  BY IntentBounds, TermsAssumption DEF BoundsOk
<1>3. PICK c \in Nat : c = Lesser(b.impact, Risk.impact) /\ c <= b.impact /\ c <= Risk.impact
  BY <1>2 DEF Lesser
<1> QED
  BY <1>1, <1>2, <1>3, ImpactWithinHigher DEF WithinRisk, AmountKeeps

\* An amount that is sized for a bound is an amount.
LEMMA SizedType ==
    ASSUME NEW pool \in Pools, NEW side \in Sides, NEW desired \in Nat, NEW ceiling \in 0..Bps,
           Sizable(pool, side, desired, ceiling)
    PROVE Sized(pool, side, desired, ceiling) \in Nat
<1>1. CASE TakenWhole(pool, side, desired, ceiling)
  BY <1>1 DEF Sized
<1>2. CASE ~TakenWhole(pool, side, desired, ceiling)
  <2>1. Sized(pool, side, desired, ceiling) \in Roomy(pool, side, desired, ceiling)
    BY <1>2, LargestRoomy DEF Sizable
  <2> QED
    BY <2>1 DEF Roomy
<1> QED
  BY <1>1, <1>2

-----------------------------------------------------------------------------
(* A reading.  What an honest provider answered is of the chain as it was at some *)
(* moment, at the height both heads allow; one of the two is honest.              *)

Block == [pool: Market, allowance: Nat]

JobRecord == [doing: {"DERIVE", "REVALIDATE"}, bounds: Intents, path: {"TOKEN", "NATIVE"},
              heads: Seq(Nat \ {0}), pools: Seq(Market), allowances: Seq(Nat)]
TermsRecord == [bounds: Intents, path: {"TOKEN", "NATIVE"}, pool: Market, block: Int,
                input: Nat, floor: Nat]
OfferRecord == [input: Nat, pool: Market, block: Int]

OnChainAt(pool, n) == \E v \in versions : Len(v) >= n /\ v[n].pool = pool

\* The pools are asked for at the lower of two heads, which no later answer moves.
HonestJob(j) ==
    /\ j.pools # <<>> => Len(j.heads) = 2
    /\ Len(j.pools) <= 2
    /\ \A i \in 1..Len(j.pools) : Endpoints[i] \notin Untrusted => OnChainAt(j.pools[i], Common(j))

\* Terms that were frozen, and found to hold again.
FrozenRight ==
    /\ frozen \in TermsRecord /\ OnChainAt(frozen.pool, frozen.block)
    /\ AmountKeeps(frozen.bounds, frozen.pool, frozen.input)
    /\ FloorKeeps(frozen.bounds, frozen.input, frozen.floor,
                  Output(frozen.pool, frozen.bounds.side, frozen.input))

OfferedRight ==
    /\ frozen # NoTerms
    /\ offered \in OfferRecord /\ OnChainAt(offered.pool, offered.block)
    /\ offered.input = frozen.input
    /\ AmountKeeps(frozen.bounds, offered.pool, frozen.input)
    /\ FloorKeeps(frozen.bounds, frozen.input, frozen.floor,
                  Output(offered.pool, frozen.bounds.side, frozen.input))
    /\ frozen.floor <= Output(offered.pool, frozen.bounds.side, frozen.input)

\* The chain as it was at some moment.
ChainTypedAt(v) == v \in Seq(Block) /\ v # <<>>

ReadingSound ==
    /\ blocks \in versions /\ \A v \in versions : ChainTypedAt(v)
    /\ job # NoJob => /\ job \in JobRecord /\ HonestJob(job)
                      /\ job.doing = "REVALIDATE" => frozen # NoTerms
    /\ frozen # NoTerms => FrozenRight
    /\ offered # NoTerms => OfferedRight

-----------------------------------------------------------------------------
\* What was on the chain at some moment was so for good.
LEMMA VersionsGrow ==
    ASSUME ReadingSound, versions \subseteq versions', UNCHANGED <<job, frozen, offered>>,
           blocks' \in versions', \A v \in versions' : ChainTypedAt(v)
    PROVE ReadingSound'
<1>1. \A pool, n : OnChainAt(pool, n) => OnChainAt(pool, n)'
  BY DEF OnChainAt
<1>2. job # NoJob => HonestJob(job)'
  BY <1>1 DEF ReadingSound, HonestJob, Common
<1> QED
  BY <1>1, <1>2 DEF ReadingSound, FrozenRight, OfferedRight, AmountKeeps, FloorKeeps

LEMMA StepBlock ==
    ASSUME ReadingSound, NewBlock \/ ReplaceBlock
    PROVE ReadingSound'
<1>1. ChainTypedAt(blocks) /\ Len(blocks) \in Nat \ {0} /\ blocks[Len(blocks)] \in Block
  BY DEF ReadingSound, ChainTypedAt
<1>2. \A a \in Allowances \cup {blocks[Len(blocks)].allowance} : a \in Nat
  BY <1>1 DEF Allowances, Block, ReadingSound, FrozenRight, TermsRecord
<1>3. PICK b : Now(b) /\ ChainTypedAt(b)
  <2>1. CASE NewBlock
    <3>1. PICK pool \in Market, allowance \in Allowances \cup {blocks[Len(blocks)].allowance} :
             Now(Append(blocks, [pool |-> pool, allowance |-> allowance]))
      BY <2>1 DEF NewBlock
    <3>2. [pool |-> pool, allowance |-> allowance] \in Block
      BY <1>2 DEF Block
    <3>3. PICK block \in Block : block = [pool |-> pool, allowance |-> allowance]
      BY <3>2
    <3>4. Append(blocks, block) \in Seq(Block) /\ Append(blocks, block) # <<>>
      BY <1>1, AppendProperties DEF ChainTypedAt
    <3> QED
      BY <3>1, <3>3, <3>4 DEF ChainTypedAt
  <2>2. CASE ReplaceBlock
    <3>1. PICK pool \in Market :
             Now([blocks EXCEPT ![Len(blocks)] = [pool |-> pool, allowance |-> 0]])
      BY <2>2 DEF ReplaceBlock
    <3>2. [pool |-> pool, allowance |-> 0] \in Block
      BY DEF Block
    <3>3. PICK block \in Block : block = [pool |-> pool, allowance |-> 0]
      BY <3>2
    <3>4. ChainTypedAt([blocks EXCEPT ![Len(blocks)] = block])
      BY <1>1 DEF ChainTypedAt
    <3> QED
      BY <3>1, <3>3, <3>4
  <2> QED
    BY <2>1, <2>2
<1>4. UNCHANGED <<job, frozen, offered>>
  BY DEF NewBlock, ReplaceBlock
<1>5. /\ versions \subseteq versions' /\ blocks' \in versions'
      /\ \A v \in versions' : ChainTypedAt(v)
  BY <1>3 DEF Now, ReadingSound
<1> QED
  BY <1>4, <1>5, VersionsGrow

\* What a step that leaves the chain and the terms alone has to show.
LEMMA JobMoves ==
    ASSUME ReadingSound, UNCHANGED <<blockVars, frozen, offered>>,
           job' # NoJob => /\ job' \in JobRecord /\ HonestJob(job')
                           /\ job'.doing = "REVALIDATE" => frozen # NoTerms
    PROVE ReadingSound'
<1>1. \A pool, n : OnChainAt(pool, n)' <=> OnChainAt(pool, n)
  BY DEF OnChainAt, blockVars
<1>2. HonestJob(job') => HonestJob(job)'
  BY <1>1 DEF HonestJob, Common
<1> QED
  BY <1>1, <1>2 DEF ReadingSound, FrozenRight, OfferedRight, AmountKeeps, FloorKeeps, blockVars

LEMMA StepBegin ==
    ASSUME ReadingSound, BeginDerive \/ BeginRevalidate \/ Raise
    PROVE ReadingSound'
<1>1. CASE Raise
  BY <1>1, JobMoves DEF Raise
<1>2. ASSUME NEW doing \in {"DERIVE", "REVALIDATE"}, NEW b \in Intents, NEW path \in {"TOKEN", "NATIVE"},
             Begin(doing, b, path), doing = "REVALIDATE" => frozen # NoTerms
      PROVE ReadingSound'
  <2>1. job' = [doing |-> doing, bounds |-> b, path |-> path,
                heads |-> <<>>, pools |-> <<>>, allowances |-> <<>>]
    BY <1>2 DEF Begin
  <2>2. job' \in JobRecord /\ job'.doing = doing /\ job'.pools = <<>>
    BY <2>1 DEF JobRecord
  <2>3. HonestJob(job')
    BY <2>2 DEF HonestJob
  <2> QED
    BY <1>2, <2>2, <2>3, JobMoves DEF Begin
<1>3. CASE BeginDerive
  BY <1>2, <1>3 DEF BeginDerive
<1>4. CASE BeginRevalidate
  <2>1. frozen.bounds \in Intents /\ frozen.path \in {"TOKEN", "NATIVE"} /\ frozen # NoTerms
    BY <1>4 DEF BeginRevalidate, ReadingSound, FrozenRight, TermsRecord
  <2> QED
    BY <1>2, <1>4, <2>1 DEF BeginRevalidate
<1> QED
  BY <1>1, <1>3, <1>4

\* The heights that the answers name, and what is there.
LEMMA AnswersTyped ==
    ASSUME ReadingSound, NEW p
    PROVE /\ \A h \in Heads(p) : h \in Nat \ {0}
          /\ \A n \in Nat \ {0} : /\ \A r \in PoolsAt(p, n) : r \in Market
                                  /\ \A r \in AllowancesAt(p, n) : r \in Nat
<1>1. \A v \in versions : v \in Seq(Block) /\ Len(v) \in Nat \ {0}
  BY DEF ReadingSound, ChainTypedAt
<1>2. \A v \in versions, n \in Nat \ {0} : Len(v) >= n => v[n] \in Block
  BY <1>1
<1>3. \A a \in Allowances : a \in Nat
  BY DEF Allowances, ReadingSound, FrozenRight, TermsRecord
<1>4. \A h \in Heads(p) : h \in Nat \ {0}
  BY <1>1 DEF Heads
<1>5. ASSUME NEW n \in Nat \ {0}
      PROVE /\ \A r \in PoolsAt(p, n) : r \in Market
            /\ \A r \in AllowancesAt(p, n) : r \in Nat
  BY <1>2, <1>3 DEF PoolsAt, AllowancesAt, Block
<1> QED
  BY <1>4, <1>5

LEMMA CommonType ==
    ASSUME NEW j \in JobRecord, Len(j.heads) = 2
    PROVE Common(j) \in Nat \ {0}
<1>1. j.heads \in Seq(Nat \ {0})
  BY DEF JobRecord
<1>2. j.heads[1] \in Nat \ {0} /\ j.heads[2] \in Nat \ {0}
  BY <1>1
<1> QED
  BY <1>2 DEF Common, Lesser

LEMMA StepAsk ==
    ASSUME ReadingSound, AskHead \/ AskPool \/ AskAllowance
    PROVE ReadingSound'
<1>1. job \in JobRecord /\ HonestJob(job) /\ (job.doing = "REVALIDATE" => frozen # NoTerms)
  BY DEF AskHead, AskPool, AskAllowance, ReadingSound
<1>2. /\ job.heads \in Seq(Nat \ {0}) /\ job.pools \in Seq(Market) /\ job.allowances \in Seq(Nat)
  BY <1>1 DEF JobRecord
<1>3. CASE AskHead
  <2>1. PICK h \in Nat \ {0} : job' = [job EXCEPT !.heads = Append(@, h)]
    BY <1>3, AnswersTyped DEF AskHead
  <2>2. Append(job.heads, h) \in Seq(Nat \ {0}) /\ job.pools = <<>>
    <3>1. PICK polled, set : polled = job.heads /\ set = Nat \ {0}
      OBVIOUS
    <3>2. polled \in Seq(set) /\ h \in set
      BY <1>2, <3>1
    <3>3. Append(polled, h) \in Seq(set)
      BY <3>2, AppendProperties
    <3>4. Len(job.heads) # 2
      <4>1. Len(job.heads) < 2
        BY <1>3 DEF AskHead
      <4>2. PICK n : n = Len(job.heads)
        OBVIOUS
      <4>3. n \in Nat
        BY <1>2, <4>2
      <4> QED
        BY <4>1, <4>2, <4>3
    <3> QED
      BY <1>1, <3>1, <3>3, <3>4 DEF HonestJob
  <2>3. PICK heads \in Seq(Nat \ {0}) : heads = Append(job.heads, h)
    BY <2>2
  <2>4. job' \in JobRecord /\ job'.pools = <<>> /\ job'.doing = job.doing
    BY <1>1, <2>1, <2>2, <2>3 DEF JobRecord
  <2>5. HonestJob(job')
    BY <2>4 DEF HonestJob
  <2> QED
    BY <1>1, <1>3, <2>4, <2>5, JobMoves DEF AskHead
<1>4. CASE AskPool
  <2>1. Len(job.heads) = 2 /\ Common(job) \in Nat \ {0}
    BY <1>1, <1>4, CommonType DEF AskPool, HeadsNear
  <2>2. PICK r \in PoolsAt(Asked(job.pools), Common(job)) : job' = [job EXCEPT !.pools = Append(@, r)]
    BY <1>4 DEF AskPool
  <2>3. r \in Market
    BY <2>1, AnswersTyped
  <2>4. PICK pools \in Seq(Market) : pools = Append(job.pools, r)
    BY <1>2, <2>3, AppendProperties
  <2>5. /\ job' \in JobRecord /\ job'.pools = pools /\ job'.doing = job.doing
        /\ job'.heads = job.heads
    BY <1>1, <2>2, <2>4 DEF JobRecord
  <2>6. Common(job') = Common(job)
    BY <2>5 DEF Common
  <2>7. Len(job.pools) < 2 /\ Len(pools) = Len(job.pools) + 1
    BY <1>2, <1>4, <2>3, <2>4 DEF AskPool
  <2>8. ASSUME NEW i \in 1..Len(pools), Endpoints[i] \notin Untrusted
        PROVE OnChainAt(pools[i], Common(job))
    <3>1. CASE i \in 1..Len(job.pools)
      <4>1. pools[i] = job.pools[i]
        BY <1>2, <2>3, <2>4, <3>1
      <4> QED
        BY <1>1, <2>8, <3>1, <4>1 DEF HonestJob
    <3>2. CASE i = Len(job.pools) + 1
      <4>1. pools[i] = r
        BY <1>2, <2>3, <2>4, <3>2
      <4>2. r \in {v[Common(job)].pool : v \in {w \in versions : Len(w) >= Common(job)}}
        BY <2>8, <3>2 DEF PoolsAt, Asked
      <4> QED
        BY <4>1, <4>2 DEF OnChainAt
    <3> QED
      BY <1>2, <2>7, <3>1, <3>2
  <2>9. HonestJob(job')
    BY <1>2, <2>1, <2>5, <2>6, <2>7, <2>8 DEF HonestJob
  <2> QED
    BY <1>1, <1>4, <2>5, <2>9, JobMoves DEF AskPool
<1>5. CASE AskAllowance
  <2>1. Len(job.heads) = 2 /\ Common(job) \in Nat \ {0}
    BY <1>1, <1>5, CommonType DEF AskAllowance, MarketRead, HeadsNear
  <2>2. PICK r \in Nat : job' = [job EXCEPT !.allowances = Append(@, r)]
    BY <1>5, <2>1, AnswersTyped DEF AskAllowance
  <2>3. PICK allowances \in Seq(Nat) : allowances = Append(job.allowances, r)
    BY <1>2, AppendProperties
  <2>4. /\ job' \in JobRecord /\ job'.pools = job.pools /\ job'.doing = job.doing
        /\ job'.heads = job.heads
    BY <1>1, <2>2, <2>3 DEF JobRecord
  <2>5. HonestJob(job')
    BY <1>1, <2>4 DEF HonestJob, Common
  <2> QED
    BY <1>1, <1>5, <2>4, <2>5, JobMoves DEF AskAllowance
<1> QED
  BY <1>3, <1>4, <1>5

\* What both providers answered is so: one of them is honest.
LEMMA AgreedIsOnChain ==
    ASSUME ReadingSound, job # NoJob, MarketRead(job)
    PROVE job.pools[1] \in Market /\ Common(job) \in Nat /\ OnChainAt(job.pools[1], Common(job))
<1>1. /\ job \in JobRecord /\ HonestJob(job) /\ job.pools \in Seq(Market)
      /\ Len(job.pools) = 2 /\ job.pools[1] = job.pools[2] /\ Len(job.heads) = 2
  BY DEF ReadingSound, MarketRead, Agreed, HeadsNear, JobRecord
<1>2. \A i \in {1, 2} : Endpoints[i] \notin Untrusted => OnChainAt(job.pools[i], Common(job))
  BY <1>1 DEF HonestJob
<1>3. OnChainAt(job.pools[1], Common(job))
  BY <1>1, <1>2, ReadingAssumption
<1>4. job.pools[1] \in Market
  BY <1>1
<1> QED
  BY <1>1, <1>3, <1>4, CommonType

LEMMA StepFreeze ==
    ASSUME ReadingSound, Freeze
    PROVE ReadingSound'
<1>1. job # NoJob /\ job \in JobRecord /\ MarketRead(job) /\ frozen = NoTerms
  BY DEF ReadingSound, Freeze
<1>2. PICK b \in Intents, pool \in Market, block \in Nat, ceiling \in 0..Bps :
         /\ b = job.bounds /\ pool = job.pools[1] /\ block = Common(job)
         /\ ceiling = Lesser(b.impact, Risk.impact) /\ OnChainAt(pool, block)
  <2>1. job.bounds \in Intents
    BY <1>1 DEF JobRecord
  <2>2. Lesser(job.bounds.impact, Risk.impact) \in 0..Bps
    BY <2>1, IntentBounds DEF BoundsOk, Lesser
  <2> QED
    BY <1>1, <2>1, <2>2, AgreedIsOnChain
<1>3. b.side \in Sides /\ b.maxInput \in Nat /\ pool \in Pools
  BY <1>2, IntentBounds DEF BoundsOk
<1>4. PICK x : /\ x = Sized(pool, b.side, b.maxInput, ceiling)
               /\ Sizable(pool, b.side, b.maxInput, ceiling) /\ Admissible(b, pool, x)
               /\ frozen' = Preview(b, job.path, pool, block, x)
  BY <1>2 DEF Freeze
<1>5. x \in Nat
  BY <1>2, <1>3, <1>4, SizedType
<1>6. PICK output \in Nat : output = Output(pool, b.side, x)
  BY <1>3, <1>5, QuoteType
<1>7. PICK floor \in Nat : floor = AmountOutMin(Risk, b, x, output)
  BY <1>5, <1>6, FloorType
<1>8. /\ frozen'.bounds = b /\ frozen'.pool = pool /\ frozen'.block = block /\ frozen'.input = x
      /\ frozen'.floor = floor /\ frozen' \in TermsRecord
  <2>1. job.path \in {"TOKEN", "NATIVE"}
    BY <1>1 DEF JobRecord
  <2> QED
    BY <1>4, <1>5, <1>6, <1>7, <2>1 DEF Preview, TermsRecord
<1>9. FloorKeeps(b, x, floor, output) /\ AmountKeeps(b, pool, x)
  BY <1>4, <1>5, <1>6, <1>7, FloorIsEnough, AdmissibleKeeps
<1>10. /\ UNCHANGED blockVars /\ offered' = offered /\ job' = NoJob
  BY DEF Freeze
<1>11. offered = NoTerms
  BY <1>1 DEF ReadingSound, OfferedRight
<1>12. FrozenRight'
  BY <1>2, <1>6, <1>8, <1>9, <1>10 DEF FrozenRight, OnChainAt, blockVars, AmountKeeps, FloorKeeps
<1> QED
  BY <1>10, <1>11, <1>12 DEF ReadingSound, blockVars

LEMMA StepRevalidate ==
    ASSUME ReadingSound, Revalidate
    PROVE ReadingSound'
<1>1. job # NoJob /\ MarketRead(job) /\ frozen # NoTerms /\ FrozenRight
  BY DEF ReadingSound, Revalidate
<1>2. PICK b \in Intents, pool \in Market, block \in Nat, x \in Nat, floor \in Nat :
         /\ b = frozen.bounds /\ pool = job.pools[1] /\ block = Common(job) /\ OnChainAt(pool, block)
         /\ x = frozen.input /\ floor = frozen.floor
  <2>1. /\ frozen.bounds \in Intents /\ frozen.input \in Nat /\ frozen.floor \in Nat
    BY <1>1 DEF FrozenRight, TermsRecord
  <2> QED
    BY <1>1, <2>1, AgreedIsOnChain
<1>3. b.side \in Sides /\ pool \in Pools
  BY <1>2, IntentBounds DEF BoundsOk
<1>4. PICK output \in Nat : output = Output(pool, b.side, x)
  BY <1>2, <1>3, QuoteType
<1>5. /\ Admissible(b, pool, x) /\ floor >= AmountOutMin(Risk, b, x, output) /\ floor <= output
      /\ offered' = [input |-> x, pool |-> pool, block |-> block]
  BY <1>2, <1>4 DEF Revalidate, StillHolds
<1>6. FloorKeeps(b, x, floor, output) /\ AmountKeeps(b, pool, x)
  BY <1>4, <1>5, FloorIsEnough, AdmissibleKeeps
<1>7. UNCHANGED <<blockVars, frozen>> /\ job' = NoJob
  BY DEF Revalidate
<1>8. offered' \in OfferRecord /\ offered'.input = x /\ offered'.pool = pool /\ offered'.block = block
  BY <1>5 DEF OfferRecord
<1>9. OfferedRight'
  BY <1>1, <1>2, <1>4, <1>5, <1>6, <1>7, <1>8
     DEF OfferedRight, OnChainAt, blockVars, AmountKeeps, FloorKeeps
<1>10. FrozenRight'
  BY <1>1, <1>7 DEF FrozenRight, OnChainAt, blockVars, AmountKeeps, FloorKeeps
<1> QED
  BY <1>7, <1>9, <1>10 DEF ReadingSound, blockVars

LEMMA ReadingAlwaysSound == ReadingSpec => []ReadingSound
<1>1. ReadingInit => ReadingSound
  <2> SUFFICES ASSUME ReadingInit
               PROVE ReadingSound
    OBVIOUS
  <2>1. PICK block \in Block : blocks = <<block>>
    BY DEF ReadingInit, Block
  <2>2. versions = {blocks} /\ ChainTypedAt(blocks)
    BY <2>1 DEF ReadingInit, ChainTypedAt
  <2> QED
    BY <2>2 DEF ReadingInit, ReadingSound
<1>2. ReadingSound /\ [ReadingNext]_readingVars => ReadingSound'
  <2> SUFFICES ASSUME ReadingSound, [ReadingNext]_readingVars
               PROVE ReadingSound'
    OBVIOUS
  <2>1. CASE Expire
    BY <2>1 DEF Expire, ReadingSound, blockVars
  <2>2. CASE UNCHANGED readingVars
    BY <2>2, JobMoves DEF readingVars, blockVars, ReadingSound
  <2> QED
    BY <2>1, <2>2, StepBlock, StepBegin, StepAsk, StepFreeze, StepRevalidate DEF ReadingNext
<1> QED
  BY <1>1, <1>2, PTL DEF ReadingSpec

\* TermsAreOfTheChain for any chain, any pools and any lag of the two providers, of
\* which one may report anything: what observe and observe_allowance_for_market agree
\* on was so at the height they name.
THEOREM TermsOfChainCorrect == ReadingSpec => []TermsAreOfTheChain
<1>1. ReadingSound => TermsAreOfTheChain
  BY DEF ReadingSound, FrozenRight, OfferedRight, TermsAreOfTheChain, OnChain, OnChainAt
<1> QED
  BY <1>1, ReadingAlwaysSound, PTL

\* TermsKeepTheLimit for any pools, fee, bounds and policy: the terms frozen for
\* signing, and once more the same terms before they are signed, keep the limit
\* price, both slippages and both impact ceilings (derive_live_ink_v0f_preview,
\* revalidate_ink_v0f_same_amount).
THEOREM LimitCorrect == ReadingSpec => []TermsKeepTheLimit
<1>1. ASSUME ReadingSound, frozen # NoTerms
      PROVE FrozenRight /\ frozen.bounds.side \in Sides
  <2>1. FrozenRight /\ frozen.bounds \in Intents
    BY <1>1 DEF ReadingSound, FrozenRight, TermsRecord
  <2> QED
    BY <2>1, IntentBounds DEF BoundsOk
<1>2. ASSUME ReadingSound, offered # NoTerms
      PROVE OfferedRight
  BY <1>2 DEF ReadingSound
<1>3. ReadingSound => TermsKeepTheLimit
  BY <1>1, <1>2 DEF TermsKeepTheLimit, FrozenRight, OfferedRight, AmountKeeps, FloorKeeps
<1> QED
  BY <1>3, ReadingAlwaysSound, PTL

=============================================================================
