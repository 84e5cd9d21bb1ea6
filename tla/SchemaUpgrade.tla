---------------------------- MODULE SchemaUpgrade -----------------------------
(***************************************************************************)
(* How the execution tables come to be in a ledger's database, and how an  *)
(* older set of them is brought to the present one: the functions          *)
(* apply_execution_schema and migrate_... of ledger/execution_schema.py,   *)
(* called by ExecutionRuntime.__init__ or by an operator.                  *)
(*                                                                         *)
(* What a migration looks at before its transaction and what it does in it *)
(* are separate steps, since another process may have the database open.   *)
(* SQLite undoes a transaction whose process dies.                         *)
(***************************************************************************)
EXTENDS Naturals, FiniteSets

CONSTANT Openers        \* processes that open the database

VARIABLES
    tables,             \* "b1" (the ten first tables), "refs", "prepare"
    version,            \* execution_schema_version, 0 without one
    signed,             \* the definition of signed_transactions
    rows,               \* signed transactions by what they sign, with their origin
    guarded,            \* are the triggers on those tables in place
    prepareGuards,      \* index and triggers on prepare_records
    opener              \* where each process is

schemaVars == <<tables, version, signed, rows, guarded, prepareGuards, opener>>

\* signed_transactions without an origin, with the first rule for it, with the
\* rule that external bytes name no envelope, and as it is now.
Shapes == {"NONE", "LEGACY", "XOR", "NULL_ONLY", "CURRENT"}
All == {"b1", "refs", "prepare"}
Current == 6
\* The index of prepare_records and its triggers, in the order of their creation.
PrepareOrder == <<"uq_active_source", "identity_guard", "phase_guard", "no_delete">>
PrepareGuards == {PrepareOrder[i] : i \in 1..4}
PrepareTriggers == PrepareGuards \ {"uq_active_source"}

Kinds == {"ENVELOPE", "APPROVAL"}
OldRow(kind) == [kind |-> kind, origin |-> "NONE"]
Row(kind) == [kind |-> kind, origin |-> kind]

Upgrading == {"M12", "M23", "M34", "M45", "M56", "CREATE"}
Places == {"OUT", "LOOK", "APPLY", "STAMP", "CHECK", "OPEN"} \cup Upgrading

OpenerAt(w, place) == opener[w] = place
OpenerGoes(w, place) == opener' = [opener EXCEPT ![w] = place]
Data == <<tables, version, signed, rows, guarded, prepareGuards>>

-----------------------------------------------------------------------------
(* ExecutionRuntime.__init__ and apply_execution_schema. *)

\* The migration that starts at a version.
MigrationOf(v) ==
    CASE v = 1 -> "M12" [] v = 2 -> "M23" [] v = 3 -> "M34" [] v = 4 -> "M45" [] v = 5 -> "M56"

\* A process opens the database, or an operator calls an exported migration.
Arrive(w) ==
    /\ OpenerAt(w, "OUT")
    /\ \/ OpenerGoes(w, "LOOK")
       \/ version \in 1..5 /\ OpenerGoes(w, MigrationOf(version))
    /\ UNCHANGED Data

\* Tables there are in part are refused.
Look(w) ==
    /\ OpenerAt(w, "LOOK")
    /\ OpenerGoes(w, CASE tables = {}     -> "APPLY"
                 [] tables = {"b1"} -> "M12"
                 [] tables = All    -> IF version \in 2..5 THEN MigrationOf(version) ELSE "CHECK"
                 [] OTHER           -> "OUT")
    /\ UNCHANGED Data

\* One transaction creates everything, or fails over a table that is there by now.
Apply(w) ==
    /\ OpenerAt(w, "APPLY")
    /\ IF tables = {}
       THEN /\ tables' = All
            /\ version' = Current
            /\ signed' = "CURRENT"
            /\ guarded' = TRUE
            /\ prepareGuards' = PrepareGuards
            /\ OpenerGoes(w, "CHECK")
       ELSE OpenerGoes(w, "OUT") /\ UNCHANGED <<tables, version, signed, guarded, prepareGuards>>
    /\ UNCHANGED rows

\* The mutant asks for no triggers.
Whole_Columns == signed = "CURRENT"

\* validate_execution_schema_shape: nothing of prepare_records is looked at.
Whole == signed = "CURRENT" /\ guarded

Check(w) ==
    /\ OpenerAt(w, "CHECK")
    /\ OpenerGoes(w, IF version = Current /\ Whole THEN "OPEN" ELSE "OUT")
    /\ UNCHANGED Data

Leave(w) ==
    /\ opener[w] # "OUT"
    /\ OpenerGoes(w, "OUT")
    /\ UNCHANGED Data

Refused(w) == OpenerGoes(w, "OUT") /\ UNCHANGED Data

-----------------------------------------------------------------------------
(* The migrations.  Each drops the triggers and creates all of today's again, *)
(* those of prepare_records too, which needs that table.                      *)

Retrigger == guarded' = TRUE /\ prepareGuards' = prepareGuards \cup PrepareTriggers

\* The triggers of prepare_records are not among those that the first migration
\* drops, and creating what is there fails.  So does a table of the second version.
FirstToSecond(w) ==
    /\ OpenerAt(w, "M12")
    /\ IF "refs" \notin tables /\ "prepare" \in tables /\ prepareGuards \cap PrepareTriggers = {}
       THEN /\ tables' = tables \cup {"refs"}
            /\ version' = 2
            /\ Retrigger
            /\ OpenerGoes(w, "M23")
            /\ UNCHANGED <<signed, rows>>
       ELSE Refused(w)

\* Rows from before the column are told apart by the approval they name or not.
WithOrigin(r) == IF r.origin = "NONE" THEN Row(r.kind) ELSE r

\* A column there is already only moves the version on, without a transaction.
SecondToThird(w) ==
    /\ OpenerAt(w, "M23")
    /\ IF signed # "LEGACY"
       THEN version' = 3 /\ OpenerGoes(w, "M34") /\ UNCHANGED <<tables, signed, rows, guarded, prepareGuards>>
       ELSE IF "prepare" \notin tables THEN Refused(w)
       ELSE /\ signed' = "XOR"
            /\ rows' = {WithOrigin(r) : r \in rows}
            /\ version' = 3
            /\ Retrigger
            /\ OpenerGoes(w, "M34")
            /\ UNCHANGED tables

\* Rows of external bytes that name no envelope stop a migration: none are guessed.
Unlinked == \E r \in rows : r.kind = "EXTERNAL"

\* _rebuild_signed_transactions: the same rows in the table of today.
Rebuilt == signed' = "CURRENT" /\ Retrigger /\ rows' = {WithOrigin(r) : r \in rows}

ToRebuild == {"LEGACY", "XOR", "NULL_ONLY"}

\* From a version a process read before its transaction to the next.
Migrate(w, from, rebuilds, next) ==
    IF signed \in rebuilds
    THEN IF Unlinked \/ "prepare" \notin tables THEN Refused(w)
         ELSE Rebuilt /\ version' = from + 1 /\ OpenerGoes(w, next) /\ UNCHANGED tables
    ELSE IF Whole
    THEN version' = from + 1 /\ OpenerGoes(w, next) /\ UNCHANGED <<tables, signed, rows, guarded, prepareGuards>>
    ELSE Refused(w)

ThirdToFourth(w) == OpenerAt(w, "M34") /\ Migrate(w, 3, ToRebuild, "M45")

FourthToFifth(w) ==
    /\ OpenerAt(w, "M45")
    /\ IF signed \in {"LEGACY", "XOR"} THEN Refused(w) ELSE Migrate(w, 4, {"NULL_ONLY"}, "M56")

\* A prepare_records that is there is taken as it is.
FifthToSixth(w) ==
    /\ OpenerAt(w, "M56")
    /\ IF "prepare" \notin tables THEN OpenerGoes(w, "CREATE") /\ UNCHANGED Data
       ELSE version' = Current /\ OpenerGoes(w, "CHECK")
            /\ UNCHANGED <<tables, signed, rows, guarded, prepareGuards>>

\* executescript commits the transaction it finds open and then each statement on
\* its own: the table, its index, and its triggers one by one.
CreatePrepare(w) ==
    /\ OpenerAt(w, "CREATE")
    /\ IF "prepare" \in tables THEN Refused(w)
       ELSE /\ tables' = tables \cup {"prepare"}
            /\ prepareGuards' = {}
            /\ OpenerGoes(w, "STAMP")
            /\ UNCHANGED <<version, signed, rows, guarded>>

GuardPrepare(w) ==
    /\ OpenerAt(w, "STAMP")
    /\ \E i \in 1..4 : /\ prepareGuards = {PrepareOrder[j] : j \in 1..(i - 1)}
                       /\ prepareGuards' = prepareGuards \cup {PrepareOrder[i]}
    /\ UNCHANGED <<tables, version, signed, rows, guarded, opener>>

\* The version is written, and the COMMIT that follows fails, for there is no
\* transaction left to commit.
StampPrepare(w) ==
    /\ OpenerAt(w, "STAMP")
    /\ prepareGuards = PrepareGuards
    /\ version' = Current
    /\ OpenerGoes(w, "OUT")
    /\ UNCHANGED <<tables, signed, rows, guarded, prepareGuards>>

-----------------------------------------------------------------------------
(* The databases there are. *)

\* Old(v): what the code of version v left; the table of preparations came last.
Old(v) ==
    /\ version = v
    /\ tables = IF v = 1 THEN {"b1"} ELSE {"b1", "refs"}
    /\ signed = CASE v <= 2 -> "LEGACY" [] v = 3 -> "XOR" [] v = 4 -> "NULL_ONLY" [] OTHER -> "CURRENT"
    /\ guarded = TRUE
    /\ prepareGuards = {}

\* A database of today whose version was set back, as the migrations expect it:
\* with an older table of signed transactions or today's, its triggers there or not.
SetBack(v) ==
    /\ version = v
    /\ tables = All \ (IF v = 1 THEN {"refs"} ELSE {})
    /\ signed \in CASE v <= 2 -> {"LEGACY", "CURRENT"} [] v = 3 -> {"LEGACY", "XOR", "CURRENT"}
                    [] v = 4 -> {"NULL_ONLY", "CURRENT"} [] OTHER -> {"CURRENT"}
    /\ prepareGuards = IF guarded THEN PrepareGuards ELSE PrepareGuards \ PrepareTriggers

Empty == version = 0 /\ tables = {} /\ signed = "NONE" /\ guarded = FALSE /\ prepareGuards = {}

SchemaInit ==
    /\ tables \in SUBSET All /\ version \in 0..Current /\ signed \in Shapes
    /\ guarded \in BOOLEAN /\ prepareGuards \in SUBSET PrepareGuards
    /\ Empty \/ (\E v \in 1..5 : Old(v) \/ SetBack(v))
    /\ rows \in CASE signed = "NONE" -> {{}} [] signed = "LEGACY" -> {{}, {OldRow(k) : k \in Kinds}}
                  [] signed = "NULL_ONLY" -> {{}, {Row(k) : k \in Kinds \cup {"EXTERNAL"}}}
                  [] OTHER -> {{}, {Row(k) : k \in Kinds}}
    /\ opener = [w \in Openers |-> "OUT"]

Upgrade(w) ==
    \/ FirstToSecond(w) \/ SecondToThird(w) \/ ThirdToFourth(w) \/ FourthToFifth(w)
    \/ FifthToSixth(w) \/ CreatePrepare(w) \/ GuardPrepare(w) \/ StampPrepare(w)

SchemaNext ==
    \E w \in Openers : Arrive(w) \/ Look(w) \/ Apply(w) \/ Check(w) \/ Leave(w) \/ Upgrade(w)

SchemaSpec == SchemaInit /\ [][SchemaNext]_schemaVars

-----------------------------------------------------------------------------
(* Properties. *)

\* While a process has the database open, signed transactions stay append-only and
\* bound to their envelopes, though another may still be migrating what it read.
OpenStaysGuarded ==
    (\E w \in Openers : OpenerAt(w, "OPEN")) => signed = "CURRENT" /\ guarded

\* migrate_execution_schema_v5_to_v6 adds "the durable, immutable-plan prepare state
\* machine" (execution_schema.py:1203) and takes a table left by an interrupted
\* migration as whole (1208-1211): the preparations of a database that the runtime
\* took for current cannot be rewritten, doubled or deleted.
CurrentIsGuarded ==
    (\E w \in Openers : OpenerAt(w, "OPEN")) => prepareGuards = PrepareGuards
=============================================================================
