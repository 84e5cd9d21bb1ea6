------------------------------ MODULE GrantDriver ------------------------------
(***************************************************************************)
(* ink_v0f_native_sell_roundtrip_driver_v0.py: the shell around a sell's   *)
(* preparation.  It keeps state.json, which every phase replaces from the  *)
(* copy the run has in memory, and grant.json, a snapshot of the receipt   *)
(* it was given, which is linked into place once and never replaced.       *)
(*                                                                         *)
(* Runs may be started again, die anywhere and run side by side over one   *)
(* directory, and the operator may put another receipt at the path.        *)
(***************************************************************************)
EXTENDS Naturals

CONSTANTS
    Runs,               \* invocations of the driver
    Grants,             \* contents of a receipt
    Facts,              \* what an invocation fixes: roots, paths, the helper's digest
    None                \* no grant, no facts

ASSUME NoneIsNothing == None \notin Grants \cup Facts

VARIABLES
    receipt,            \* the file at the receipt path
    snapshot,           \* grant.json
    stateFile,          \* state.json
    driver              \* each run: where it is, its copy of the state, what it read

driverVars == <<receipt, snapshot, stateFile, driver>>

Blank == [phase |-> "INIT", facts |-> None, digest |-> None]
Fresh(f) == [at |-> "START", facts |-> f, state |-> Blank, raw |-> None]
Gone == [Fresh(None) EXCEPT !.at = "OUT"]

RunAt(r, place) == driver[r].at = place
RunGoes(r, place) == driver' = [driver EXCEPT ![r].at = place]

\* _set_phase: the run's copy with the phase and the fields, over whatever is there.
Writes(r, state, place) ==
    /\ stateFile' = state
    /\ driver' = [driver EXCEPT ![r].state = state, ![r].at = place]

\* The same, by a run that ends with it.
Finishes(r, state) ==
    /\ stateFile' = state
    /\ driver' = [driver EXCEPT ![r] = Gone]

Phase(r, phase) == [driver[r].state EXCEPT !.phase = phase]

-----------------------------------------------------------------------------
Invoke(r, f) ==
    /\ RunAt(r, "OUT")
    /\ driver' = [driver EXCEPT ![r] = Fresh(f)]
    /\ UNCHANGED <<receipt, snapshot, stateFile>>

LoadState(r) ==
    /\ RunAt(r, "START")
    /\ driver' = [driver EXCEPT ![r].state = stateFile, ![r].at = "LOADED"]
    /\ UNCHANGED <<receipt, snapshot, stateFile>>

\* The facts of the first invocation bind the later ones.
FixFacts(r) ==
    LET run == driver[r] IN
    /\ RunAt(r, "LOADED")
    /\ run.state.facts \in {None, run.facts}
    /\ Writes(r, [run.state EXCEPT !.facts = run.facts], "PREFLIGHT")
    /\ UNCHANGED <<receipt, snapshot>>

Preflight(r) ==
    /\ RunAt(r, "PREFLIGHT")
    /\ \/ Finishes(r, Phase(r, "SAFE_STOP"))
       \/ Writes(r, Phase(r, "PREFLIGHT_COMPLETE"), "READ")
    /\ UNCHANGED <<receipt, snapshot>>

ReadReceipt(r) ==
    /\ RunAt(r, "READ")
    /\ receipt # None
    /\ driver' = [driver EXCEPT ![r].raw = receipt,
                                ![r].at = IF snapshot = None THEN "LINK" ELSE "COMPARE"]
    /\ UNCHANGED <<receipt, snapshot, stateFile>>

\* The mutant replaces what is there.
LinkSnapshot_Replace(r) ==
    /\ RunAt(r, "LINK")
    /\ snapshot' = driver[r].raw
    /\ RunGoes(r, "RECORD")
    /\ UNCHANGED <<receipt, stateFile>>

\* _atomic_write_once: os.link fails over a file that came to be since.
LinkSnapshot(r) ==
    /\ RunAt(r, "LINK")
    /\ snapshot' = IF snapshot = None THEN driver[r].raw ELSE snapshot
    /\ RunGoes(r, IF snapshot = None THEN "RECORD" ELSE "COMPARE")
    /\ UNCHANGED <<receipt, stateFile>>

CompareSnapshot(r) ==
    /\ RunAt(r, "COMPARE")
    /\ snapshot = driver[r].raw
    /\ RunGoes(r, "RECORD")
    /\ UNCHANGED <<receipt, snapshot, stateFile>>

\* The digest in the run's copy of the state, not in the file, is compared.
RecordGrant(r) ==
    LET run == driver[r] IN
    /\ RunAt(r, "RECORD")
    /\ run.state.digest \in {None, run.raw}
    /\ Writes(r, [run.state EXCEPT !.phase = "GRANT_COMMITTED", !.digest = run.raw], "PREPARE")
    /\ UNCHANGED <<receipt, snapshot>>

\* The helper is given the receipt's path, not the snapshot's, and may fail.
Prepare(r) ==
    /\ RunAt(r, "PREPARE")
    /\ \/ Finishes(r, Phase(r, "PREPARED"))
       \/ Finishes(r, Phase(r, "SAFE_STOP"))
    /\ UNCHANGED <<receipt, snapshot>>

\* A DriverSafeStop, which leaves the state as it is, or the process dies.
GiveUp(r) ==
    /\ ~RunAt(r, "OUT")
    /\ driver' = [driver EXCEPT ![r] = Gone]
    /\ UNCHANGED <<receipt, snapshot, stateFile>>

\* A receipt is issued outside of this program, and the operator supplies it.
Supply(g) ==
    /\ receipt # g
    /\ receipt' = g
    /\ UNCHANGED <<snapshot, stateFile, driver>>

DriverInit ==
    /\ receipt = None
    /\ snapshot = None
    /\ stateFile = Blank
    /\ driver = [r \in Runs |-> Gone]

DriverRun(r) ==
    \/ \E f \in Facts : Invoke(r, f)
    \/ LoadState(r) \/ FixFacts(r) \/ Preflight(r) \/ ReadReceipt(r)
    \/ LinkSnapshot(r) \/ CompareSnapshot(r) \/ RecordGrant(r)
    \/ Prepare(r) \/ GiveUp(r)

DriverNext == (\E r \in Runs : DriverRun(r)) \/ (\E g \in Grants : Supply(g))

DriverSpec == DriverInit /\ [][DriverNext]_driverVars

-----------------------------------------------------------------------------
(* Properties. *)

\* However runs overtake each other in writing their own copies of the state: a
\* digest in the state is that of the one snapshot there is.
RecordedIsCommitted ==
    /\ stateFile.digest \in {None, snapshot}
    /\ stateFile.phase \in {"GRANT_COMMITTED", "PREPARED"} => stateFile.digest # None
=============================================================================
