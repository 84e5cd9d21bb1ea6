------------------------------ MODULE Operations ------------------------------
(***************************************************************************)
(* operations.py: the lock that keeps a second daemon off a ledger, its    *)
(* inspection by the status report, and the backup of a ledger.            *)
(*                                                                         *)
(* A lock has two halves: flock, which the kernel keeps per open file and  *)
(* drops when the process dies, and the set of held paths that the threads *)
(* of one process share.  Acquiring takes both under the process's guard;  *)
(* closing and inspecting do not do theirs in one step.                    *)
(***************************************************************************)
EXTENDS Naturals, FiniteSets

CONSTANTS
    Daemons,            \* processes that run on the host
    Handles,            \* ProcessLock objects of the one lock file
    HomeOf,             \* the process each belongs to
    Reporters,          \* inspections by the status report
    SeatOf,             \* the process each inspects from
    Copiers,            \* backups to the one destination
    MaxCommits          \* bound: commits to the ledger while they run

ASSUME HomesAreDaemons == HomeOf \in [Handles -> Daemons] /\ SeatOf \in [Reporters -> Daemons]

VARIABLES
    present,            \* has the lock file been created
    heldPaths,          \* processes whose _held_paths name it
    exclusive,          \* handles with LOCK_EX
    shared,             \* reporters with LOCK_SH
    lock,               \* where each handle is
    report,             \* where each inspection is, or what it found
    ledger,             \* commits to the ledger that is backed up
    destination,        \* the file at the destination
    copier              \* where each backup is, the commits there when it began, and
                        \* whether what it writes is at the destination

lockVars == <<present, heldPaths, exclusive, shared, lock, report>>
backupVars == <<ledger, destination, copier>>

-----------------------------------------------------------------------------
(* ProcessLock. *)

\* LOCK_EX | LOCK_NB: refused over anybody's lock, an inspection's too.
FlockFree == exclusive = {} /\ shared = {}

\* The guard of the process is taken while a handle of it closes.
Guarded(h) == \E k \in Handles : HomeOf[k] = HomeOf[h] /\ lock[k] = "CLOSING"

\* acquire: the file is created, whoever then gets the lock.
Acquire(h) ==
    /\ lock[h] = "OPEN"
    /\ ~Guarded(h)
    /\ HomeOf[h] \notin heldPaths
    /\ present' = TRUE
    /\ IF FlockFree
       THEN /\ exclusive' = exclusive \cup {h}
            /\ heldPaths' = heldPaths \cup {HomeOf[h]}
            /\ lock' = [lock EXCEPT ![h] = "HELD"]
       ELSE UNCHANGED <<exclusive, heldPaths, lock>>
    /\ UNCHANGED <<shared, report, backupVars>>

\* The mutant gives the kernel's lock back before the path.
CloseStart_KernelFirst(h) ==
    /\ lock[h] = "HELD"
    /\ lock' = [lock EXCEPT ![h] = "CLOSING"]
    /\ exclusive' = exclusive \ {h}
    /\ UNCHANGED <<present, heldPaths, shared, report, backupVars>>

\* close takes the path out of the set before it unlocks.
CloseStart(h) ==
    /\ lock[h] = "HELD"
    /\ lock' = [lock EXCEPT ![h] = "CLOSING"]
    /\ heldPaths' = heldPaths \ {HomeOf[h]}
    /\ UNCHANGED <<present, exclusive, shared, report, backupVars>>

CloseEnd(h) ==
    /\ lock[h] = "CLOSING"
    /\ lock' = [lock EXCEPT ![h] = "OPEN"]
    /\ exclusive' = exclusive \ {h}
    /\ heldPaths' = heldPaths \ {HomeOf[h]}
    /\ UNCHANGED <<present, shared, report, backupVars>>

\* A process dies: the kernel drops its locks, and its memory is gone.
Die(d) ==
    LET its == {h \in Handles : HomeOf[h] = d}
        seen == {r \in Reporters : SeatOf[r] = d} IN
    /\ exclusive' = exclusive \ its
    /\ shared' = shared \ seen
    /\ heldPaths' = heldPaths \ {d}
    /\ lock' = [h \in Handles |-> IF h \in its THEN "OPEN" ELSE lock[h]]
    /\ report' = [r \in Reporters |-> IF r \in seen THEN "NEW" ELSE report[r]]
    /\ UNCHANGED <<present, backupVars>>

-----------------------------------------------------------------------------
(* inspect_lock. *)

Finds(r, what) == report' = [report EXCEPT ![r] = what]

\* The set is read without the process's guard.
LookInProcess(r) ==
    /\ report[r] \in {"NEW", "FREE", "HELD", "NOT_PRESENT"}
    /\ Finds(r, IF SeatOf[r] \in heldPaths THEN "HELD" ELSE "FILE")
    /\ UNCHANGED <<present, heldPaths, exclusive, shared, lock, backupVars>>

LookForFile(r) ==
    /\ report[r] = "FILE"
    /\ Finds(r, IF present THEN "FLOCK" ELSE "NOT_PRESENT")
    /\ UNCHANGED <<present, heldPaths, exclusive, shared, lock, backupVars>>

\* LOCK_SH | LOCK_NB.
TryShared(r) ==
    /\ report[r] = "FLOCK"
    /\ IF exclusive = {}
       THEN shared' = shared \cup {r} /\ Finds(r, "UNLOCK")
       ELSE Finds(r, "HELD") /\ UNCHANGED shared
    /\ UNCHANGED <<present, heldPaths, exclusive, lock, backupVars>>

Unshare(r) ==
    /\ report[r] = "UNLOCK"
    /\ shared' = shared \ {r}
    /\ Finds(r, "FREE")
    /\ UNCHANGED <<present, heldPaths, exclusive, lock, backupVars>>

-----------------------------------------------------------------------------
(* backup_database. *)

Commit ==
    /\ ledger < MaxCommits
    /\ ledger' = ledger + 1
    /\ UNCHANGED <<destination, copier, lockVars>>

\* What is at the destination: nothing, a copy that is not whole, or the ledger as
\* it was after some of its commits.
Nothing == [is |-> "NOTHING", upTo |-> 0]
Unfinished == [is |-> "PARTIAL", upTo |-> 0]
Copy(n) == [is |-> "WHOLE", upTo |-> n]

CopierAt(b, place) == copier[b].at = place
CopierMoves(b, place) == copier' = [copier EXCEPT ![b].at = place]

\* Once the file is removed, a copy under way goes to one that has no name.
AllUnlinked == [b \in Copiers |-> [copier[b] EXCEPT !.linked = FALSE]]

\* The destination must not be there; the source is verified.
BackupBegin(b) ==
    /\ CopierAt(b, "IDLE")
    /\ destination = Nothing
    /\ copier' = [copier EXCEPT ![b] = [at |-> "COPY", since |-> ledger, linked |-> FALSE]]
    /\ UNCHANGED <<ledger, destination, lockVars>>

\* _run_backup: SQLite begins to write the destination, whatever is there by now,
\* and in the end has one state of the source in it.
CopyStart(b) ==
    /\ CopierAt(b, "COPY")
    /\ destination' = Unfinished
    /\ copier' = [copier EXCEPT ![b].at = "COPYING", ![b].linked = TRUE]
    /\ UNCHANGED <<ledger, lockVars>>

CopyEnd(b) ==
    /\ CopierAt(b, "COPYING")
    /\ destination' = IF copier[b].linked THEN Copy(ledger) ELSE destination
    /\ CopierMoves(b, "VERIFY")
    /\ UNCHANGED <<ledger, lockVars>>

\* The mutant trusts the copy it made.
Verified_Trusted == TRUE

\* verify_database of the destination.
Verified == destination.is = "WHOLE"

BackupReport(b) ==
    /\ CopierAt(b, "VERIFY")
    /\ Verified
    /\ CopierMoves(b, "REPORTED")
    /\ UNCHANGED <<ledger, destination, lockVars>>

\* Interrupted, a full disk, the destination locked by another backup, or a copy
\* that is not verified: what is at the destination is removed.
BackupFail(b) ==
    /\ copier[b].at \in {"COPY", "COPYING", "VERIFY"}
    /\ destination' = Nothing
    /\ copier' = [AllUnlinked EXCEPT ![b].at = "IDLE"]
    /\ UNCHANGED <<ledger, lockVars>>

\* The process dies, and what it wrote stays; or the caller is done.
BackupGone(b) ==
    /\ copier[b].at # "IDLE"
    /\ copier' = [copier EXCEPT ![b].at = "IDLE", ![b].linked = FALSE]
    /\ UNCHANGED <<ledger, destination, lockVars>>

\* An operator removes or moves the file.
Collect ==
    /\ destination # Nothing
    /\ destination' = Nothing
    /\ copier' = AllUnlinked
    /\ UNCHANGED <<ledger, lockVars>>

-----------------------------------------------------------------------------
LockInit ==
    /\ present \in BOOLEAN
    /\ heldPaths = {} /\ exclusive = {} /\ shared = {}
    /\ lock = [h \in Handles |-> "OPEN"]
    /\ report = [r \in Reporters |-> "NEW"]

BackupInit ==
    /\ ledger = 0
    /\ destination = Nothing
    /\ copier = [b \in Copiers |-> [at |-> "IDLE", since |-> 0, linked |-> FALSE]]

LockNext ==
    \/ \E h \in Handles : Acquire(h) \/ CloseStart(h) \/ CloseEnd(h)
    \/ \E d \in Daemons : Die(d)
    \/ \E r \in Reporters : LookInProcess(r) \/ LookForFile(r) \/ TryShared(r) \/ Unshare(r)

BackupNext ==
    \/ Commit \/ Collect
    \/ \E b \in Copiers : \/ BackupBegin(b) \/ CopyStart(b) \/ CopyEnd(b)
                          \/ BackupReport(b) \/ BackupFail(b) \/ BackupGone(b)

\* The locks and the backups, each by itself.
LockSpec == LockInit /\ [][LockNext]_lockVars
BackupSpec == BackupInit /\ [][BackupNext]_backupVars

-----------------------------------------------------------------------------
(* Properties. *)

\* An inspection that says HELD does so when the lock is someone's, and one that
\* goes on to say FREE saw it as nobody's; other inspections do not make it HELD.
InspectionTrue ==
    [][\A r \in Reporters :
          /\ report[r] # "HELD" /\ report'[r] = "HELD" => exclusive # {}
          /\ report[r] # "UNLOCK" /\ report'[r] = "UNLOCK" => exclusive = {}]_<<lockVars, backupVars>>

\* A backup that is reported is a whole copy of the ledger, with every commit made
\* before it began, though another backup writes to or removes the same file.
ReportedIsWhole ==
    [][\A b \in Copiers :
          ~CopierAt(b, "REPORTED") /\ copier'[b].at = "REPORTED" =>
              destination.is = "WHOLE" /\ destination.upTo >= copier[b].since]_<<lockVars, backupVars>>
=============================================================================
