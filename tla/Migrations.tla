------------------------------- MODULE Migrations -------------------------------
(* alita/db/migrations/runner.go: replicas that start together bring one database  *)
(* to the schema of their files.  The advisory lock is of best effort: whoever     *)
(* cannot get it goes on without.  The primary key of schema_migrations decides.   *)
EXTENDS Naturals, FiniteSets

CONSTANTS Runner,   \* processes that start
          LastFile, \* the newest version has the files 1..LastFile
          Empty,    \* the files without a statement
          Tries     \* attempts to get the advisory lock

Free == "free"                     \* the lock, when nobody holds it

ASSUME MigrationsAssumption ==
    /\ LastFile \in Nat \ {0} /\ Tries \in Nat \ {0}
    /\ Empty \subseteq 1..LastFile /\ Free \notin Runner

File == 1..LastFile
Sums == {"old", "new"}             \* the checksums of the contents a file has had
NoRow == "none"                    \* not in schema_migrations
Legacy == "empty"                  \* a row from before there were checksums

VARIABLES row,      \* schema_migrations: the checksum of every version
          effects,  \* how often the statements of a file have taken effect
          lock,     \* the sessions that hold the advisory lock
          files,    \* how many files the replica has (a rolling update: not all the same)
          sums,     \* the contents of its files
          silent,   \* AutoMigrateSilentFail
          runner,   \* every replica's RunMigrations
          overwritten \* history: the files whose recorded checksum gave way to another one

base    == <<row, effects, overwritten>>
given   == <<files, sums, silent>>
migVars == <<base, lock, given, runner>>

Start == [pc |-> "lock", tries |-> Tries, at |-> 1, brief |-> FALSE]

RunnerStep == {"lock", "count", "next", "backfill", "execute", "record", "unlock",
               "done", "failed", "crashed"}

MigTypeOK ==
    /\ row \in [File -> Sums \cup {NoRow, Legacy}] /\ effects \in [File -> Nat]
    /\ lock \in Runner \cup {Free}
    /\ files \in [Runner -> File] /\ sums \in [Runner -> [File -> Sums]] /\ silent \in BOOLEAN
    /\ runner \in [Runner -> [pc : RunnerStep, tries : 0..Tries, at : 1..LastFile + 1, brief : BOOLEAN]]
    /\ overwritten \subseteq File

\* Some versions have migrated the database, perhaps before there were checksums.  Every
\* replica has a version of its own, with its own contents of the files.
MigInit ==
    /\ \E done \in 0..LastFile, sum \in [File -> {"old", Legacy}] :
          /\ row = [f \in File |-> IF f <= done /\ f \notin Empty THEN sum[f] ELSE NoRow]
          /\ effects = [f \in File |-> IF f <= done /\ f \notin Empty THEN 1 ELSE 0]
    /\ lock = Free
    /\ files \in [Runner -> File]
    /\ sums \in [Runner -> [File -> Sums]]
    /\ silent \in BOOLEAN
    /\ runner = [r \in Runner |-> Start] /\ overwritten = {}

At(r, pc)  == runner[r].pc = pc
To(r, pc)  == runner' = [runner EXCEPT ![r].pc = pc]
Current(r) == runner[r].at

\* The deferred unlock runs on any connection of the pool: on another one than the
\* lock was taken on it releases nothing.  A failed start ends the process, and its
\* sessions, unless the failure is to be silent.
Released(r)  == IF lock = r THEN Free ELSE lock
LeaveLock(r) == lock' \in {lock, Released(r)}
FailStart(r) == To(r, "failed") /\ (IF silent THEN LeaveLock(r) ELSE lock' = Released(r))

--------------------------------------------------------------------------------
WaitForLock(r) == /\ At(r, "lock") /\ lock = Free /\ lock' = r /\ To(r, "count")
                  /\ UNCHANGED <<base, given>>

\* pg_try_advisory_lock, once a second: somebody holds the lock, or the database does
\* not answer.  Then the replica goes on without the lock.
TryLock(r) ==
    /\ At(r, "lock")
    /\ \/ lock = Free /\ lock' = r /\ To(r, "count")
       \/ /\ runner' = [runner EXCEPT ![r].tries = @ - 1,
                                      ![r].pc = IF runner[r].tries = 1 THEN "count" ELSE "lock"]
          /\ UNCHANGED lock
    /\ UNCHANGED <<base, given>>

Rows == {f \in File : row[f] # NoRow}

\* As many rows as files: nothing to do, and nothing is verified.
CountRows(r) ==
    /\ At(r, "count")
    /\ IF Cardinality(Rows) = files[r]
       THEN runner' = [runner EXCEPT ![r].pc = "unlock", ![r].brief = TRUE]
       ELSE To(r, "next")
    /\ UNCHANGED <<base, lock, given>>

Advance(r) == runner' = [runner EXCEPT ![r].pc = "next", ![r].at = @ + 1]

\* isMigrationApplied: no row for the next file.
ApplyNext(r) ==
    LET f == Current(r)
    IN  /\ At(r, "next") /\ f <= files[r] /\ row[f] = NoRow
        /\ IF f \in Empty THEN Advance(r) ELSE To(r, "execute")
        /\ UNCHANGED <<base, lock, given>>

VerifyNothing(r) ==
    /\ At(r, "next") /\ Current(r) <= files[r] /\ row[Current(r)] # NoRow
    /\ Advance(r)
    /\ UNCHANGED <<base, lock, given>>

\* verifyMigrationChecksum up to the read of the row: a checksum must match, unless a
\* mismatch is to be silent; a legacy row is to take the one of the file.
VerifyChecksum(r) ==
    LET f == Current(r)
    IN  /\ At(r, "next") /\ f <= files[r] /\ row[f] # NoRow
        /\ \/ row[f] = Legacy /\ To(r, "backfill") /\ UNCHANGED lock
           \/ /\ row[f] # Legacy /\ (row[f] = sums[r][f] \/ silent)
              /\ Advance(r) /\ UNCHANGED lock
           \/ row[f] \notin {Legacy, sums[r][f]} /\ ~silent /\ FailStart(r)
        /\ UNCHANGED <<base, given>>

\* Its update, whatever checksum the row has by then; when it fails it may have been
\* carried out or not.
Backfill(r) ==
    LET f == Current(r)
    IN  /\ At(r, "backfill")
        /\ \/ /\ row' = [row EXCEPT ![f] = sums[r][f]]
              /\ overwritten' = IF row[f] \in {Legacy, sums[r][f]} THEN overwritten ELSE overwritten \cup {f}
              /\ (Advance(r) /\ UNCHANGED lock) \/ FailStart(r)
           \/ FailStart(r) /\ UNCHANGED <<row, overwritten>>
        /\ UNCHANGED <<effects, given>>

AllSeen(r) == /\ At(r, "next") /\ Current(r) > files[r] /\ To(r, "unlock")
              /\ UNCHANGED <<base, lock, given>>

\* applyMigration: the statements run in a transaction and one of them may fail.
Execute(r) ==
    /\ At(r, "execute")
    /\ (To(r, "record") /\ UNCHANGED lock) \/ FailStart(r)
    /\ UNCHANGED <<base, given>>

RecordAgain(r) ==
    LET f == Current(r)
    IN  /\ At(r, "record") /\ Advance(r)
        /\ row' = [row EXCEPT ![f] = sums[r][f]]
        /\ effects' = [effects EXCEPT ![f] = @ + 1]
        /\ UNCHANGED <<lock, given, overwritten>>

\* It ends with the insert of the row: the key admits one of two replicas, and with the
\* other's insert its statements are rolled back.  The commit may have gone through
\* although its answer is an error.
Record(r) ==
    LET f == Current(r)
    IN  /\ At(r, "record")
        /\ IF row[f] = NoRow
           THEN /\ row' = [row EXCEPT ![f] = sums[r][f]]
                /\ effects' = [effects EXCEPT ![f] = @ + 1]
                /\ (Advance(r) /\ UNCHANGED lock) \/ FailStart(r)
           ELSE FailStart(r) /\ UNCHANGED <<row, effects>>
        /\ UNCHANGED <<given, overwritten>>

Unlock(r) == At(r, "unlock") /\ To(r, "done") /\ LeaveLock(r) /\ UNCHANGED <<base, given>>

\* The database does not answer a count or a read.
ReadFails(r) == runner[r].pc \in {"count", "next"} /\ FailStart(r) /\ UNCHANGED <<base, given>>

\* The process dies: its transaction is rolled back and its sessions end.
CrashRunner(r) == /\ runner[r].pc \notin {"failed", "crashed"} /\ To(r, "crashed")
                  /\ lock' = Released(r)
                  /\ UNCHANGED <<base, given>>

Run(r) == \/ TryLock(r) \/ CountRows(r) \/ ApplyNext(r) \/ VerifyChecksum(r) \/ Backfill(r)
          \/ AllSeen(r) \/ Execute(r) \/ Record(r) \/ Unlock(r) \/ ReadFails(r)

MigNext == \E r \in Runner : Run(r) \/ CrashRunner(r)

MigSpec == MigInit /\ [][MigNext]_migVars

\* A replica that does not die goes on.
MigFair == \A r \in Runner : WF_migVars(Run(r))

--------------------------------------------------------------------------------
(* Properties *)

AppliedOnce == \A f \in File : effects[f] = (IF row[f] = NoRow THEN 0 ELSE 1)

AppliedInOrder == \A f \in Rows : 1..f \subseteq Rows \cup Empty

DoneIsMigrated == \A r \in Runner : At(r, "done") => 1..files[r] \subseteq Rows \cup Empty

DoneIsVerified == \A r \in Runner : At(r, "done") /\ ~runner[r].brief /\ ~silent =>
                      \A f \in Rows \cap 1..files[r] : row[f] = sums[r][f] \/ f \in overwritten

OverwrittenUnlocked == overwritten # {} => \E r \in Runner : runner[r].tries = 0

\* RunMigrations, although replicas of several versions run without the lock, fail and
\* die: the statements of a file have taken effect exactly when it is recorded, and once;
\* none before those of an earlier file; a start without an error means the schema of the
\* replica's files, also when it only counted the rows; and one that did look at the files
\* has refused any whose contents are not those recorded, unless it is to be silent.  To
\* that there is one exception: two replicas that read a row without a checksum both fill
\* it in, and the first has started with a checksum that the second overwrites; it needs
\* one of them to have gone on without the lock.
SchemaIsWhole ==
    AppliedOnce /\ AppliedInOrder /\ DoneIsMigrated /\ DoneIsVerified /\ OverwrittenUnlocked

\* A replica starts, or fails to, whatever became of those that took the lock before.
StartEnds == \A r \in Runner : At(r, "lock") ~> runner[r].pc \in {"done", "failed", "crashed"}
================================================================================
