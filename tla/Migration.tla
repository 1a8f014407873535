----------------------------- MODULE Migration -----------------------------
(***************************************************************************)
(* The schema of the database (internal/db/migration/migration.go).  A      *)
(* server checks the version row and the schema before it serves; the       *)
(* command `ccg migrate`, and a server on a fresh local SQLite file, run    *)
(* the numbered steps.  golang-migrate marks the version dirty, runs the    *)
(* step and clears the mark, each in a transaction of its own; PostgreSQL   *)
(* holds an advisory lock meanwhile, SQLite locks within one process only.  *)
(*                                                                         *)
(* Positions of a process, each a read or a transaction of its own:         *)
(*   start, decide, recheck, parity   EnsureSchemaVersion                  *)
(*   connect, baseline, force, up     RunMigrations up to migrator.Up      *)
(*   mark, body, clear                one step: at[p]                      *)
(*   migrated                         RunMigrations: the closing check     *)
(*   serving, stopped (exited, refused to start, failed or died)           *)
(***************************************************************************)
EXTENDS Naturals, FiniteSets

CONSTANTS
    Servers,     \* processes that call EnsureSchemaVersion
    Commands,    \* processes that call RunMigrations: `ccg migrate`
    Required,    \* process -> RequiredSchemaVersion of its binary
    Local,       \* servers whose DSN is the default file ccg.db
    External,    \* processes with a migrations directory of their own
    Visible,     \* driver -> steps whose tables, columns or indexes the parity check looks for
    Repeatable,  \* steps that succeed again where they were applied (IF NOT EXISTS)
    LastStep,    \* the newest step of any binary
    NoProcess

Procs == Servers \union Commands
Steps == 1 .. LastStep
Drivers == {"sqlite", "postgres"}

ASSUME MigrationAssumption ==
    /\ LastStep \in Nat \ {0}
    /\ Servers \intersect Commands = {}
    /\ Required \in [Procs -> Steps]
    /\ Visible \in [Drivers -> SUBSET Steps]
    /\ NoProcess \notin Procs

VARIABLES
    driver,      \* sqlite or postgres
    legacy,      \* version in ccg_schema_versions; 0 without that table
    table,       \* schema_migrations exists
    version,     \* its row; 0 without one
    dirty,       \* the row's dirty flag
    applied,     \* steps the schema has
    holder,      \* process with the advisory lock
    pc, at,      \* position and current step of each process
    accident,    \* history: a step failed or its process died inside it
    overlapped,  \* history: Up began while another process was at a step
    foreign      \* history: a step of an external directory ran

row == <<table, version, dirty>>
vars == <<driver, legacy, table, version, dirty, applied, holder, pc, at,
          accident, overlapped, foreign>>

AtStep == {"mark", "body", "clear"}
Ended == {"stopped", "serving"}

Init ==
    /\ driver \in Drivers
    /\ legacy \in 0 .. LastStep
    /\ table = FALSE /\ version = 0 /\ dirty = FALSE
    /\ applied = 1 .. legacy
    /\ holder = NoProcess
    /\ pc = [p \in Procs |-> "stopped"]
    /\ at = [p \in Procs |-> 0]
    /\ accident = FALSE /\ overlapped = FALSE /\ foreign = FALSE

Goto(p, l) == pc' = [pc EXCEPT ![p] = l]
Release(p) == holder' = IF holder = p THEN NoProcess ELSE holder
HistoryKept == UNCHANGED <<accident, overlapped, foreign>>

\* CheckSchemaVersion for a binary that wants version v.
VersionFits(v) == table /\ version = v /\ ~dirty

\* ValidateSchemaParity of a binary that wants version v.
ExpectedSteps(v) == Visible[driver] \intersect 1 .. v
ParityHolds(v) == ExpectedSteps(v) \subseteq applied

-----------------------------------------------------------------------------
\* A process is started, or started again.
Launch(p) ==
    /\ pc[p] \in Ended
    /\ Goto(p, IF p \in Servers THEN "start" ELSE "connect")
    /\ UNCHANGED <<driver, legacy, row, applied, holder, at>> /\ HistoryKept

\* EnsureSchemaVersion reads the version row and, if it fits, the schema; else
\* it asks whether it may migrate, and if not reads the row again.
CheckVersion(p) ==
    /\ pc[p] \in {"start", "recheck"}
    /\ Goto(p, IF VersionFits(Required[p]) THEN "parity"
               ELSE IF pc[p] = "start" THEN "decide" ELSE "stopped")
    /\ UNCHANGED <<driver, legacy, row, applied, holder, at>> /\ HistoryKept

ShouldAutoMigrateLocalSQLite(p) == driver = "sqlite" /\ p \in Local

Decide(p) ==
    /\ pc[p] = "decide"
    /\ Goto(p, IF ShouldAutoMigrateLocalSQLite(p) /\ ~table THEN "connect" ELSE "recheck")
    /\ UNCHANGED <<driver, legacy, row, applied, holder, at>> /\ HistoryKept

CheckParity(p) ==
    /\ pc[p] = "parity"
    /\ Goto(p, IF ParityHolds(Required[p]) THEN "serving" ELSE "stopped")
    /\ UNCHANGED <<driver, legacy, row, applied, holder, at>> /\ HistoryKept

\* NewMigrator: the driver creates an empty version table under its lock.
Connect(p) ==
    /\ pc[p] = "connect" /\ holder = NoProcess
    /\ table' = TRUE
    /\ Goto(p, "baseline")
    /\ UNCHANGED <<driver, legacy, version, dirty, applied, holder, at>> /\ HistoryKept

\* BaselineLegacySchemaVersion: without a row, a legacy database of this
\* binary's version is taken over as it is.
Baseline(p) ==
    /\ pc[p] = "baseline"
    /\ Goto(p, IF version # 0 \/ legacy # Required[p] THEN "up"
               ELSE IF ParityHolds(Required[p]) THEN "force" ELSE "stopped")
    /\ UNCHANGED <<driver, legacy, row, applied, holder, at>> /\ HistoryKept

ForceVersion(p) ==
    /\ pc[p] = "force" /\ holder = NoProcess
    /\ version' = Required[p] /\ dirty' = FALSE
    /\ Goto(p, "up")
    /\ UNCHANGED <<driver, legacy, table, applied, holder, at>> /\ HistoryKept
-----------------------------------------------------------------------------
\* Up takes the lock and reads the row: a dirty row, or a version this binary
\* does not have, is an error; the newest version is no change.
PendingThoughDirty(p) == version < Required[p]
Pending(p) == ~dirty /\ version < Required[p]

\* Only PostgreSQL's driver has a lock that other processes see.
LockedHere(p) == NoProcess
Locked(p) == IF driver = "postgres" THEN p ELSE NoProcess

Up(p) ==
    /\ pc[p] = "up" /\ holder = NoProcess
    /\ IF Pending(p)
       THEN /\ Goto(p, "mark")
            /\ at' = [at EXCEPT ![p] = version + 1]
            /\ holder' = Locked(p)
       ELSE /\ Goto(p, IF ~dirty /\ version = Required[p] THEN "migrated" ELSE "stopped")
            /\ UNCHANGED <<at, holder>>
    /\ overlapped' = (overlapped \/ \E q \in Procs \ {p} : pc[q] \in AtStep)
    /\ UNCHANGED <<driver, legacy, row, applied, accident, foreign>>

\* A lock somebody else keeps too long, or a database that stays busy.
GivesUp(p) ==
    /\ pc[p] \in {"connect", "force", "up"}
    /\ Goto(p, "stopped")
    /\ UNCHANGED <<driver, legacy, row, applied, holder, at>> /\ HistoryKept

Mark(p) ==
    /\ pc[p] = "mark"
    /\ version' = at[p] /\ dirty' = TRUE
    /\ Goto(p, "body")
    /\ UNCHANGED <<driver, legacy, table, applied, holder, at>> /\ HistoryKept

\* The SQL of the step, in one transaction.  A directory of the operator's own
\* need not do what the embedded step of that number does.
Content(p) == IF p \in External THEN {{}, {at[p]}} ELSE {{at[p]}}

Body(p) ==
    /\ pc[p] = "body"
    /\ at[p] \in applied => at[p] \in Repeatable
    /\ \E new \in Content(p) : applied' = applied \union new
    /\ foreign' = (foreign \/ p \in External)
    /\ Goto(p, "clear")
    /\ UNCHANGED <<driver, legacy, row, holder, at, accident, overlapped>>

\* A step fails on its own account, or because the schema already has it.
StepFails(p) ==
    /\ pc[p] \in AtStep
    /\ Goto(p, "stopped") /\ Release(p)
    /\ at' = [at EXCEPT ![p] = 0]
    /\ accident' = (accident \/ pc[p] = "clear" \/ (pc[p] = "body" /\ at[p] \notin applied \ Repeatable))
    /\ UNCHANGED <<driver, legacy, row, applied, overlapped, foreign>>

Clear(p) ==
    /\ pc[p] = "clear"
    /\ version' = at[p] /\ dirty' = FALSE
    /\ IF at[p] < Required[p]
       THEN Goto(p, "mark") /\ at' = [at EXCEPT ![p] = @ + 1] /\ UNCHANGED holder
       ELSE Goto(p, "migrated") /\ at' = [at EXCEPT ![p] = 0] /\ Release(p)
    /\ UNCHANGED <<driver, legacy, table, applied>> /\ HistoryKept

\* Run ends with a parity check; a server then checks version and parity again.
Migrated(p) ==
    /\ pc[p] = "migrated"
    /\ Goto(p, IF ~ParityHolds(Required[p]) THEN "stopped"
               ELSE IF p \in Servers THEN "recheck" ELSE "stopped")
    /\ UNCHANGED <<driver, legacy, row, applied, holder, at>> /\ HistoryKept

\* The process dies; its session, and with it the advisory lock, ends.
Crash(p) ==
    /\ pc[p] \notin Ended
    /\ Goto(p, "stopped") /\ Release(p)
    /\ at' = [at EXCEPT ![p] = 0]
    /\ accident' = (accident \/ pc[p] \in {"body", "clear"})
    /\ UNCHANGED <<driver, legacy, row, applied, overlapped, foreign>>

Step(p) ==
    \/ Launch(p) \/ CheckVersion(p) \/ Decide(p) \/ CheckParity(p)
    \/ Connect(p) \/ Baseline(p) \/ ForceVersion(p) \/ Up(p) \/ GivesUp(p)
    \/ Mark(p) \/ Body(p) \/ StepFails(p) \/ Clear(p) \/ Migrated(p)
    \/ Crash(p)

Next == \E p \in Procs : Step(p)
Spec == Init /\ [][Next]_vars
-----------------------------------------------------------------------------
TypeOK ==
    /\ driver \in Drivers
    /\ legacy \in 0 .. LastStep
    /\ table \in BOOLEAN
    /\ version \in 0 .. LastStep
    /\ dirty \in BOOLEAN
    /\ applied \in SUBSET Steps
    /\ holder \in Procs \union {NoProcess}
    /\ pc \in [Procs -> AtStep \union Ended \union
                {"start", "decide", "recheck", "parity", "connect", "baseline",
                 "force", "up", "migrated"}]
    /\ at \in [Procs -> 0 .. LastStep]
    /\ accident \in BOOLEAN /\ overlapped \in BOOLEAN /\ foreign \in BOOLEAN

\* What the version row claims is there: every step before the version was
\* applied, and the version's own step too unless the row is dirty.  It holds
\* through crashes, failed steps, takeovers of legacy databases and processes
\* that migrate one SQLite file at once; only the steps of an external
\* directory are taken at their word.
VersionTellsSchema ==
    ~foreign => 1 .. (IF dirty THEN version - 1 ELSE version) \subseteq applied

\* A server that serves was started on a schema that has every step its binary
\* needs, and of an external directory at least what the parity check can see.
\* A newer binary may have migrated further since.
ServedSchemaComplete ==
    \A p \in Servers : pc[p] = "serving" =>
        /\ ExpectedSteps(Required[p]) \subseteq applied
        /\ ~foreign => 1 .. Required[p] \subseteq applied

\* No crash, failure or rival makes the recorded version or a server run ahead
\* of the schema.
SchemaNotOverstated == VersionTellsSchema /\ ServedSchemaComplete

\* Left alone, a migration never needs the operator: the row is dirty only while
\* a process is at that very step, and otherwise names exactly the steps the
\* schema has.  The exceptions are a failed or interrupted step, two processes
\* that migrated one SQLite file at once (never under PostgreSQL's lock) and a
\* legacy database whose steps are run again.
DirtyIsExplained ==
    /\ ~accident /\ ~overlapped /\ legacy = 0 =>
        /\ dirty => \E p \in Procs : pc[p] \in {"body", "clear"} /\ at[p] = version
        /\ ~foreign /\ ~dirty => applied = 1 .. version
    /\ overlapped => driver = "sqlite"
=============================================================================
