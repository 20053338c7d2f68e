----------------------------- MODULE Migrations ------------------------------
(***************************************************************************)
(* internal/db/migrate.go: every command that opens the database applies   *)
(* the embedded migrations that are not recorded yet.  Commands may start  *)
(* side by side and may be killed.                                         *)
(*                                                                         *)
(* The schema is kept as two parts: tables and columns that migrations add *)
(* (IF NOT EXISTS), and the CHECK constraint of wheel_signal_actions that  *)
(* 005, 008, 010 and 012 each drop and add again with a longer vocabulary. *)
(***************************************************************************)
EXTENDS Integers

CONSTANTS
    LastMigration, \* number of migrations, in their lexical order
    Redefines,     \* those that replace the constraint
    Migrator       \* concurrent calls of MigrateUp

Migration == 1 .. LastMigration

ASSUME MigrationsAssumption ==
    /\ LastMigration \in Nat
    /\ Redefines \subseteq Migration

VARIABLES
    applied,    \* schema_migrations
    objects,    \* migrations whose tables and columns exist
    vocabulary, \* the migration the constraint is from, 0 for none
    mgPc,       \* migrator -> control point
    mgAt        \* migrator -> the migration it is at

mgVars == <<applied, objects, vocabulary, mgPc, mgAt>>

MgTypeOK ==
    /\ applied \subseteq Migration /\ objects \subseteq Migration
    /\ vocabulary \in {0} \cup Redefines
    /\ mgPc \in [Migrator -> {"check", "apply", "done", "failed"}]
    /\ mgAt \in [Migrator -> Nat]

MgInit ==
    /\ applied = {} /\ objects = {} /\ vocabulary = 0
    /\ mgPc = [m \in Migrator |-> "check"]
    /\ mgAt = [m \in Migrator |-> 1]

MgGoto(m, label) == mgPc' = [mgPc EXCEPT ![m] = label]

\* migrationApplied: a recorded migration is skipped.
CheckApplied(m) ==
    /\ mgPc[m] = "check" /\ mgAt[m] \in Migration
    /\ IF mgAt[m] \in applied
       THEN mgAt' = [mgAt EXCEPT ![m] = @ + 1] /\ UNCHANGED mgPc
       ELSE MgGoto(m, "apply") /\ UNCHANGED mgAt
    /\ UNCHANGED <<applied, objects, vocabulary>>

\* Mutant: the migration is recorded by a statement of its own, before the DDL.
ApplyRecordsFirst(m) ==
    /\ mgPc[m] = "apply"
    /\ IF mgAt[m] \notin applied
       THEN applied' = applied \cup {mgAt[m]} /\ UNCHANGED <<objects, vocabulary, mgPc, mgAt>>
       ELSE /\ objects' = objects \cup {mgAt[m]}
            /\ vocabulary' = IF mgAt[m] \in Redefines THEN mgAt[m] ELSE vocabulary
            /\ mgAt' = [mgAt EXCEPT ![m] = @ + 1] /\ MgGoto(m, "check")
            /\ UNCHANGED applied

\* applyMigration: the DDL and its record in one transaction, also when another
\* migrator has recorded it since the check.
ApplyMigration(m) ==
    /\ mgPc[m] = "apply"
    /\ objects' = objects \cup {mgAt[m]}
    /\ vocabulary' = IF mgAt[m] \in Redefines THEN mgAt[m] ELSE vocabulary
    /\ applied' = applied \cup {mgAt[m]}
    /\ mgAt' = [mgAt EXCEPT ![m] = @ + 1]
    /\ MgGoto(m, "check")

\* The transaction fails and is rolled back, or the process is killed.
MigrateFails(m) ==
    /\ mgPc[m] \in {"check", "apply"}
    /\ MgGoto(m, "failed")
    /\ UNCHANGED <<applied, objects, vocabulary, mgAt>>

MigrateDone(m) ==
    /\ mgPc[m] = "check" /\ mgAt[m] \notin Migration
    /\ MgGoto(m, "done")
    /\ UNCHANGED <<applied, objects, vocabulary, mgAt>>

\* The command is started again later.
MigrateAgain(m) ==
    /\ mgPc[m] = "failed"
    /\ MgGoto(m, "check")
    /\ mgAt' = [mgAt EXCEPT ![m] = 1]
    /\ UNCHANGED <<applied, objects, vocabulary>>

MgNext ==
    \E m \in Migrator :
        CheckApplied(m) \/ ApplyMigration(m) \/ MigrateFails(m) \/ MigrateDone(m) \/ MigrateAgain(m)

MgSpec == MgInit /\ [][MgNext]_mgVars

-----------------------------------------------------------------------------
(* Properties *)

\* A command that gets past MigrateUp finds every table and column, whoever
\* created them and whichever migrator was killed meanwhile; a recorded
\* migration has taken effect.
DoneIsMigrated ==
    /\ applied \subseteq objects
    /\ \A m \in Migrator : mgPc[m] = "done" => objects = Migration

\* Whoever gets past MigrateUp finds the schema it was built for.
SchemaIsReady == MgTypeOK /\ DoneIsMigrated

\* What the comment in applyMigration takes for granted when it lets the loser
\* of a race commit "the idempotent DDL anyway": once every migrator is through,
\* the constraint is that of the last migration that redefines it.
ConstraintIsNewest ==
    (\A m \in Migrator : mgPc[m] = "done") => \A r \in Redefines : r <= vocabulary
=============================================================================
