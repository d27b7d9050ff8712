------------------------------ MODULE Startup ------------------------------
(***************************************************************************)
(* Starting the program: python -m app.migration_bootstrap, then uvicorn,  *)
(* whose lifespan creates missing tables and adds what older files lack.   *)
(* The process can be killed between any two commits, the server reloads   *)
(* itself when its code changes (--reload, without the bootstrap), a       *)
(* backup of an earlier version can be restored, and the program starts    *)
(* again on whatever file is there.                                        *)
(***************************************************************************)
EXTENDS SchemaHistory

CONSTANTS OldRevisions,   \* revisions of the backups kept from earlier versions
          MaxFaults,      \* bound: processes killed and failed backups
          MaxReloads,     \* bound: application starts without the bootstrap
          MaxRestores     \* bound: backups put back

ASSUME StartupAssumption ==
  /\ OldRevisions \subseteq Revisions
  /\ MaxFaults \in Nat /\ MaxReloads \in Nat /\ MaxRestores \in Nat

VARIABLES db,         \* the database file
          copies,     \* backup files
          phase,      \* where the starting process is
          matched,    \* what the bootstrap recognised
          plan,       \* what it decided
          seen,       \* the file as the bootstrap inspected it
          statement,  \* DDL statements of the running migration already committed
          origin,     \* how the running program came to the file it serves
          faults, reloads, restores

vars == <<db, copies, phase, matched, plan, seen, statement, origin, faults, reloads, restores>>
counters == <<faults, reloads, restores>>

Halted == {"down", "refused", "failed"}
Bootstrap == {"plan", "backup", "stamp", "upgrade"}
Starting == {"tables", "columns", "rows"}
Phases == Halted \cup Bootstrap \cup Starting \cup {"serving"}

Plans == [backup : BOOLEAN, stamp : {Empty} \cup Revisions, upgrade : BOOLEAN]
NoPlan == [backup |-> FALSE, stamp |-> Empty, upgrade |-> FALSE]

TypeOK ==
  /\ db \in Database
  /\ copies \subseteq Database
  /\ phase \in Phases
  /\ matched \in {Unknown, Empty} \cup Revisions
  /\ plan \in Plans
  /\ seen \in Database
  /\ statement \in 0..4
  /\ origin \in {"bootstrap", "application", "restored"}
  /\ faults \in 0..MaxFaults /\ reloads \in 0..MaxReloads /\ restores \in 0..MaxRestores

File(schema, stamp, unnumbered) ==
  [schema |-> schema, stamp |-> stamp, unnumbered |-> unnumbered, blank |-> FALSE]

NoFile == File({}, Empty, FALSE)

\* The bootstrap's process, and what it knew, is gone.
Forget == matched' = Empty /\ plan' = NoPlan /\ seen' = NoFile

\* Files of earlier versions, and unstamped ones that lack an object or have one
\* too many.
InitialFiles ==
  LET stamped == {File(Exact[r], r, FALSE) : r \in {Empty} \cup Revisions}
      unstamped == {File(Exact[r], Empty, FALSE) : r \in Revisions}
      old == {File(Exact[r], r, TRUE) : r \in Baseline..InvoiceFollowup}
      less == {{File(Exact[r] \ {o}, Empty, FALSE) : r \in Revisions} : o \in Recorded}
      more == {{File(Exact[r] \cup {o}, Empty, FALSE) : r \in Revisions} :
                 o \in Recorded \cup {LooseSku, Foreign}}
  IN stamped \cup unstamped \cup old \cup (UNION less) \cup (UNION more)

Init ==
  /\ db \in InitialFiles
  /\ copies \in {{}} \cup {{File(Exact[r], r, FALSE)} : r \in OldRevisions}
  /\ copies # {} => db.stamp # Empty
  /\ phase = "down"
  /\ matched = Empty
  /\ plan = NoPlan
  /\ seen = NoFile
  /\ statement = 0
  /\ origin = "application"
  /\ faults = 0 /\ reloads = 0 /\ restores = 0
-----------------------------------------------------------------------------
(* The bootstrap.                                                          *)

\* What plan_bootstrap decides about the file it recognised.
PlanFor(d, revision) ==
  IF d.stamp # Empty
  THEN [backup |-> d.stamp # HeadRevision /\ d.schema # {}, stamp |-> Empty,
        upgrade |-> d.stamp # HeadRevision]
  ELSE [backup |-> revision # Empty, stamp |-> revision, upgrade |-> revision # HeadRevision]

AfterStamp(p) == IF p.upgrade THEN "upgrade" ELSE "tables"
AfterBackup(p) == IF p.stamp # Empty THEN "stamp" ELSE AfterStamp(p)
AfterPlanUnsaved(p) == AfterBackup(p)
AfterPlan(p) == IF p.backup THEN "backup" ELSE AfterBackup(p)

Inspect ==
  /\ phase \in Halted
  /\ phase' = "plan"
  /\ matched' = Classify(db)
  /\ seen' = db
  /\ statement' = 0
  /\ origin' = "bootstrap"
  /\ UNCHANGED <<db, copies, plan, counters>>

PlanUnchecked ==
  /\ phase = "plan"
  /\ plan' = PlanFor(db, matched)
  /\ phase' = AfterPlan(plan')
  /\ UNCHANGED <<db, copies, matched, seen, statement, origin, counters>>

Plan ==
  /\ phase = "plan"
  /\ matched # Unknown
  /\ plan' = PlanFor(db, matched)
  /\ phase' = AfterPlan(plan')
  /\ UNCHANGED <<db, copies, matched, seen, statement, origin, counters>>

Refuse ==
  /\ phase = "plan"
  /\ matched = Unknown
  /\ phase' = "refused"
  /\ Forget
  /\ UNCHANGED <<db, copies, statement, origin, counters>>

BackUp ==
  /\ phase = "backup"
  /\ copies' = copies \cup {db}
  /\ phase' = AfterBackup(plan)
  /\ UNCHANGED <<db, matched, plan, seen, statement, origin, counters>>

\* The copy does not pass quick_check: it is deleted and the bootstrap ends.
FailBackup ==
  /\ phase = "backup"
  /\ faults < MaxFaults
  /\ faults' = faults + 1
  /\ phase' = "failed"
  /\ Forget
  /\ UNCHANGED <<db, copies, statement, origin, reloads, restores>>

StampFile ==
  /\ phase = "stamp"
  /\ db' = [db EXCEPT !.stamp = plan.stamp]
  /\ phase' = AfterStamp(plan)
  /\ UNCHANGED <<copies, matched, plan, seen, statement, origin, counters>>

Next1 == db.stamp + 1          \* the migration to run
Ddl == Migrations[Next1].ddl

\* One DDL statement before the migration's transaction.
Migrate ==
  /\ phase = "upgrade"
  /\ statement < Len(Ddl)
  /\ ~Clashes(Ddl[statement + 1], db.schema)
  /\ db' = [db EXCEPT !.schema = @ \cup {Ddl[statement + 1]}]
  /\ statement' = statement + 1
  /\ UNCHANGED <<copies, phase, matched, plan, seen, origin, counters>>

\* The transaction: the rest of the migration and the new stamp.
CommitMigration ==
  /\ phase = "upgrade"
  /\ statement = Len(Ddl)
  /\ \A o \in Migrations[Next1].rest : ~Clashes(o, db.schema)
  /\ db' = Finish(db, Next1)
  /\ statement' = 0
  /\ phase' = IF Next1 = HeadRevision THEN "tables" ELSE "upgrade"
  /\ UNCHANGED <<copies, matched, plan, seen, origin, counters>>

Recreates ==
  /\ phase = "upgrade"
  /\ IF statement < Len(Ddl) THEN Clashes(Ddl[statement + 1], db.schema)
     ELSE \E o \in Migrations[Next1].rest : Clashes(o, db.schema)

\* The migration creates what exists: an error, the transaction is rolled back.
FailMigration ==
  /\ Recreates
  /\ phase' = "failed"
  /\ statement' = 0
  /\ Forget
  /\ UNCHANGED <<db, copies, origin, counters>>
-----------------------------------------------------------------------------
(* The application's own start.                                            *)

CreateTables ==
  /\ phase = "tables"
  /\ db' = [db EXCEPT !.schema = CreateAll(@)]
  /\ phase' = "columns"
  /\ Forget
  /\ UNCHANGED <<copies, statement, origin, counters>>

AddMissingColumns ==
  /\ phase = "columns"
  /\ db' = AddColumns(db)
  /\ phase' = "rows"
  /\ UNCHANGED <<copies, matched, plan, seen, statement, origin, counters>>

Serve ==
  /\ phase = "rows"
  /\ db' = CompleteColumns(db)
  /\ phase' = "serving"
  /\ UNCHANGED <<copies, matched, plan, seen, statement, origin, counters>>

\* uvicorn alone: started by hand, or reloading itself.
StartWithoutBootstrap ==
  /\ phase \in Halted \cup {"serving"}
  /\ reloads < MaxReloads
  /\ reloads' = reloads + 1
  /\ phase' = "tables"
  /\ origin' = "application"
  /\ UNCHANGED <<db, copies, matched, plan, seen, statement, faults, restores>>
-----------------------------------------------------------------------------
(* Use, and what happens to the process and the file.                      *)

\* The first sale stores the sequence; changing the language stores every default.
StoreSettings ==
  /\ phase = "serving"
  /\ \E some \in {{<<"setting", SaleDocument, 1>>}, Settings} :
       db' = [db EXCEPT !.schema = @ \cup some]
  /\ UNCHANGED <<copies, phase, matched, plan, seen, statement, origin, counters>>

Stop ==
  /\ phase = "serving"
  /\ phase' = "down"
  /\ UNCHANGED <<db, copies, matched, plan, seen, statement, origin, counters>>

\* What was not committed is gone; every action above is one commit.
Crash ==
  /\ phase \notin Halted
  /\ faults < MaxFaults
  /\ faults' = faults + 1
  /\ phase' = "down"
  /\ statement' = 0
  /\ Forget
  /\ UNCHANGED <<db, copies, origin, reloads, restores>>

\* Through the page while serving, or by hand while nothing runs.
Restore ==
  /\ phase \in Halted \cup {"serving"}
  /\ restores < MaxRestores
  /\ restores' = restores + 1
  /\ db' \in copies
  /\ origin' = "restored"
  /\ UNCHANGED <<copies, phase, matched, plan, seen, statement, faults, reloads>>

BootstrapStep == Inspect \/ Plan \/ Refuse \/ BackUp \/ StampFile \/ Migrate \/ CommitMigration
                 \/ FailMigration
StartStep == CreateTables \/ AddMissingColumns \/ Serve

Next == BootstrapStep \/ StartStep \/ FailBackup \/ StartWithoutBootstrap \/ StoreSettings
        \/ Stop \/ Crash \/ Restore

\* docker-compose restarts a program that ended, and the program runs to its end.
Fairness == WF_vars(BootstrapStep) /\ WF_vars(StartStep)

Spec == Init /\ [][Next]_vars /\ Fairness
-----------------------------------------------------------------------------
(* The stamp is what alembic trusts: no object of a revision up to the     *)
(* stamp is missing from the file, and no sale the numbering revision was  *)
(* to number is left without one, after any crash, reload and restore      *)
(* (classify_schema before command.stamp; the stamp of a migration is      *)
(* committed with its last statements).                                    *)
StampKept ==
  /\ Exact[db.stamp] \subseteq db.schema
  /\ db.stamp >= SaleDocument => ~db.unnumbered

(* Before the bootstrap changes a file with tables it keeps a checked copy *)
(* of it as it was (create_sqlite_backup, run_bootstrap); a refusal        *)
(* changes nothing.                                                        *)
ChangesAreBackedUp ==
  phase \in Bootstrap /\ db # seen => seen.schema = {} \/ seen \in copies

\* A file is recognised as one revision's, its stamp agrees when it has one, and no
\* rebuild of the next revision was cut off in it.
ConsistentAs(d, revision) ==
  /\ revision # Unknown
  /\ d.stamp \in {Empty, revision}
  /\ d.stamp < HeadRevision => Leftover(d.stamp + 1) \notin d.schema

\* The file this run of the bootstrap inspected is.
Consistent == ConsistentAs(seen, matched)

(* No migration of a run that found a consistent file meets an object it   *)
(* is about to create, neither in a file stamped before nor in one the     *)
(* bootstrap stamped itself (_future_revision_evidence).                   *)
ConsistentUpgradeRuns == phase = "upgrade" /\ Consistent => ~Recreates

(* A start that found a consistent file, and is killed between two          *)
(* migrations or later, leaves a file the next start finds consistent: what *)
(* the migrations make is what the classification asks for                  *)
(* (classify_schema, the migrations).                                       *)
KillLeavesConsistent ==
  LET between == phase \in Bootstrap /\ Consistent /\ statement = 0
      upgraded == phase \in Starting \cup {"serving"} /\ origin = "bootstrap"
  IN  between \/ upgraded => ConsistentAs(db, Classify(db))

Complete(d) ==
  /\ Exact[HeadRevision] \subseteq d.schema
  /\ LooseSku \notin d.schema
  /\ d.stamp = HeadRevision
  /\ ~d.unnumbered /\ ~d.blank

(* A program that came through the bootstrap serves a complete file at the *)
(* head revision, and however it was started, no row lacks a value of a    *)
(* column the compatibility pass added (_backfill_sales_compatibility_...  *)
(* finds the rows a killed start left).                                    *)
ServesComplete ==
  phase = "serving" => /\ origin = "bootstrap" => Complete(db)
                       /\ origin # "restored" => ~db.blank

(* docs/Database.md:58: "already stamped database: run normal Alembic      *)
(* upgrade to head": a file that holds exactly what the migrations up to   *)
(* its stamp made is not refused.                                          *)
StampedIsNotRefused == phase = "refused" => db.schema # Exact[db.stamp]

(* A file that matches a revision, and its stamp when it has one, comes to *)
(* be served, whatever is killed between the steps (classify_schema,       *)
(* plan_bootstrap, run_bootstrap); only a process killed inside a          *)
(* migration, or an application started without the bootstrap, leaves a    *)
(* file that is no longer consistent at the next inspection.               *)
ConsistentIsServed ==
  phase = "plan" /\ Consistent ~> phase = "serving" \/ (phase = "plan" /\ ~Consistent)
=============================================================================
