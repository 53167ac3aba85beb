------------------------------- MODULE Schema -------------------------------
(***************************************************************************)
(* How the schema comes about.  Two ways build it: Alembic, whose          *)
(* revisions 0001 and 0002 run in one transaction together with the update *)
(* of alembic_version, and create_all, which every start of the app calls  *)
(* and which creates the tables that are missing, as the models declare    *)
(* them, without a word to Alembic.  Commands run side by side: each first *)
(* reads what is there, then changes it, and the second to change it waits *)
(* for the first and then fails on what it finds.                          *)
(***************************************************************************)
EXTENDS Integers, FiniteSets

CONSTANT Procs   \* shells and containers that run one command at a time

VARIABLES
  catalog,     \* the tables, columns and constraints that exist
  version,     \* the revision alembic_version names, 0 for none
  downgraded,  \* history: a downgrade has been run
  command,     \* what each process runs
  stage,       \* and how far it got
  seen,        \* the revision it read
  missing      \* the tables it looked for in vain

schemaVars == <<catalog, version, downgraded, command, stage, seen, missing>>

BaseTables    == {"wallets", "transactions", "processed_requests"}
RefundObjects == {"original_transaction_id", "reason",
                  "fk_original_transaction_id", "uq_original_transaction_id"}
Newest == BaseTables \cup RefundObjects   \* what the models declare
Head   == 2

\* Mutant: 0002 leaves a column behind.
Drops_KeepsReason(v) ==
  IF v = 1 THEN BaseTables ELSE RefundObjects \ {"reason"}

\* What the upgrade to revision v adds, and what the downgrade from it drops.
Adds(v)  == IF v = 1 THEN BaseTables ELSE RefundObjects
Drops(v) == IF v = 1 THEN BaseTables ELSE RefundObjects

Built(v) == UNION {Adds(u) : u \in 1 .. v}

\* A fresh database, or one that the release before refunds migrated.
SchemaInit ==
  /\ version \in 0 .. 1 /\ catalog = Built(version)
  /\ downgraded = FALSE
  /\ command = [p \in Procs |-> "none"]
  /\ stage   = [p \in Procs |-> "idle"]
  /\ seen    = [p \in Procs |-> 0]
  /\ missing = [p \in Procs |-> {}]

Enter(p, next) == stage' = [stage EXCEPT ![p] = next]
Leaves(p)      == command' = [command EXCEPT ![p] = "none"] /\ Enter(p, "idle")

\* `alembic upgrade head` (make migrate), the same followed by gunicorn (the
\* container) or by the app (startup.sh), the app alone (make run, make test),
\* and `alembic downgrade -1`.
Start(p, cmd) ==
  /\ stage[p] = "idle"
  /\ command' = [command EXCEPT ![p] = cmd]
  /\ Enter(p, IF cmd = "run" THEN "check" ELSE "version")
  /\ UNCHANGED <<catalog, version, downgraded, seen, missing>>

ReadVersion(p) ==
  /\ stage[p] = "version"
  /\ seen' = [seen EXCEPT ![p] = version]
  /\ Enter(p, IF command[p] = "downgrade" THEN "downgrade" ELSE "upgrade")
  /\ UNCHANGED <<catalog, version, downgraded, command, missing>>

\* What an upgrade from revision v adds: CREATE and ADD fail on what exists,
\* ALTER on a missing table, and the update of alembic_version on a revision
\* that is no longer the one that was read.
Pending(v)  == UNION {Adds(u) : u \in v + 1 .. Head}
Upgrades(v) == /\ catalog \cap Pending(v) = {}
               /\ v > 0 /\ v < Head => BaseTables \subseteq catalog /\ version = v

\* Mutant: the revision is not recorded.
RecordVersion_Forgotten(v) == version' = version /\ v \in 0 .. Head

RecordVersion(v) == version' = v

\* `&&`: the container serves only after an upgrade that went well.
Upgrade(p) ==
  /\ stage[p] = "upgrade"
  /\ IF Upgrades(seen[p])
     THEN /\ catalog' = catalog \cup Pending(seen[p])
          /\ IF seen[p] < Head THEN RecordVersion(Head) ELSE UNCHANGED version
          /\ IF command[p] = "boot" THEN Enter(p, "check") /\ UNCHANGED command
                                    ELSE Leaves(p)
     ELSE Enter(p, "failed") /\ UNCHANGED <<catalog, version, command>>
  /\ UNCHANGED <<downgraded, seen, missing>>

Downgrade(p) ==
  /\ stage[p] = "downgrade"
  /\ IF seen[p] > 0 /\ version = seen[p]
     THEN /\ catalog' = catalog \ Drops(seen[p])
          /\ RecordVersion(seen[p] - 1)
          /\ downgraded' = TRUE /\ Leaves(p)
     ELSE Enter(p, "failed") /\ UNCHANGED <<catalog, version, downgraded, command>>
  /\ UNCHANGED <<seen, missing>>

\* create_all looks for each table first.
CheckTables(p) ==
  /\ stage[p] = "check"
  /\ missing' = [missing EXCEPT ![p] = BaseTables \ catalog]
  /\ Enter(p, "create")
  /\ UNCHANGED <<catalog, version, downgraded, command, seen>>

\* Mutant: the models' refund columns are left to Alembic.
Declared_BaseOnly(tables) == tables

\* The tables as the models declare them.
Declared(tables) ==
  tables \cup IF "transactions" \in tables THEN RefundObjects ELSE {}

\* Then it creates those it missed; a table that has appeared since is an error
\* and the app does not start.  Columns of existing tables are left alone.
CreateMissing(p) ==
  /\ stage[p] = "create"
  /\ IF missing[p] \cap catalog = {}
     THEN catalog' = catalog \cup Declared(missing[p]) /\ Enter(p, "serving")
     ELSE Enter(p, "failed") /\ UNCHANGED catalog
  /\ UNCHANGED <<version, downgraded, command, seen, missing>>

\* The app is stopped, or the operator has read the error.
Stop(p) ==
  /\ stage[p] \in {"serving", "failed"} /\ Leaves(p)
  /\ UNCHANGED <<catalog, version, downgraded, seen, missing>>

SchemaNext ==
  \E p \in Procs :
    \/ \E cmd \in {"migrate", "boot", "run", "downgrade"} : Start(p, cmd)
    \/ ReadVersion(p) \/ Upgrade(p) \/ Downgrade(p)
    \/ CheckTables(p) \/ CreateMissing(p) \/ Stop(p)

SchemaSpec == SchemaInit /\ [][SchemaNext]_schemaVars

-----------------------------------------------------------------------------
(* Properties.                                                             *)

\* Built by create_all, so that Alembic knows nothing of it.
Unversioned == version = 0 /\ catalog # {}

\* Whatever commands race, the schema is a whole one: exactly what the recorded
\* revision stands for, or, unversioned, what the models declare, with the
\* unique constraint that keeps a transaction from being refunded twice.
SchemaIsWhole == catalog = Built(version) \/ (Unversioned /\ catalog = Newest)

\* The app serves on the newest schema, as it must to write at all, unless it
\* was started by hand on a database that still waits for 0002: create_all adds
\* no column to a table that exists.  A container never does.
ServesNewest ==
  \A p \in Procs :
    stage[p] = "serving" /\ ~downgraded
      => catalog = Newest \/ (command[p] = "run" /\ version = 1)

\* An upgrade fails only on tables that create_all built, or because another
\* command changed the revision it had read; never on what it built itself.
UpgradesFailForCause ==
  [][\A p \in Procs : stage[p] = "upgrade" /\ stage'[p] = "failed"
       => Unversioned \/ version # seen[p]]_schemaVars

\* "Warm the schema on boot, then serve with gunicorn" (Dockerfile:15), "migrates
\* on boot" (README.md:78): alone on its database, a container serves.
BootServes ==
  \A p \in Procs : command[p] = "boot" => stage[p] # "failed"
=============================================================================
