---------------------------- MODULE TenantRegistry ----------------------------
(***************************************************************************)
(* The registration of one tenant.  Its schema, its row in public.tenant   *)
(* and its tables are created by separate statements that no transaction   *)
(* holds together, by POST /api/tenant, by the seed-database script and by *)
(* the migrate-tenants script, while DELETE /api/tenant/:name deactivates  *)
(* it.  Every process of these four kinds runs once and may stop anywhere. *)
(***************************************************************************)
CONSTANTS
  Creates,      \* CreateTenantHandler.execute
  Deactivates,  \* DeactivateTenantHandler.execute
  Seeds,        \* seed-database.ts, ensureTenantSchemaAndRegistry
  Migrates      \* migrate-tenants.ts

ASSUME KindsAssumption ==
  /\ Creates \cap Deactivates = {}
  /\ Creates \cap Seeds = {}
  /\ Creates \cap Migrates = {}
  /\ Deactivates \cap Seeds = {}
  /\ Deactivates \cap Migrates = {}
  /\ Seeds \cap Migrates = {}

VARIABLES
  schema,   \* the tenant's schema exists
  row,      \* its row in the registry
  tables,   \* the tenant migrations have run in its schema
  pc        \* where each process is

vars == <<schema, row, tables, pc>>

Migrators == Creates \cup Seeds \cup Migrates
Processes == Migrators \cup Deactivates

Over == {"done", "conflict", "failed"}

Init ==
  /\ schema = FALSE
  /\ row = "absent"
  /\ tables = FALSE
  /\ pc = [p \in Processes |-> "idle"]

Goto(p, from, to) == pc[p] = from /\ pc' = [pc EXCEPT ![p] = to]

(***************************************************************************)
(* Steps of a creation.                                                    *)
(***************************************************************************)
\* "already registered": the test is on the schema, not on the registry.
CheckTenant(p) ==
  /\ p \in Creates
  /\ Goto(p, "idle", IF schema THEN "conflict" ELSE "checked")
  /\ UNCHANGED <<schema, row, tables>>

\* Faulty variant: CREATE SCHEMA IF NOT EXISTS.
CreateSchemaIfNotExists(p) ==
  /\ Goto(p, "checked", "created")
  /\ schema' = TRUE
  /\ UNCHANGED <<row, tables>>

\* The database refuses a second schema of that name.
CreateSchema(p) ==
  /\ Goto(p, "checked", "created")
  /\ ~schema
  /\ schema' = TRUE
  /\ UNCHANGED <<row, tables>>

\* Faulty variant: the row is inserted beside CREATE SCHEMA, not after it.
RegisterTenantEarly(p) ==
  /\ p \in Creates
  /\ pc[p] \in {"checked", "created"}
  /\ pc' = [pc EXCEPT ![p] = "registered"]
  /\ row = "absent"
  /\ row' = "active"
  /\ UNCHANGED <<schema, tables>>

\* tenant.name is unique.
NameFree == row = "absent"

\* The row is inserted.
RegisterTenant(p) ==
  /\ p \in Creates
  /\ Goto(p, "created", "registered")
  /\ NameFree
  /\ row' = "active"
  /\ UNCHANGED <<schema, tables>>

(***************************************************************************)
(* migrator.up(), in one transaction: what is pending is read first.       *)
(***************************************************************************)
BeforeMigration(p) == IF p \in Creates THEN "registered" ELSE "created"
AfterMigration(p)  == IF p \in Seeds THEN "migrated" ELSE "done"

PlanMigration(p) ==
  /\ p \in Migrators
  /\ Goto(p, BeforeMigration(p), IF tables THEN AfterMigration(p) ELSE "planned")
  /\ UNCHANGED <<schema, row, tables>>

\* Faulty variant: nobody waits for the migrator.
ApplyMigrationUnawaited(p) ==
  /\ Goto(p, "planned", AfterMigration(p))
  /\ UNCHANGED <<schema, row, tables>>

\* CREATE TABLE fails if somebody else was faster.
ApplyMigration(p) ==
  /\ Goto(p, "planned", AfterMigration(p))
  /\ ~tables
  /\ tables' = TRUE
  /\ UNCHANGED <<schema, row>>

(***************************************************************************)
(* The scripts.                                                            *)
(***************************************************************************)
\* Faulty variant: a schema that exists is taken for a finished tenant.
CheckSeedFinished(p) ==
  /\ p \in Seeds
  /\ Goto(p, "idle", IF schema THEN "done" ELSE "checked")
  /\ UNCHANGED <<schema, row, tables>>

\* The schema is created unless it exists.
CheckSeed(p) ==
  /\ p \in Seeds
  /\ Goto(p, "idle", IF schema THEN "created" ELSE "checked")
  /\ UNCHANGED <<schema, row, tables>>

\* Faulty variant: the registry is looked up before the migrations.
FindTenantEarly(p) ==
  /\ p \in Seeds
  /\ pc[p] \in {"created", "migrated"}
  /\ pc' = [pc EXCEPT ![p] = IF row = "absent" THEN "missing" ELSE "done"]
  /\ UNCHANGED <<schema, row, tables>>

\* The registry is looked up ...
FindTenant(p) ==
  /\ Goto(p, "migrated", IF row = "absent" THEN "missing" ELSE "done")
  /\ UNCHANGED <<schema, row, tables>>

\* Faulty variant: the row is upserted.
SeedTenantUpsert(p) ==
  /\ Goto(p, "missing", "done")
  /\ row' = "active"
  /\ UNCHANGED <<schema, tables>>

\* Faulty variant: nobody waits for the insert.
SeedTenantUnawaited(p) ==
  /\ Goto(p, "missing", "done")
  /\ UNCHANGED <<schema, row, tables>>

\* ... and the row inserted if it was not there.
SeedTenant(p) ==
  /\ Goto(p, "missing", "done")
  /\ NameFree
  /\ row' = "active"
  /\ UNCHANGED <<schema, tables>>

\* migrate-tenants takes every schema there is, registered or not.
ListSchemas(p) ==
  /\ p \in Migrates
  /\ Goto(p, "idle", IF schema THEN "created" ELSE "done")
  /\ UNCHANGED <<schema, row, tables>>

(***************************************************************************)
(* Deactivation, and errors.                                               *)
(***************************************************************************)
\* Without a row the request answers 404.
LoadTenant(p) ==
  /\ p \in Deactivates
  /\ row # "absent"
  /\ Goto(p, "idle", "loaded")
  /\ UNCHANGED <<schema, row, tables>>

\* Faulty variant: the column is set to null.
DeactivateTenantNull(p) ==
  /\ Goto(p, "loaded", "done")
  /\ row' = "null"
  /\ UNCHANGED <<schema, tables>>

DeactivateTenant(p) ==
  /\ Goto(p, "loaded", "done")
  /\ row' = "inactive"
  /\ UNCHANGED <<schema, tables>>

\* A statement fails (on a constraint, on a table that exists, on a lost
\* connection, or after it took effect) or the process dies.  Nothing is
\* rolled back.
Abort(p) ==
  /\ pc[p] \notin Over
  /\ pc' = [pc EXCEPT ![p] = "failed"]
  /\ UNCHANGED <<schema, row, tables>>

Next == \E p \in Processes :
  \/ CheckTenant(p)
  \/ CreateSchema(p)
  \/ RegisterTenant(p)
  \/ PlanMigration(p)
  \/ ApplyMigration(p)
  \/ CheckSeed(p)
  \/ FindTenant(p)
  \/ SeedTenant(p)
  \/ ListSchemas(p)
  \/ LoadTenant(p)
  \/ DeactivateTenant(p)
  \/ Abort(p)

Spec == Init /\ [][Next]_vars

(***************************************************************************)
(* Properties.                                                             *)
(***************************************************************************)
\* The values the database and the processes can hold.
TypeOK ==
  /\ schema \in BOOLEAN
  /\ row \in {"absent", "active", "inactive"}
  /\ tables \in BOOLEAN
  /\ pc \in [Processes -> {"idle", "checked", "created", "registered", "planned",
                           "migrated", "missing", "loaded"} \cup Over]

\* A registered tenant, and one with tables, has a schema: no order of the
\* statements of all these processes registers a name that is not there.
RegisteredHasSchema == row # "absent" \/ tables => schema

\* Two creations of one tenant can both find the name free, but only one of
\* them gets past CREATE SCHEMA (create-tenant.command.ts:44): they never
\* register or migrate side by side.
OneCreatorInside ==
  \A p, q \in Creates :
    /\ pc[p] \in {"created", "registered", "planned", "done"}
    /\ pc[q] \in {"created", "registered", "planned", "done"}
    => p = q

\* "Tenant created and migrated successfully" (tenant.controller.ts:36) is
\* true, whatever the scripts did meanwhile.
CreatedIsUsable ==
  \A p \in Creates : pc[p] = "done" => row # "absent" /\ tables

\* The seed script leaves a complete tenant behind, also when it finds one
\* that an interrupted creation left half done.
SeedRepairs ==
  \A p \in Seeds : pc[p] = "done" => row # "absent" /\ tables

\* A tenant that the middleware admits (or that is deactivated) without having
\* tables is the trace of one creation that is between its insert and its
\* migration, or that failed there (create-tenant.command.ts:52): no script
\* leaves such a tenant.
UnmigratedIsUnfinished ==
  row # "absent" /\ ~tables =>
    \E p \in Creates : pc[p] \in {"registered", "planned", "failed"}

\* A schema that nobody registered is the trace of one creation or seed run
\* that is between CREATE SCHEMA and its insert, or that failed
\* (create-tenant.command.ts:44-52, seed-database.ts:38-57).
UnregisteredIsUnfinished ==
  schema /\ row = "absent" =>
    \E p \in Creates \cup Seeds :
      pc[p] \in {"created", "planned", "migrated", "missing", "failed"}

\* Whatever is half made - a schema without a row, a row without tables - is
\* somebody's unfinished work; a row without a schema, or tables without one,
\* is never there.
HalfMadeIsUnfinished ==
  /\ RegisteredHasSchema
  /\ UnregisteredIsUnfinished
  /\ UnmigratedIsUnfinished

\* The row keeps the contract of TenantRow, whichever processes write it: no
\* late insert of a creation or of the seed script makes a deactivated tenant
\* active again.
Row == INSTANCE TenantRow

ImplementsTenantRow == Row!Spec

\* create-tenant.command.ts:40 answers a conflict with "already registered".
\* (Asked when nothing is in flight any more.)
ConflictMeansRegistered ==
  /\ \E p \in Creates : pc[p] = "conflict"
  /\ \A p \in Processes : pc[p] \in Over \cup {"idle"}
  => row # "absent"
=============================================================================
