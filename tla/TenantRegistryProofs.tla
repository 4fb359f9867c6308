------------------------- MODULE TenantRegistryProofs -------------------------
(***************************************************************************)
(* Proofs about TenantRegistry, for any number of creations, deactivations *)
(* and script runs.                                                        *)
(***************************************************************************)
EXTENDS TenantRegistry, TLAPS

\* A process that is past the creation of the schema has one.
InsideHasSchema ==
  \A p \in Processes :
    pc[p] \in {"created", "registered", "planned", "migrated", "missing"} => schema

\* A creation that is past its insert has a row.
CreatorHasRow ==
  \A p \in Creates :
    pc[p] \in {"registered", "planned", "done"} => row # "absent"

\* Only a seed run looks the row up after its migration, and has tables.
MigratedHasTables ==
  \A p \in Processes :
    pc[p] \in {"migrated", "missing"} => p \in Seeds /\ tables

\* Only a deactivation loads the row, and finds one.
LoadedHasRow ==
  \A p \in Processes : pc[p] = "loaded" => p \in Deactivates /\ row # "absent"

\* The inductive invariant.
IInv ==
  /\ TypeOK
  /\ RegisteredHasSchema
  /\ OneCreatorInside
  /\ CreatedIsUsable
  /\ SeedRepairs
  /\ InsideHasSchema
  /\ CreatorHasRow
  /\ MigratedHasTables
  /\ LoadedHasRow

LEMMA InitIInv == Init => IInv
BY DEF Init, IInv, TypeOK, RegisteredHasSchema, OneCreatorInside, CreatedIsUsable,
       SeedRepairs, InsideHasSchema, CreatorHasRow, MigratedHasTables,
       LoadedHasRow, Processes, Migrators, Over

\* Every step of a process keeps the invariant: one case per action, and
\* under it one step per conjunct.
LEMMA StepIInv ==
  ASSUME IInv, NEW p \in Processes,
         \/ CheckTenant(p)
         \/ CreateSchema(p)
         \/ RegisterTenant(p)
         \/ PlanMigration(p)
         \/ ApplyMigration(p)
         \/ CheckSeed(p)
         \/ FindTenant(p)
         \/ SeedTenant(p)
         \/ ListSchemas(p)
         \/ LoadTenant(p)
         \/ DeactivateTenant(p)
         \/ Abort(p)
  PROVE  IInv'
<1> USE KindsAssumption DEF Goto, Over, Processes, Migrators, NameFree
<1>1. CASE CheckTenant(p)
  <2>1. TypeOK'
    BY <1>1 DEF IInv, TypeOK, CheckTenant
  <2>2. RegisteredHasSchema'
    BY <1>1 DEF IInv, TypeOK, RegisteredHasSchema, InsideHasSchema,
          LoadedHasRow, CheckTenant
  <2>3. OneCreatorInside'
    BY <1>1 DEF IInv, TypeOK, OneCreatorInside, InsideHasSchema,
          RegisteredHasSchema, CreatorHasRow, MigratedHasTables,
          LoadedHasRow, CheckTenant
  <2>4. CreatedIsUsable'
    BY <1>1 DEF IInv, TypeOK, CreatedIsUsable, CreatorHasRow,
          MigratedHasTables, LoadedHasRow, CheckTenant
  <2>5. SeedRepairs'
    BY <1>1 DEF IInv, TypeOK, SeedRepairs, MigratedHasTables, LoadedHasRow,
          CheckTenant
  <2>6. InsideHasSchema'
    BY <1>1 DEF IInv, TypeOK, InsideHasSchema, RegisteredHasSchema,
          CheckTenant
  <2>7. CreatorHasRow'
    BY <1>1 DEF IInv, TypeOK, CreatorHasRow, LoadedHasRow, CheckTenant
  <2>8. MigratedHasTables'
    BY <1>1 DEF IInv, TypeOK, MigratedHasTables, CheckTenant
  <2>9. LoadedHasRow'
    BY <1>1 DEF IInv, TypeOK, LoadedHasRow, CheckTenant
  <2> QED  BY <2>1, <2>2, <2>3, <2>4, <2>5, <2>6, <2>7, <2>8, <2>9 DEF IInv
<1>2. CASE CreateSchema(p)
  <2>1. TypeOK'
    BY <1>2 DEF IInv, TypeOK, CreateSchema
  <2>2. RegisteredHasSchema'
    BY <1>2 DEF IInv, TypeOK, RegisteredHasSchema, InsideHasSchema,
          LoadedHasRow, CreateSchema
  <2>3. OneCreatorInside'
    BY <1>2 DEF IInv, TypeOK, OneCreatorInside, InsideHasSchema,
          RegisteredHasSchema, CreatorHasRow, MigratedHasTables,
          LoadedHasRow, CreateSchema
  <2>4. CreatedIsUsable'
    BY <1>2 DEF IInv, TypeOK, CreatedIsUsable, CreatorHasRow,
          MigratedHasTables, LoadedHasRow, CreateSchema
  <2>5. SeedRepairs'
    BY <1>2 DEF IInv, TypeOK, SeedRepairs, MigratedHasTables, LoadedHasRow,
          CreateSchema
  <2>6. InsideHasSchema'
    BY <1>2 DEF IInv, TypeOK, InsideHasSchema, RegisteredHasSchema,
          CreateSchema
  <2>7. CreatorHasRow'
    BY <1>2 DEF IInv, TypeOK, CreatorHasRow, LoadedHasRow, CreateSchema
  <2>8. MigratedHasTables'
    BY <1>2 DEF IInv, TypeOK, MigratedHasTables, CreateSchema
  <2>9. LoadedHasRow'
    BY <1>2 DEF IInv, TypeOK, LoadedHasRow, CreateSchema
  <2> QED  BY <2>1, <2>2, <2>3, <2>4, <2>5, <2>6, <2>7, <2>8, <2>9 DEF IInv
<1>3. CASE RegisterTenant(p)
  <2>1. TypeOK'
    BY <1>3 DEF IInv, TypeOK, RegisterTenant
  <2>2. RegisteredHasSchema'
    BY <1>3 DEF IInv, TypeOK, RegisteredHasSchema, InsideHasSchema,
          LoadedHasRow, RegisterTenant
  <2>3. OneCreatorInside'
    BY <1>3 DEF IInv, TypeOK, OneCreatorInside, InsideHasSchema,
          RegisteredHasSchema, CreatorHasRow, MigratedHasTables,
          LoadedHasRow, RegisterTenant
  <2>4. CreatedIsUsable'
    BY <1>3 DEF IInv, TypeOK, CreatedIsUsable, CreatorHasRow,
          MigratedHasTables, LoadedHasRow, RegisterTenant
  <2>5. SeedRepairs'
    BY <1>3 DEF IInv, TypeOK, SeedRepairs, MigratedHasTables, LoadedHasRow,
          RegisterTenant
  <2>6. InsideHasSchema'
    BY <1>3 DEF IInv, TypeOK, InsideHasSchema, RegisteredHasSchema,
          RegisterTenant
  <2>7. CreatorHasRow'
    BY <1>3 DEF IInv, TypeOK, CreatorHasRow, LoadedHasRow, RegisterTenant
  <2>8. MigratedHasTables'
    BY <1>3 DEF IInv, TypeOK, MigratedHasTables, RegisterTenant
  <2>9. LoadedHasRow'
    BY <1>3 DEF IInv, TypeOK, LoadedHasRow, RegisterTenant
  <2> QED  BY <2>1, <2>2, <2>3, <2>4, <2>5, <2>6, <2>7, <2>8, <2>9 DEF IInv
<1>4. CASE PlanMigration(p)
  <2>1. TypeOK'
    BY <1>4 DEF IInv, TypeOK, PlanMigration, BeforeMigration, AfterMigration
  <2>2. RegisteredHasSchema'
    BY <1>4 DEF IInv, TypeOK, RegisteredHasSchema, InsideHasSchema,
          LoadedHasRow, PlanMigration, BeforeMigration, AfterMigration
  <2>3. OneCreatorInside'
    BY <1>4 DEF IInv, TypeOK, OneCreatorInside, InsideHasSchema,
          RegisteredHasSchema, CreatorHasRow, MigratedHasTables,
          LoadedHasRow, PlanMigration, BeforeMigration, AfterMigration
  <2>4. CreatedIsUsable'
    BY <1>4 DEF IInv, TypeOK, CreatedIsUsable, CreatorHasRow,
          MigratedHasTables, LoadedHasRow, PlanMigration, BeforeMigration,
          AfterMigration
  <2>5. SeedRepairs'
    BY <1>4 DEF IInv, TypeOK, SeedRepairs, MigratedHasTables, LoadedHasRow,
          PlanMigration, BeforeMigration, AfterMigration
  <2>6. InsideHasSchema'
    BY <1>4 DEF IInv, TypeOK, InsideHasSchema, RegisteredHasSchema,
          PlanMigration, BeforeMigration, AfterMigration
  <2>7. CreatorHasRow'
    BY <1>4 DEF IInv, TypeOK, CreatorHasRow, LoadedHasRow, PlanMigration,
          BeforeMigration, AfterMigration
  <2>8. MigratedHasTables'
    BY <1>4 DEF IInv, TypeOK, MigratedHasTables, PlanMigration,
          BeforeMigration, AfterMigration
  <2>9. LoadedHasRow'
    BY <1>4 DEF IInv, TypeOK, LoadedHasRow, PlanMigration, BeforeMigration,
          AfterMigration
  <2> QED  BY <2>1, <2>2, <2>3, <2>4, <2>5, <2>6, <2>7, <2>8, <2>9 DEF IInv
<1>5. CASE ApplyMigration(p)
  <2>1. TypeOK'
    BY <1>5 DEF IInv, TypeOK, ApplyMigration, AfterMigration
  <2>2. RegisteredHasSchema'
    BY <1>5 DEF IInv, TypeOK, RegisteredHasSchema, InsideHasSchema,
          LoadedHasRow, ApplyMigration, AfterMigration
  <2>3. OneCreatorInside'
    BY <1>5 DEF IInv, TypeOK, OneCreatorInside, InsideHasSchema,
          RegisteredHasSchema, CreatorHasRow, MigratedHasTables,
          LoadedHasRow, ApplyMigration, AfterMigration
  <2>4. CreatedIsUsable'
    BY <1>5 DEF IInv, TypeOK, CreatedIsUsable, CreatorHasRow,
          MigratedHasTables, LoadedHasRow, ApplyMigration, AfterMigration
  <2>5. SeedRepairs'
    BY <1>5 DEF IInv, TypeOK, SeedRepairs, MigratedHasTables, LoadedHasRow,
          ApplyMigration, AfterMigration
  <2>6. InsideHasSchema'
    BY <1>5 DEF IInv, TypeOK, InsideHasSchema, RegisteredHasSchema,
          ApplyMigration, AfterMigration
  <2>7. CreatorHasRow'
    BY <1>5 DEF IInv, TypeOK, CreatorHasRow, LoadedHasRow, ApplyMigration,
          AfterMigration
  <2>8. MigratedHasTables'
    BY <1>5 DEF IInv, TypeOK, MigratedHasTables, ApplyMigration,
          AfterMigration
  <2>9. LoadedHasRow'
    BY <1>5 DEF IInv, TypeOK, LoadedHasRow, ApplyMigration, AfterMigration
  <2> QED  BY <2>1, <2>2, <2>3, <2>4, <2>5, <2>6, <2>7, <2>8, <2>9 DEF IInv
<1>6. CASE CheckSeed(p)
  <2>1. TypeOK'
    BY <1>6 DEF IInv, TypeOK, CheckSeed
  <2>2. RegisteredHasSchema'
    BY <1>6 DEF IInv, TypeOK, RegisteredHasSchema, InsideHasSchema,
          LoadedHasRow, CheckSeed
  <2>3. OneCreatorInside'
    BY <1>6 DEF IInv, TypeOK, OneCreatorInside, InsideHasSchema,
          RegisteredHasSchema, CreatorHasRow, MigratedHasTables,
          LoadedHasRow, CheckSeed
  <2>4. CreatedIsUsable'
    BY <1>6 DEF IInv, TypeOK, CreatedIsUsable, CreatorHasRow,
          MigratedHasTables, LoadedHasRow, CheckSeed
  <2>5. SeedRepairs'
    BY <1>6 DEF IInv, TypeOK, SeedRepairs, MigratedHasTables, LoadedHasRow,
          CheckSeed
  <2>6. InsideHasSchema'
    BY <1>6 DEF IInv, TypeOK, InsideHasSchema, RegisteredHasSchema,
          CheckSeed
  <2>7. CreatorHasRow'
    BY <1>6 DEF IInv, TypeOK, CreatorHasRow, LoadedHasRow, CheckSeed
  <2>8. MigratedHasTables'
    BY <1>6 DEF IInv, TypeOK, MigratedHasTables, CheckSeed
  <2>9. LoadedHasRow'
    BY <1>6 DEF IInv, TypeOK, LoadedHasRow, CheckSeed
  <2> QED  BY <2>1, <2>2, <2>3, <2>4, <2>5, <2>6, <2>7, <2>8, <2>9 DEF IInv
<1>7. CASE FindTenant(p)
  <2>1. TypeOK'
    BY <1>7 DEF IInv, TypeOK, FindTenant
  <2>2. RegisteredHasSchema'
    BY <1>7 DEF IInv, TypeOK, RegisteredHasSchema, InsideHasSchema,
          LoadedHasRow, FindTenant
  <2>3. OneCreatorInside'
    BY <1>7 DEF IInv, TypeOK, OneCreatorInside, InsideHasSchema,
          RegisteredHasSchema, CreatorHasRow, MigratedHasTables,
          LoadedHasRow, FindTenant
  <2>4. CreatedIsUsable'
    BY <1>7 DEF IInv, TypeOK, CreatedIsUsable, CreatorHasRow,
          MigratedHasTables, LoadedHasRow, FindTenant
  <2>5. SeedRepairs'
    BY <1>7 DEF IInv, TypeOK, SeedRepairs, MigratedHasTables, LoadedHasRow,
          FindTenant
  <2>6. InsideHasSchema'
    BY <1>7 DEF IInv, TypeOK, InsideHasSchema, RegisteredHasSchema,
          FindTenant
  <2>7. CreatorHasRow'
    BY <1>7 DEF IInv, TypeOK, CreatorHasRow, LoadedHasRow, FindTenant
  <2>8. MigratedHasTables'
    BY <1>7 DEF IInv, TypeOK, MigratedHasTables, FindTenant
  <2>9. LoadedHasRow'
    BY <1>7 DEF IInv, TypeOK, LoadedHasRow, FindTenant
  <2> QED  BY <2>1, <2>2, <2>3, <2>4, <2>5, <2>6, <2>7, <2>8, <2>9 DEF IInv
<1>8. CASE SeedTenant(p)
  <2>1. TypeOK'
    BY <1>8 DEF IInv, TypeOK, SeedTenant
  <2>2. RegisteredHasSchema'
    BY <1>8 DEF IInv, TypeOK, RegisteredHasSchema, InsideHasSchema,
          LoadedHasRow, SeedTenant
  <2>3. OneCreatorInside'
    BY <1>8 DEF IInv, TypeOK, OneCreatorInside, InsideHasSchema,
          RegisteredHasSchema, CreatorHasRow, MigratedHasTables,
          LoadedHasRow, SeedTenant
  <2>4. CreatedIsUsable'
    BY <1>8 DEF IInv, TypeOK, CreatedIsUsable, CreatorHasRow,
          MigratedHasTables, LoadedHasRow, SeedTenant
  <2>5. SeedRepairs'
    BY <1>8 DEF IInv, TypeOK, SeedRepairs, MigratedHasTables, LoadedHasRow,
          SeedTenant
  <2>6. InsideHasSchema'
    BY <1>8 DEF IInv, TypeOK, InsideHasSchema, RegisteredHasSchema,
          SeedTenant
  <2>7. CreatorHasRow'
    BY <1>8 DEF IInv, TypeOK, CreatorHasRow, LoadedHasRow, SeedTenant
  <2>8. MigratedHasTables'
    BY <1>8 DEF IInv, TypeOK, MigratedHasTables, SeedTenant
  <2>9. LoadedHasRow'
    BY <1>8 DEF IInv, TypeOK, LoadedHasRow, SeedTenant
  <2> QED  BY <2>1, <2>2, <2>3, <2>4, <2>5, <2>6, <2>7, <2>8, <2>9 DEF IInv
<1>9. CASE ListSchemas(p)
  <2>1. TypeOK'
    BY <1>9 DEF IInv, TypeOK, ListSchemas
  <2>2. RegisteredHasSchema'
    BY <1>9 DEF IInv, TypeOK, RegisteredHasSchema, InsideHasSchema,
          LoadedHasRow, ListSchemas
  <2>3. OneCreatorInside'
    BY <1>9 DEF IInv, TypeOK, OneCreatorInside, InsideHasSchema,
          RegisteredHasSchema, CreatorHasRow, MigratedHasTables,
          LoadedHasRow, ListSchemas
  <2>4. CreatedIsUsable'
    BY <1>9 DEF IInv, TypeOK, CreatedIsUsable, CreatorHasRow,
          MigratedHasTables, LoadedHasRow, ListSchemas
  <2>5. SeedRepairs'
    BY <1>9 DEF IInv, TypeOK, SeedRepairs, MigratedHasTables, LoadedHasRow,
          ListSchemas
  <2>6. InsideHasSchema'
    BY <1>9 DEF IInv, TypeOK, InsideHasSchema, RegisteredHasSchema,
          ListSchemas
  <2>7. CreatorHasRow'
    BY <1>9 DEF IInv, TypeOK, CreatorHasRow, LoadedHasRow, ListSchemas
  <2>8. MigratedHasTables'
    BY <1>9 DEF IInv, TypeOK, MigratedHasTables, ListSchemas
  <2>9. LoadedHasRow'
    BY <1>9 DEF IInv, TypeOK, LoadedHasRow, ListSchemas
  <2> QED  BY <2>1, <2>2, <2>3, <2>4, <2>5, <2>6, <2>7, <2>8, <2>9 DEF IInv
<1>10. CASE LoadTenant(p)
  <2>1. TypeOK'
    BY <1>10 DEF IInv, TypeOK, LoadTenant
  <2>2. RegisteredHasSchema'
    BY <1>10 DEF IInv, TypeOK, RegisteredHasSchema, InsideHasSchema,
          LoadedHasRow, LoadTenant
  <2>3. OneCreatorInside'
    BY <1>10 DEF IInv, TypeOK, OneCreatorInside, InsideHasSchema,
          RegisteredHasSchema, CreatorHasRow, MigratedHasTables,
          LoadedHasRow, LoadTenant
  <2>4. CreatedIsUsable'
    BY <1>10 DEF IInv, TypeOK, CreatedIsUsable, CreatorHasRow,
          MigratedHasTables, LoadedHasRow, LoadTenant
  <2>5. SeedRepairs'
    BY <1>10 DEF IInv, TypeOK, SeedRepairs, MigratedHasTables,
          LoadedHasRow, LoadTenant
  <2>6. InsideHasSchema'
    BY <1>10 DEF IInv, TypeOK, InsideHasSchema, RegisteredHasSchema,
          LoadTenant
  <2>7. CreatorHasRow'
    BY <1>10 DEF IInv, TypeOK, CreatorHasRow, LoadedHasRow, LoadTenant
  <2>8. MigratedHasTables'
    BY <1>10 DEF IInv, TypeOK, MigratedHasTables, LoadTenant
  <2>9. LoadedHasRow'
    BY <1>10 DEF IInv, TypeOK, LoadedHasRow, LoadTenant
  <2> QED  BY <2>1, <2>2, <2>3, <2>4, <2>5, <2>6, <2>7, <2>8, <2>9 DEF IInv
<1>11. CASE DeactivateTenant(p)
  <2>1. TypeOK'
    BY <1>11 DEF IInv, TypeOK, DeactivateTenant
  <2>2. RegisteredHasSchema'
    BY <1>11 DEF IInv, TypeOK, RegisteredHasSchema, InsideHasSchema,
          LoadedHasRow, DeactivateTenant
  <2>3. OneCreatorInside'
    BY <1>11 DEF IInv, TypeOK, OneCreatorInside, InsideHasSchema,
          RegisteredHasSchema, CreatorHasRow, MigratedHasTables,
          LoadedHasRow, DeactivateTenant
  <2>4. CreatedIsUsable'
    BY <1>11 DEF IInv, TypeOK, CreatedIsUsable, CreatorHasRow,
          MigratedHasTables, LoadedHasRow, DeactivateTenant
  <2>5. SeedRepairs'
    BY <1>11 DEF IInv, TypeOK, SeedRepairs, MigratedHasTables,
          LoadedHasRow, DeactivateTenant
  <2>6. InsideHasSchema'
    BY <1>11 DEF IInv, TypeOK, InsideHasSchema, RegisteredHasSchema,
          DeactivateTenant
  <2>7. CreatorHasRow'
    BY <1>11 DEF IInv, TypeOK, CreatorHasRow, LoadedHasRow, DeactivateTenant
  <2>8. MigratedHasTables'
    BY <1>11 DEF IInv, TypeOK, MigratedHasTables, DeactivateTenant
  <2>9. LoadedHasRow'
    BY <1>11 DEF IInv, TypeOK, LoadedHasRow, DeactivateTenant
  <2> QED  BY <2>1, <2>2, <2>3, <2>4, <2>5, <2>6, <2>7, <2>8, <2>9 DEF IInv
<1>12. CASE Abort(p)
  <2>1. TypeOK'
    BY <1>12 DEF IInv, TypeOK, Abort
  <2>2. RegisteredHasSchema'
    BY <1>12 DEF IInv, TypeOK, RegisteredHasSchema, InsideHasSchema,
          LoadedHasRow, Abort
  <2>3. OneCreatorInside'
    BY <1>12 DEF IInv, TypeOK, OneCreatorInside, InsideHasSchema,
          RegisteredHasSchema, CreatorHasRow, MigratedHasTables,
          LoadedHasRow, Abort
  <2>4. CreatedIsUsable'
    BY <1>12 DEF IInv, TypeOK, CreatedIsUsable, CreatorHasRow,
          MigratedHasTables, LoadedHasRow, Abort
  <2>5. SeedRepairs'
    BY <1>12 DEF IInv, TypeOK, SeedRepairs, MigratedHasTables,
          LoadedHasRow, Abort
  <2>6. InsideHasSchema'
    BY <1>12 DEF IInv, TypeOK, InsideHasSchema, RegisteredHasSchema, Abort
  <2>7. CreatorHasRow'
    BY <1>12 DEF IInv, TypeOK, CreatorHasRow, LoadedHasRow, Abort
  <2>8. MigratedHasTables'
    BY <1>12 DEF IInv, TypeOK, MigratedHasTables, Abort
  <2>9. LoadedHasRow'
    BY <1>12 DEF IInv, TypeOK, LoadedHasRow, Abort
  <2> QED  BY <2>1, <2>2, <2>3, <2>4, <2>5, <2>6, <2>7, <2>8, <2>9 DEF IInv
<1> QED  BY <1>1, <1>2, <1>3, <1>4, <1>5, <1>6, <1>7, <1>8, <1>9, <1>10, <1>11, <1>12

\* Stuttering keeps the invariant.
LEMMA StutterIInv == IInv /\ UNCHANGED vars => IInv'
BY DEF IInv, vars, TypeOK, RegisteredHasSchema, OneCreatorInside, CreatedIsUsable,
       SeedRepairs, InsideHasSchema, CreatorHasRow, MigratedHasTables, LoadedHasRow

\* The registry, its schema and the processes that build it stay consistent.
THEOREM Invariance == Spec => []IInv
<1>1. IInv /\ [Next]_vars => IInv'
  BY StepIInv, StutterIInv DEF Next
<1> QED  BY InitIInv, <1>1, PTL DEF Spec

\* The values of the registry and of its processes are the declared ones.
THEOREM TypeCorrect == Spec => []TypeOK
<1>1. IInv => TypeOK
  BY DEF IInv
<1> QED  BY Invariance, <1>1, PTL

\* No name is registered, or migrated, without its schema.
THEOREM RegisteredIsReal == Spec => []RegisteredHasSchema
<1>1. IInv => RegisteredHasSchema
  BY DEF IInv
<1> QED  BY Invariance, <1>1, PTL

\* Of any number of creations of one tenant, one gets past CREATE SCHEMA.
THEOREM CreationIsExclusive == Spec => []OneCreatorInside
<1>1. IInv => OneCreatorInside
  BY DEF IInv
<1> QED  BY Invariance, <1>1, PTL

\* A creation that answers success leaves a row and tables.
THEOREM FinishedIsUsable == Spec => []CreatedIsUsable
<1>1. IInv => CreatedIsUsable
  BY DEF IInv
<1> QED  BY Invariance, <1>1, PTL

\* A seed run that ends leaves a row and tables.
THEOREM SeedLeavesTenant == Spec => []SeedRepairs
<1>1. IInv => SeedRepairs
  BY DEF IInv
<1> QED  BY Invariance, <1>1, PTL

\* Only a creation inserts a row before the tables are there, and it stays
\* behind, unfinished or failed, until they are.
LEMMA StepUnmigrated ==
  ASSUME IInv, UnmigratedIsUnfinished, [Next]_vars
  PROVE  UnmigratedIsUnfinished'
<1> SUFFICES ASSUME row' # "absent", ~tables'
             PROVE  \E q \in Creates : pc'[q] \in {"registered", "planned", "failed"}
  BY DEF UnmigratedIsUnfinished
<1>1. ASSUME NEW q \in Creates, pc[q] \in {"registered", "planned", "failed"},
             ~tables
      PROVE  pc'[q] \in {"registered", "planned", "failed"}
  <2> USE KindsAssumption DEF Goto, Over, Processes, Migrators
  <2>1. CASE UNCHANGED vars
    BY <1>1, <2>1 DEF vars
  <2>2. ASSUME NEW p \in Processes, ApplyMigration(p)
        PROVE  FALSE
    BY <2>2 DEF ApplyMigration
  <2>3. ASSUME NEW p \in Processes, p = q, PlanMigration(p) \/ Abort(p)
        PROVE  pc'[q] \in {"registered", "planned", "failed"}
    BY <1>1, <2>3 DEF IInv, TypeOK, PlanMigration, AfterMigration, Abort
  <2>4. CASE Next
    <3> PICK p \in Processes :
          \/ CheckTenant(p) \/ CreateSchema(p) \/ RegisterTenant(p)
          \/ PlanMigration(p) \/ ApplyMigration(p) \/ CheckSeed(p)
          \/ FindTenant(p) \/ SeedTenant(p) \/ ListSchemas(p)
          \/ LoadTenant(p) \/ DeactivateTenant(p) \/ Abort(p)
      BY <2>4 DEF Next
    <3>1. CASE p = q
      BY <1>1, <2>2, <2>3, <3>1 DEF IInv, LoadedHasRow, MigratedHasTables, CheckTenant,
         CreateSchema, RegisterTenant, CheckSeed, FindTenant, SeedTenant, ListSchemas,
         LoadTenant, DeactivateTenant
    <3>2. CASE p # q
      BY <1>1, <2>2, <3>2 DEF IInv, TypeOK, CheckTenant, CreateSchema, RegisterTenant,
         PlanMigration, CheckSeed, FindTenant, SeedTenant, ListSchemas, LoadTenant,
         DeactivateTenant, Abort
    <3> QED  BY <3>1, <3>2
  <2> QED  BY <2>1, <2>4
<1>2. ~tables
  BY DEF vars, Next, CheckTenant, CreateSchema, RegisterTenant, PlanMigration,
         ApplyMigration, CheckSeed, FindTenant, SeedTenant, ListSchemas, LoadTenant,
         DeactivateTenant, Abort
<1>3. CASE row # "absent"
  BY <1>1, <1>2, <1>3 DEF UnmigratedIsUnfinished
<1>4. CASE row = "absent"
  <2> USE KindsAssumption DEF Goto, Processes, Migrators
  <2>1. PICK p \in Processes : RegisterTenant(p) \/ SeedTenant(p) \/ DeactivateTenant(p)
    BY <1>4 DEF vars, Next, CheckTenant, CreateSchema, PlanMigration, ApplyMigration,
       CheckSeed, FindTenant, ListSchemas, LoadTenant, Abort
  <2>2. ~SeedTenant(p) /\ ~DeactivateTenant(p)
    BY <1>2, <1>4 DEF IInv, MigratedHasTables, LoadedHasRow, SeedTenant, DeactivateTenant
  <2> QED  BY <2>1, <2>2 DEF IInv, TypeOK, RegisterTenant
<1> QED  BY <1>3, <1>4

\* A tenant without tables is one whose creation is not finished.
THEOREM UnmigratedTenant == Spec => []UnmigratedIsUnfinished
<1>1. Init => UnmigratedIsUnfinished
  BY DEF Init, UnmigratedIsUnfinished
<1> QED  BY <1>1, StepUnmigrated, Invariance, PTL DEF Spec

\* Only a creation or a seed run gets to CREATE SCHEMA.
CheckedCreates ==
  \A p \in Processes : pc[p] = "checked" => p \in Creates \cup Seeds

\* The steps between CREATE SCHEMA and the insert of the row, and a failure.
BeforeInsert == {"created", "planned", "migrated", "missing", "failed"}

\* Every step keeps CheckedCreates.
LEMMA StepChecked ==
  ASSUME IInv, CheckedCreates, [Next]_vars
  PROVE  CheckedCreates'
<1> USE DEF Goto, Over, Processes, Migrators
<1>1. CASE UNCHANGED vars
  BY <1>1 DEF vars, CheckedCreates
<1>2. ASSUME NEW p \in Processes,
             \/ CheckTenant(p) \/ CreateSchema(p) \/ RegisterTenant(p)
             \/ PlanMigration(p) \/ ApplyMigration(p) \/ CheckSeed(p)
             \/ FindTenant(p) \/ SeedTenant(p) \/ ListSchemas(p)
             \/ LoadTenant(p) \/ DeactivateTenant(p) \/ Abort(p)
      PROVE  CheckedCreates'
  BY <1>2 DEF IInv, TypeOK, CheckedCreates, CheckTenant, CreateSchema,
     RegisterTenant, PlanMigration, AfterMigration, ApplyMigration, CheckSeed,
     FindTenant, SeedTenant, ListSchemas, LoadTenant, DeactivateTenant, Abort
<1> QED  BY <1>1, <1>2 DEF Next

\* A process on its way from CREATE SCHEMA to the insert stays on it, or fails,
\* as long as there is no row.
LEMMA BeforeInsertStays ==
  ASSUME IInv, [Next]_vars, row' = "absent", NEW q \in Creates \cup Seeds,
         pc[q] \in BeforeInsert
  PROVE  pc'[q] \in BeforeInsert
<1> USE KindsAssumption DEF Goto, Over, Processes, Migrators, BeforeInsert
<1>1. CASE UNCHANGED vars
  BY <1>1 DEF vars
<1>2. ASSUME NEW p \in Processes, p # q,
             \/ CheckTenant(p) \/ CreateSchema(p) \/ RegisterTenant(p)
             \/ PlanMigration(p) \/ ApplyMigration(p) \/ CheckSeed(p)
             \/ FindTenant(p) \/ SeedTenant(p) \/ ListSchemas(p)
             \/ LoadTenant(p) \/ DeactivateTenant(p) \/ Abort(p)
      PROVE  pc'[q] = pc[q]
  BY <1>2 DEF IInv, TypeOK, CheckTenant, CreateSchema, RegisterTenant,
     PlanMigration, ApplyMigration, CheckSeed, FindTenant, SeedTenant,
     ListSchemas, LoadTenant, DeactivateTenant, Abort
<1>3. q \in Processes /\ row = "absent"
  BY DEF vars, Next, CheckTenant, CreateSchema, RegisterTenant, PlanMigration,
         ApplyMigration, CheckSeed, FindTenant, SeedTenant, ListSchemas,
         LoadTenant, DeactivateTenant, Abort
<1>4. CASE PlanMigration(q) \/ ApplyMigration(q)
  BY <1>3, <1>4 DEF IInv, TypeOK, CreatorHasRow, PlanMigration, BeforeMigration,
     ApplyMigration, AfterMigration
<1>5. CASE FindTenant(q) \/ Abort(q)
  BY <1>3, <1>5 DEF IInv, TypeOK, FindTenant, Abort
<1>6. CASE \/ CheckTenant(q) \/ CreateSchema(q) \/ RegisterTenant(q)
           \/ CheckSeed(q) \/ SeedTenant(q) \/ ListSchemas(q)
           \/ LoadTenant(q) \/ DeactivateTenant(q)
  BY <1>3, <1>6 DEF CheckTenant, CreateSchema, RegisterTenant, CheckSeed,
     SeedTenant, ListSchemas, LoadTenant, DeactivateTenant
<1> QED  BY <1>1, <1>2, <1>4, <1>5, <1>6 DEF Next

\* Every step keeps UnregisteredIsUnfinished.
LEMMA StepUnregistered ==
  ASSUME IInv, CheckedCreates, UnregisteredIsUnfinished, [Next]_vars
  PROVE  UnregisteredIsUnfinished'
<1> SUFFICES ASSUME schema', row' = "absent"
             PROVE  \E q \in Creates \cup Seeds : pc'[q] \in BeforeInsert
  BY DEF UnregisteredIsUnfinished, BeforeInsert
<1> USE DEF Goto, Processes, Migrators
<1>1. row = "absent"
  BY DEF vars, Next, CheckTenant, CreateSchema, RegisterTenant, PlanMigration,
         ApplyMigration, CheckSeed, FindTenant, SeedTenant, ListSchemas,
         LoadTenant, DeactivateTenant, Abort
<1>2. CASE schema
  BY <1>1, <1>2, BeforeInsertStays DEF UnregisteredIsUnfinished, BeforeInsert
<1>3. CASE ~schema
  <2>1. PICK p \in Processes : CreateSchema(p)
    BY <1>3 DEF vars, Next, CheckTenant, RegisterTenant, PlanMigration,
       ApplyMigration, CheckSeed, FindTenant, SeedTenant, ListSchemas,
       LoadTenant, DeactivateTenant, Abort
  <2>2. p \in Creates \cup Seeds /\ pc'[p] = "created"
    BY <2>1 DEF IInv, TypeOK, CheckedCreates, CreateSchema
  <2> QED  BY <2>2 DEF BeforeInsert
<1> QED  BY <1>2, <1>3

\* A schema that nobody registered has somebody who was to register it.
THEOREM UnregisteredSchema == Spec => []UnregisteredIsUnfinished
<1>1. Init => CheckedCreates /\ UnregisteredIsUnfinished
  BY DEF Init, CheckedCreates, UnregisteredIsUnfinished
<1> QED
  BY <1>1, StepChecked, StepUnregistered, Invariance, PTL DEF Spec

\* Every half-made state of a tenant is the unfinished or failed work of a
\* creation or a seed run, and some half-made states never occur.
THEOREM HalfMadeTenant == Spec => []HalfMadeIsUnfinished
<1>1. RegisteredHasSchema /\ UnregisteredIsUnfinished /\ UnmigratedIsUnfinished
        => HalfMadeIsUnfinished
  BY DEF HalfMadeIsUnfinished
<1> QED
  BY <1>1, RegisteredIsReal, UnregisteredSchema, UnmigratedTenant, PTL

\* A creation that answered "already registered" has seen a schema.
ConflictSawSchema == \A p \in Processes : pc[p] = "conflict" => schema

\* Every step keeps ConflictSawSchema.
LEMMA StepConflict ==
  ASSUME IInv, ConflictSawSchema, [Next]_vars
  PROVE  ConflictSawSchema'
<1> USE DEF Goto, Over, Processes, Migrators
<1>1. CASE UNCHANGED vars
  BY <1>1 DEF vars, ConflictSawSchema
<1>2. ASSUME NEW p \in Processes,
             \/ CheckTenant(p) \/ CreateSchema(p) \/ RegisterTenant(p)
             \/ PlanMigration(p) \/ ApplyMigration(p) \/ CheckSeed(p)
             \/ FindTenant(p) \/ SeedTenant(p) \/ ListSchemas(p)
             \/ LoadTenant(p) \/ DeactivateTenant(p) \/ Abort(p)
      PROVE  ConflictSawSchema'
  BY <1>2 DEF IInv, TypeOK, ConflictSawSchema, CheckTenant, CreateSchema,
     RegisterTenant, PlanMigration, AfterMigration, ApplyMigration, CheckSeed,
     FindTenant, SeedTenant, ListSchemas, LoadTenant, DeactivateTenant, Abort
<1> QED  BY <1>1, <1>2 DEF Next

\* ConflictMeansRegistered, which a run refutes, holds as long as no creation
\* and no seed run has failed: "already registered" is only ever wrong about
\* what such a failure left behind.
THEOREM ConflictIsTrueWithoutFailures ==
  Spec => [](  (\A p \in Creates \cup Seeds : pc[p] # "failed")
             => ConflictMeansRegistered)
<1>1. Init => ConflictSawSchema
  BY DEF Init, ConflictSawSchema
<1>2. ASSUME ConflictSawSchema, UnregisteredIsUnfinished,
             \A p \in Creates \cup Seeds : pc[p] # "failed"
      PROVE  ConflictMeansRegistered
  BY <1>2 DEF ConflictSawSchema, UnregisteredIsUnfinished,
     ConflictMeansRegistered, Processes, Migrators, Over
<1> QED
  BY <1>1, <1>2, StepConflict, UnregisteredSchema, Invariance, PTL DEF Spec

\* Every step of the registry's processes is a step of the row's contract: an
\* insert finds no row, and a deactivation has found one.
THEOREM RegistryKeepsRow == Spec => ImplementsTenantRow
<1>1. Init => Row!Init
  BY DEF Init, Row!Init
<1>2. ASSUME IInv, [Next]_vars PROVE [Row!Next]_row
  <2> USE DEF Goto, NameFree, Row!Next, Row!Register, Row!Deactivate
  <2>1. CASE UNCHANGED row
    BY <2>1
  <2>2. ASSUME NEW p \in Processes, RegisterTenant(p) \/ SeedTenant(p)
        PROVE  Row!Next
    BY <2>2 DEF RegisterTenant, SeedTenant
  <2>3. ASSUME NEW p \in Processes, DeactivateTenant(p)
        PROVE  Row!Next
    BY <1>2, <2>3 DEF IInv, LoadedHasRow, DeactivateTenant
  <2> QED
    BY <1>2, <2>1, <2>2, <2>3 DEF vars, Next, CheckTenant, CreateSchema,
       PlanMigration, ApplyMigration, CheckSeed, FindTenant, ListSchemas,
       LoadTenant, Abort
<1> QED
  BY <1>1, <1>2, Invariance, PTL DEF Spec, ImplementsTenantRow, Row!Spec

\* A tenant that was deactivated stays so: it follows from the contract.
THEOREM DeactivationLasts ==
  Spec => [][row = "inactive" => row' = "inactive"]_row
<1>1. [Row!Next]_row => [row = "inactive" => row' = "inactive"]_row
  BY DEF Row!Next, Row!Register, Row!Deactivate
<1> QED
  BY <1>1, RegistryKeepsRow, PTL DEF ImplementsTenantRow, Row!Spec
=============================================================================
