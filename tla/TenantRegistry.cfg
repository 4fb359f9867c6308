\* Two creations, a deactivation and a migration run of one tenant beside a
\* seed:database and a seed:tenant run, with the service in use.
SPECIFICATION DemoSpec
CONSTANTS
  Creates = {c1, c2}
  Deactivates = {d1}
  Seeds = {s1}
  Migrates = {m1}
  Reseeds = {t1}
  LaterTitles = {"docs"}
SYMMETRY Symmetric
INVARIANTS
  TypeOK
  OneCreatorInside
  CreatedIsUsable
  HalfMadeIsUnfinished
  DemoTypeOK
  DemoTasksTogether
  SeedDatabaseIsComplete
PROPERTIES
  ImplementsTenantRow
  SeedingOnlyFills
CHECK_DEADLOCK FALSE
