\* The repository states ConflictMeansRegistered; the code violates it.
SPECIFICATION Spec
CONSTANTS
  Creates = {c1, c2}
  Deactivates = {d1}
  Seeds = {s1}
  Migrates = {m1}
INVARIANTS
  ConflictMeansRegistered
CHECK_DEADLOCK FALSE
