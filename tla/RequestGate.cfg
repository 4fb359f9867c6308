\* Two overlapping requests, two tenants, one email.
SPECIFICATION Spec
CONSTANTS
  Schemas = {"demo", "acme"}
  Spellings = {"Demo", "demo", "acme"}
  SchemaOf <- TwoSpellings
  Emails = {e1}
  Requests = {r1, r2}
  None = None
SYMMETRY Symmetric
INVARIANTS
  TypeOK
  HandlerInOwnTenant
  ManagementSeparated
  DeactivatedIsShut
  JobFindsReporter
CHECK_DEADLOCK FALSE
