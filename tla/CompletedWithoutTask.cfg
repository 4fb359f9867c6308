\* The repository states CompletedMeansCreated; the code violates it.
SPECIFICATION Spec
CONSTANTS
  CreateEvents = {c1}
  NotifyEvents = {}
  TitleOf <- SameTitle
  MAX_ATTEMPTS = 2
  MaxStalledCount = 1
  MailHostSet = TRUE
INVARIANTS
  CompletedMeansCreated
CHECK_DEADLOCK FALSE
