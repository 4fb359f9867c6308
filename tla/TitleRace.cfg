\* Two create requests for one title, one attempt per job.
SPECIFICATION Spec
CONSTANTS
  CreateEvents = {c1, c2}
  NotifyEvents = {}
  TitleOf <- SameTitle
  MAX_ATTEMPTS = 1
  MaxStalledCount = 0
  MailHostSet = FALSE
INVARIANTS
  OneWinnerPerTitle
CHECK_DEADLOCK FALSE
