\* One create request or one notification under the fairness of the API and of
\* a worker that the operator keeps running.
SPECIFICATION OneCallSpec
CONSTANTS
  CreateEvents = {c1}
  NotifyEvents = {n1}
  TitleOf <- SameTitle
  MAX_ATTEMPTS = 2
  MaxStalledCount = 0
  MailHostSet = TRUE
PROPERTIES
  JobSettles
CHECK_DEADLOCK FALSE
