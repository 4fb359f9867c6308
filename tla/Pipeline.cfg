\* One create request with its two mails, two attempts per job, one tolerated
\* stall: every action of the create path, errors and crashes at every await.
SPECIFICATION Spec
CONSTANTS
  CreateEvents = {c1}
  NotifyEvents = {}
  TitleOf <- SameTitle
  MAX_ATTEMPTS = 2
  MaxStalledCount = 1
  MailHostSet = TRUE
INVARIANTS
  TypeOK
  ActsThroughItsJob
  EachMailEnqueuedOnce
  FailureMailAfterLastAttempt
  CompletedTaskJob
  StatusHasCause
  MailCopiesBounded
  CompletedMailWasSent
  FailureLogsAreTrue
  CompletedJobsCompleteEvent
PROPERTIES
  SettledEventFrozen
  JobsUseFuel
  ImplementsJobQueue
  ImplementsCreateRequests
CHECK_DEADLOCK FALSE
