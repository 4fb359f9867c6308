\* Three requests in flight on one task.
SPECIFICATION Spec
CONSTANTS
  rep = rep
  u1 = u1
  u2 = u2
  Users = {rep, u1, u2}
  RoleOf <- Roles
  NoUser = NoUser
  Reporter = rep
  Requests = {r1, r2, r3}
  Nothing = Nothing
SYMMETRY Symmetric
INVARIANTS
  TypeOK
  AssigneeMatchesStatus
  NoStageSkipped
  MailsAreTrue
PROPERTIES
  CurrentStatusSuffices
CHECK_DEADLOCK FALSE
