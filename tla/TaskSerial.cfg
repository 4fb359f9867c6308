\* Requests that do not overlap.
SPECIFICATION Spec
CONSTANTS
  rep = rep
  u1 = u1
  u2 = u2
  Users = {rep, u1, u2}
  RoleOf <- Roles
  NoUser = NoUser
  Reporter = rep
  Requests = {r1}
  Nothing = Nothing
INVARIANT OwnedWork
PROPERTY ImplementsStateMachine
CHECK_DEADLOCK FALSE
