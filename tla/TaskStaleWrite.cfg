\* Two overlapping requests: the code does not implement the state machine.
SPECIFICATION Spec
CONSTANTS
  rep = rep
  u1 = u1
  u2 = u2
  Users = {rep, u1, u2}
  RoleOf <- Roles
  NoUser = NoUser
  Reporter = rep
  Requests = {r1, r2}
  Nothing = Nothing
PROPERTY ImplementsStateMachine
CHECK_DEADLOCK FALSE
