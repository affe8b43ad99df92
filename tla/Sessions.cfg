\* An administrator and a user to be created, two tokens, three requests in
\* two processes.
CONSTANTS
  u1 = u1
  u2 = u2
  t1 = t1
  t2 = t2
  p1 = p1
  p2 = p2
  c1 = c1
  c2 = c2
  c3 = c3
  Nobody = Nobody
  Holder <- MCHolder
  Users = {u1, u2}
  Admins = {u1}
  Tokens = {t1, t2}
  Calls = {c1, c2, c3}
  Processes = {p1, p2}
  HostOf <- MCHostOf
  MaxVersion = 3
SPECIFICATION LiveSpec
INVARIANTS
  TypeOK
  RoleFollowsAssignment
PROPERTIES
  LogoutIsFinal
  ImplementsAccess
  EntriesArePruned
CHECK_DEADLOCK FALSE
