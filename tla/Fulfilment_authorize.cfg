\* The same calls without faults, over the users the migrations and the seed
\* create: the identity column starts at 1, so none of them is user 0.
CONSTANTS
  o1 = o1
  k = k
  p1 = p1
  p2 = p2
  q1 = q1
  q2 = q2
  q3 = q3
  Orders = {o1}
  PaymentIds = {1, 2, 3}
  ShippingIds = {11, 12, 13, 14}
  Keys = {k}
  NoNumber = NoNumber
  NoDate = NoDate
  Fresh = Fresh
  Undef = Undef
  Statuses = {"pending", "received"}
  Processes = {p1, p2}
  Requests = {q1, q2, q3}
  HostOf <- MCHostOf
  Existing <- MCExisting
  UserZero = FALSE
  MaxFaults = 0
SPECIFICATION Spec
INVARIANTS
  PaymentsAreAccepted
CHECK_DEADLOCK FALSE
