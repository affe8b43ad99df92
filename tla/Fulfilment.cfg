\* Three calls in two processes on the payments and shipments of an order
\* that has a shipment.
CONSTANTS
  o1 = o1
  k = k
  p1 = p1
  p2 = p2
  q1 = q1
  q2 = q2
  q3 = q3
  Orders = {o1}
  PaymentIds = {1, 2, 3}
  ShippingIds = {11, 12, 13, 14}
  Keys = {k}
  NoNumber = NoNumber
  NoDate = NoDate
  Fresh = Fresh
  Undef = Undef
  Statuses = {"pending", "received"}
  Processes = {p1, p2}
  Requests = {q1, q2, q3}
  HostOf <- MCHostOf
  Existing <- MCExisting
  UserZero = TRUE
  MaxFaults = 1
SPECIFICATION Spec
SYMMETRY MCSymmetry
INVARIANTS
  TypeInvariant
  FeedConverges
  OnePaymentPerKey
  ReceivedIsStamped
PROPERTIES
  FirstReceiptStands
CHECK_DEADLOCK FALSE
