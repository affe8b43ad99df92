\* An order, a hand-made message of one of several kinds, two processes with a slot each.
CONSTANTS
  o1 = o1
  x1 = x1
  x2 = x2
  x3 = x3
  p1 = p1
  p2 = p2
  h1 = h1
  h2 = h2
  c1 = c1
  NoMsg = NoMsg
  Orders = {o1}
  Extra = {x1, x2, x3}
  OrderOf <- MCOrderOf
  Poison = {x1}
  Garbled = {x2}
  Bodiless = {}
  OddId = {x3}
  Processes = {p1, p2}
  Handlers = {h1, h2}
  HostOf <- MCHostEach
  Clients = {c1}
  MaxAttempts = 2
  MaxCrashes = 1
  MaxDisconnects = 1
  MaxLosses = 1
  MaxByHand = 1
SPECIFICATION Spec
SYMMETRY MCSymmetry
INVARIANTS
  TypeOK
  NoMessageLost
  ExactlyOnce
  DeadLetterExhausted
  NoDuplicationWithoutLoss
  StampedIffProcessed
PROPERTIES
  NoDuplicateUpdate
CHECK_DEADLOCK FALSE
