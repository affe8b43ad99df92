\* A hand-made message whose body is null; no failures.
CONSTANTS
  o1 = o1
  x1 = x1
  x2 = x2
  x3 = x3
  p1 = p1
  p2 = p2
  h1 = h1
  h2 = h2
  c1 = c1
  NoMsg = NoMsg
  Orders = {o1}
  Extra = {x1}
  OrderOf <- MCOrderOf
  Poison = {}
  Garbled = {}
  Bodiless = {x1}
  OddId = {}
  Processes = {p1, p2}
  Handlers = {h1, h2}
  HostOf <- MCHostEach
  Clients = {}
  MaxAttempts = 2
  MaxCrashes = 0
  MaxDisconnects = 0
  MaxLosses = 0
  MaxByHand = 1
SPECIFICATION LiveSpec
PROPERTIES
  NoInfiniteLoop
CHECK_DEADLOCK FALSE
