\* An order and a hand-made message of one of two kinds; failures of every kind.
CONSTANTS
  o1 = o1
  x1 = x1
  x2 = x2
  x3 = x3
  p1 = p1
  p2 = p2
  h1 = h1
  h2 = h2
  c1 = c1
  NoMsg = NoMsg
  Orders = {o1}
  Extra = {x2, x3}
  OrderOf <- MCOrderOf
  Poison = {}
  Garbled = {}
  Bodiless = {x2}
  OddId = {x3}
  Processes = {p1, p2}
  Handlers = {h1, h2}
  HostOf <- MCHostEach
  Clients = {}
  MaxAttempts = 2
  MaxCrashes = 1
  MaxDisconnects = 1
  MaxLosses = 2
  MaxByHand = 1
SPECIFICATION LiveSpec
PROPERTIES
  EveryMessageSettles
  QueueDrains
  ImplementsEffects
CHECK_DEADLOCK FALSE
