\* An order that is canceled while its message is on the way.
CONSTANTS
  o1 = o1
  x1 = x1
  x2 = x2
  x3 = x3
  p1 = p1
  p2 = p2
  h1 = h1
  h2 = h2
  c1 = c1
  NoMsg = NoMsg
  Orders = {o1}
  Extra = {}
  OrderOf <- MCOrderOf
  Poison = {}
  Garbled = {}
  Bodiless = {}
  OddId = {}
  Processes = {p1, p2}
  Handlers = {h1, h2}
  HostOf <- MCHostEach
  Clients = {c1}
  MaxAttempts = 2
  MaxCrashes = 0
  MaxDisconnects = 0
  MaxLosses = 0
  MaxByHand = 0
SPECIFICATION Spec
PROPERTIES
  TerminalStatusIsFinal
CHECK_DEADLOCK FALSE
