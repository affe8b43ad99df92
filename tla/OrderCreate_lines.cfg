\* One request with two lines for the last piece of a product.
CONSTANTS
  r1 = r1
  r2 = r2
  r3 = r3
  pA = pA
  pB = pB
  pC = pC
  l1 = l1
  l2 = l2
  l3 = l3
  l4 = l4
  l5 = l5
  k = k
  a1 = a1
  NoKey = NoKey
  Free = Free
  Requests = {r1}
  Products = {pA, pB}
  Stocked = {pA, pB}
  Lines = {l1, l2}
  LinesOf <- MCTwoLines
  ProductOf <- MCSameProduct
  AmountOf <- MCAmountOf
  KeyOf <- MCNoKeys
  InitialStock <- MCOneEach
  Patchers = {}
  PatchColumns = {"stock", "reserved"}
  PatchValues = {0, 2}
SPECIFICATION Spec
PROPERTIES
  CommitNeverOversells
CHECK_DEADLOCK FALSE
