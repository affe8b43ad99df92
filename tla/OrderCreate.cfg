\* Two requests that lock A and B in either order, a third under the key of
\* the first, and an administrator who PATCHes stock.
CONSTANTS
  r1 = r1
  r2 = r2
  r3 = r3
  pA = pA
  pB = pB
  pC = pC
  l1 = l1
  l2 = l2
  l3 = l3
  l4 = l4
  l5 = l5
  k = k
  a1 = a1
  NoKey = NoKey
  Free = Free
  Requests = {r1, r2, r3}
  Products = {pA, pB, pC}
  Stocked = {pA, pB, pC}
  Lines = {l1, l2, l3, l4, l5}
  LinesOf <- MCLinesOf
  ProductOf <- MCProductOf
  AmountOf <- MCAmountOf
  KeyOf <- MCKeyOf
  InitialStock <- MCStock
  Patchers = {a1}
  PatchColumns = {"stock"}
  PatchValues = {1}
SPECIFICATION LiveSpec
INVARIANTS
  TypeOK
  OneOrderPerKey
  AnswersAreTrue
  NoStrandedLocks
  ReservationsAddUp
PROPERTIES
  CommitNeverOversells
  ImplementsPlacement
  EveryRequestAnswered
CHECK_DEADLOCK FALSE
