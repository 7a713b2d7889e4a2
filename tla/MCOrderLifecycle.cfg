CONSTANTS
  Keys = {k1, k2}
  Products = {p1}
  Customers = {c1}
  Requests = {r1, r2}
  Quantities = {1}
  StockLevels <- Levels
  MaxInt = 1
  MaxVersion = 4
SPECIFICATION Spec
SYMMETRY Symmetry
INVARIANTS
  TypeOK
  OptimisticLock
  StockConservation
  ReferentialIntegrity
  ShippedIsTracked
PROPERTIES
  LegalMoves
  ImplementsOrderBook
CHECK_DEADLOCK FALSE
