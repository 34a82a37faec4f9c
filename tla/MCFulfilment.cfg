SPECIFICATION Spec
CONSTANTS
  NoLine = NoLine
  NoAmount = NoAmount
  PO <- MCPO
  Line <- MCLine
  PoOf <- MCPoOf
  PoLine <- MCPoLine
  Inv <- MCInv
  Doc <- MCDoc
  Delivery <- MCDelivery
  Tx = {t1, t2}
  User <- MCUser
  Role <- MCRole
SYMMETRY TxSymmetry
INVARIANTS NeverOverbilled ChecksStayTrue ClosedExactlyWhenReceived SpendIsReserved
PROPERTIES CommittedStays ImplementsLedger
CHECK_DEADLOCK FALSE
