SPECIFICATION Spec
CONSTANTS
  Req <- MCReq
  Cost <- MCCost
  Center <- MCCenter
  CurrencyOf <- MCCurrencyOf
  PO = {p1, p2}
  CostCenter = {"ops"}
  Month = {1, 2}
  Currency = {"EUR"}
  Amounts = {2, 3}
  User = {"meg", "rex"}
  Role <- MCRole
  Tx = {t1, t2}
  NoReq = NoReq
  NoBudget = NoBudget
SYMMETRY Symmetric
INVARIANTS NoDoubleSpend ReservedWhileOpen
CHECK_DEADLOCK FALSE
