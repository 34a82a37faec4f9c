SPECIFICATION Spec
CONSTANTS
  Call = {d1, d2}
  Event = {order}
  Supplier = {"acme"}
  SupplierOf <- MCSupplierOf
  Grant <- MCGrant
  CompanyOf <- MCCompanyOf
  MaxRefresh = 1
  MaxVendor = 2
  MaxFaults = 1
  None = None
INVARIANTS OneDocument OneVendor TokenIsNewest
PROPERTIES SettledWhileConnected
CHECK_DEADLOCK FALSE
