CONSTANTS
  Invoices = {inv1}
  Balance = 2
  MaxKeys = 2
  WithFee = FALSE
SPECIFICATION Spec
INVARIANTS TypeOK
PROPERTIES KeepsContract
CHECK_DEADLOCK FALSE
