CONSTANTS
  Invoices = {inv1}
  Balance = 2
  MaxKeys = 1
  WithFee = TRUE
SPECIFICATION FairSpec
PROPERTIES ChargeIsRegistered
CHECK_DEADLOCK FALSE
