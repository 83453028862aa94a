CONSTANTS
  Invoices = {inv1}
  Balance = 2
  MaxKeys = 1
  WithFee = TRUE
SPECIFICATION FairSpec
INVARIANTS AccountedOnlyIfCharged
PROPERTIES NoticedChargeIsFollowed
CHECK_DEADLOCK FALSE
