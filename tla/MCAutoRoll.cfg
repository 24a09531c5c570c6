SPECIFICATION Spec
CONSTANTS
  roll_tenor = 2
  LendTenor = 2
  min_order_size = 2
  Balances = {1, 2}
  MaxLoans = 2
  MaxTime = 5
PROPERTY MaturedIsAttempted
CHECK_DEADLOCK FALSE
