\* A claim of services/api-gateway/src/withdraw.routes.ts:96-97.
CONSTANTS
  small = small
  large = large
  Requests = {small, large}
  Amount <- MCAmount
  Hosts = {h1}
  Opening = 2
  MaxRetries = 1
  MaxFaults = 0
SPECIFICATION Spec
INVARIANT RefundedNeverPaid
CHECK_DEADLOCK FALSE
