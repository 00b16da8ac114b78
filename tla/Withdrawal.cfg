\* Two withdrawals, of which the balance covers either one; one fault.
CONSTANTS
  small = small
  large = large
  Requests = {small, large}
  Amount <- MCAmount
  Hosts = {h1}
  Opening = 2
  MaxRetries = 1
  MaxFaults = 1
SPECIFICATION FairSpec
INVARIANTS
  TypeOK
  PaidWasTaken
  PaidOncePerDelivery
  PaidOncePerRun
  ReportsArePaid
  PaidIsReported
PROPERTY AcceptedArePaid
\* When every request has ended, nothing is left to do.
CHECK_DEADLOCK FALSE
