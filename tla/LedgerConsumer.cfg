\* Three bets in slices of two, a deposit, a withdrawal; one login; one failure,
\* which may also be the loss of the balance key.  The specification with fairness.
CONSTANTS
  win = win
  loss = loss
  even = even
  deposit = deposit
  withdrawal = withdrawal
  Bets = {win, loss, even}
  Deposits = {deposit}
  Withdrawals = {withdrawal}
  Credit <- MCCredit
  Debit <- MCDebit
  Opening = 1
  BetBatchSize = 2
  MaxLogins = 1
  MaxPublished = 1
  MaxFaults = 1
SPECIFICATION FairSpec
INVARIANTS
  TypeOK
  CanonicalBalance
  StoresConverge
  CreditedOnce
  NothingPassedOver
PROPERTY EventuallyRecorded
\* When every event was published and handled, nothing is left to do.
CHECK_DEADLOCK FALSE
