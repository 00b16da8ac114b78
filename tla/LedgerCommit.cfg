\* A claim of documentation/kafka-event-topology.md:320.
CONSTANTS
  win = win
  loss = loss
  even = even
  deposit = deposit
  withdrawal = withdrawal
  Bets = {win, loss}
  Deposits = {deposit}
  Withdrawals = {withdrawal}
  Credit <- MCCredit
  Debit <- MCDebit
  Opening = 1
  BetBatchSize = 2
  MaxLogins = 0
  MaxPublished = 1
  MaxFaults = 0
SPECIFICATION Spec
INVARIANT CommittedIsRecorded
CHECK_DEADLOCK FALSE
