\* Two deposits, a memory of one transaction, one reset of the chain, one failure.
CONSTANTS
  d1 = d1
  d2 = d2
  Deposits = {d1, d2}
  NoDeposit = NoDeposit
  Amount <- MCAmount
  Opening = 0
  CacheSize = 1
  MaxHeight = 2
  MaxEpoch = 3
  MaxLost = 1
  MaxResets = 1
  MaxFaults = 1
SPECIFICATION FairSpec
INVARIANTS
  TypeOK
  CanonicalBalance
  NothingOverlooked
  StaleHandlersStop
PROPERTY DepositsAreRecorded
\* When the chain is at its bound and everything was processed, nothing is left to do.
CHECK_DEADLOCK FALSE
