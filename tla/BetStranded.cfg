\* A claim of README.md:60: no wager is held without being reported.
CONSTANTS
  Bets = {b1}
  Workers = {w1}
  Wagers = {1}
  Payouts = {0, 2}
  Deposit = 1
  MaxAttempts = 3
  MaxLostReplies = 0
SPECIFICATION Spec
INVARIANT NoFundsVanish
CHECK_DEADLOCK FALSE
