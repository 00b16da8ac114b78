\* No reply is lost: the handlers implement the abstract account, and under
\* fairness every roll comes to its end.
CONSTANTS
  Bets = {b1, b2}
  Workers = {w1, w2}
  Wagers = {1, 2}
  Payouts = {0, 3}
  Deposit = 2
  MaxAttempts = 2
  MaxLostReplies = 0
SPECIFICATION FairSpec
PROPERTIES
  ImplementsAccount
  RolledBetsEnd
CHECK_DEADLOCK FALSE
