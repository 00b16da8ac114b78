\* Two bets race for a balance that covers one large or two small wagers;
\* one reply of Redis may be lost.
CONSTANTS
  Bets = {b1, b2}
  Workers = {w1, w2}
  Wagers = {1, 2}
  Payouts = {0, 3}
  Deposit = 2
  MaxAttempts = 2
  MaxLostReplies = 1
SPECIFICATION Spec
SYMMETRY Symmetric
INVARIANTS
  TypeOK
  EscrowBacked
  Conservation
  DriftBounded
  NonceNeverReused
  OneOutcome
  PublishedBetsCount
  DeadLettersAreHeld
\* The player sends finitely many bets; when all have ended, nothing moves.
CHECK_DEADLOCK FALSE
