\* Two sign-ins, two rotations, two bets in either of two currencies; one failure.
CONSTANTS
  Logins = {l1, l2}
  Rotations = {r1, r2}
  Bets = {b1, b2}
  Currencies = {ETH, SOL}
  NoSeed = NoSeed
  MaxFaults = 1
SPECIFICATION Spec
SYMMETRY Symmetric
INVARIANTS
  TypeOK
  ActiveSeedIsSecret
  RollsDiffer
  ToldSeedsAreRetired
  RolledSeedsAreCommitted
  OneOpenCommitment
\* Players sign in, rotate and bet finitely often here.
CHECK_DEADLOCK FALSE
