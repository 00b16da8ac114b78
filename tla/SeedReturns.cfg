\* A claim of services/api-gateway/src/lua/init-user-safe.lua:42; nothing fails.
CONSTANTS
  Logins = {l1, l2}
  Rotations = {r1}
  Bets = {b1}
  Currencies = {ETH}
  NoSeed = NoSeed
  MaxFaults = 0
SPECIFICATION Spec
INVARIANT NoRollWithToldSeed
CHECK_DEADLOCK FALSE
