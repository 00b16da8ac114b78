\* One connection more than a wipe of the counter lets in, two workers.
CONSTANTS
  Conns = {c1, c2, c3}
  Workers = {w1, w2}
  Limit = 1
  MaxFaults = 1
SPECIFICATION FairSpec
INVARIANTS
  TypeOK
  CountIsHolders
  CapHolds
  NoPhantomSlots
PROPERTY SlotsReturn
\* Every connection may have come and gone, with nothing left to do.
CHECK_DEADLOCK FALSE
