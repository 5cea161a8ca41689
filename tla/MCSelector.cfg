SPECIFICATION FairSpec
CONSTANTS
  ITEMS_MAX_SIZE = 2
  Data = {d}
  NoData = NoData
  Workers = {w1, w2}
INVARIANTS
  TypeOK
  NoLostWakeup
  MaxFdIsHighest
PROPERTIES
  WalkedListIsStable
  JobsAreServed
