SPECIFICATION FairSpec

CONSTANTS
  OrderIds = {o1, o2}
  MaxEvents = 4

INVARIANTS TypeOK
PROPERTIES NothingStaysParked KeepsFaultContract RepairFollowsClear
