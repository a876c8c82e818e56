SPECIFICATION FairSpec

CONSTANTS
  OrdersPerActivity = 2
  Window = 2
  PacedAttempts = 2
  BurstAttempts = 3
  Faults <- NoFaults
  NoFault = NoFault
  Splits <- OneSplit
  NoSplit = NoSplit
  MaxBatches = 2
  MaxEvents = 4
  MaxNow = 3
  Rates <- SlowRates
  MaxRun = 2
  ChangeBuffer = 1
  BurstSizes <- OneBurst
  Millis <- OneMilli

PROPERTIES UntouchedTrafficStops
