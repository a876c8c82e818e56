SPECIFICATION FairSpec

CONSTANTS
  ServedVersions <- AllVersions
  ChaosSpecs <- SomeFaults
  NoChaos = NoChaos
  ProbeAttempts = 3
  MaxSignals = 2
  MaxResets = 2

\* An order that completed or failed does nothing more.
CHECK_DEADLOCK FALSE

INVARIANTS TypeOK DegradedIffParked PoisonedProbeFails StuckOrderIsHeard
PROPERTIES KeepsPipeline KeepsFaultContract ReleasedOrderFinishes ProbeEnds
