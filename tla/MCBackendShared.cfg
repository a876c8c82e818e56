SPECIFICATION Spec

CONSTANTS
  Tabs = {t1}
  BufferSize = 1
  Scripts = {s1}
  HealthTTL = 2
  InterestWindow = 1
  MaxEvents = 3

INVARIANTS ReadersSeeOnePicture
