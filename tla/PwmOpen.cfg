\* One handle on one channel; another process exports and unexports it.
SPECIFICATION Spec
CONSTANTS
  Handles = {h1}
  Channels = {c1}
  NoChannel = NoChannel
  Periods = {0, 2, 5}
  DutyCycles = {1, 3}
  Ratios <- MCRatios
  Polarities = {"normal", "inversed", "bogus"}
  Retries = 3
INVARIANTS TypeOK CachedPeriod
PROPERTIES CallReturns
