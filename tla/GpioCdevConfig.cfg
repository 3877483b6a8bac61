\* One handle, its full configuration space, one line.
SPECIFICATION Spec
CONSTANTS
  Handles = {h1}
  Fds = {f1, f2, f3}
  NoFd = NoFd
  NLines = 1
  NameOf <- MCNameOf
  NameArgs = {"shared"}
  OpenConfigs <- ConfigOpenConfigs
  DirectionArgs = {"in", "out", "out_low", "out_high", "bogus"}
  EdgeArgs = {"none", "rising", "falling", "both", "bogus"}
  ClockArgs = {"realtime", "monotonic", "hte", "bogus"}
  DebounceArgs = {0, 1}
  BiasArgs = {"default", "pull_up", "bogus"}
  DriveArgs = {"default", "open_drain", "bogus"}
  InvertedArgs = {FALSE, TRUE}
  EventBuffer = 2
  HteBuild = TRUE
  HteKernel = TRUE
SYMMETRY Symmetry
INVARIANTS TypeOK ConfigApplied EventsMatchEdge
PROPERTIES InitialLevelApplied LinePromise
