\* Two handles contending for two lines and four descriptors of one process.
SPECIFICATION Spec
CONSTANTS
  Handles = {h1, h2}
  Fds = {f1, f2, f3, f4}
  NoFd = NoFd
  NLines = 2
  NameOf <- MCNameOf
  NameArgs = {"shared", "unknown"}
  OpenConfigs <- ShareOpenConfigs
  DirectionArgs = {"in"}
  EdgeArgs = {"none", "rising"}
  ClockArgs = {"realtime"}
  DebounceArgs = {0}
  BiasArgs = {"default"}
  DriveArgs = {"default"}
  InvertedArgs = {FALSE}
  EventBuffer = 1
  HteBuild = FALSE
  HteKernel = FALSE
SYMMETRY Symmetry
INVARIANTS FdOwned NoLeak
PROPERTIES OpenAllOrNothing
