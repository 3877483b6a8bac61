\* Two handles contending for one line; biases in the headers, drives not.
SPECIFICATION SpecV1
CONSTANTS
  Handles = {h1, h2}
  Fds = {f1, f2, f3, f4}
  NoFd = NoFd
  NLines = 1
  NameOf <- MCNameOf
  NameArgs = {"shared"}
  OpenConfigs <- MCOpenConfigs
  DirectionArgs = {"in", "out"}
  EdgeArgs = {"none", "rising"}
  ClockArgs = {"realtime", "hte"}
  DebounceArgs = {0}
  BiasArgs = {"default"}
  DriveArgs = {"open_drain"}
  InvertedArgs = {FALSE}
  EventBuffer = 1
  HteBuild = FALSE
  HteKernel = FALSE
  BiasBuild = TRUE
  DriveBuild = FALSE
SYMMETRY Symmetry
INVARIANTS FdOwned NoLeak ConfigApplied
PROPERTIES NothingDropped LinePromise
