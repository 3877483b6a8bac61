\* One handle, every argument, another process that exports and unexports.
SPECIFICATION Spec
CONSTANTS
  Handles = {h1}
  Lines = {l1}
  Other = Other
  Nobody = Nobody
  OpenArgs = {"in", "out", "low", "high", "bogus"}
  DirectionArgs = {"in", "out", "low", "high", "bogus"}
  EdgeArgs = {"none", "rising", "falling", "both", "bogus"}
  InvertedArgs = {FALSE, TRUE}
  Retries = 3
INVARIANTS TypeOK
PROPERTIES OpenApplied CallReturns
