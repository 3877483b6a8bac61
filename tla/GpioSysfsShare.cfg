\* Three handles and another process racing for one line.
SPECIFICATION Spec
CONSTANTS
  Handles = {h1, h2, h3}
  Lines = {l1}
  Other = Other
  Nobody = Nobody
  OpenArgs = {"in"}
  DirectionArgs = {"in"}
  EdgeArgs = {"none"}
  InvertedArgs = {FALSE}
  Retries = 2
SYMMETRY Symmetry
INVARIANTS ExportedByHandle ExporterKeepsLine
