SPECIFICATION Spec
CONSTANTS
  Objects <- MCObjects
  Type <- MCType
  Above <- MCAbove
  Owner <- MCOwner
  VmFolder <- MCVmFolder
  None = "None"
  Inventories <- MCInventories
  Probes <- MCNone
  Asked <- MCNone
  FillKinds <- MCFillDatacenters
  Calls = {c1, c2}
  Enabled = TRUE
  Ignored = {}
  IgnoredWhole = FALSE
  Refresh = TRUE
  Warmed <- MCNone
  CleanLists <- MCNone
  MaxChanges = 1
  MaxFailures = 1
INVARIANTS EveryTickerIsFound
SYMMETRY CallSymmetry
