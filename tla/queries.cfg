SPECIFICATION Spec
CONSTANTS
  Objects <- MCObjects
  Type <- MCType
  Above <- MCAbove
  Owner <- MCOwner
  VmFolder <- MCVmFolder
  None = "None"
  Inventories <- MCInventories
  Probes <- MCProbes
  Asked <- MCAsked
  FillKinds <- MCFill
  Calls = {c1, c2}
  Enabled = TRUE
  Ignored = {}
  IgnoredWhole = FALSE
  Refresh = TRUE
  Warmed <- MCWarmed
  CleanLists <- MCCleanLists
  MaxChanges = 1
  MaxFailures = 1
INVARIANTS TypeOK CleanIsFelt CachedAnswersAgree AnswersFit FilledIsFound TickersAreFound
SYMMETRY CallSymmetry
