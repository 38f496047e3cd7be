SPECIFICATION FairSpec
CONSTANTS
  Closures = {c1, c2}
  Requests <- MCRequests
  Layouts <- MCLayouts
  DiskCtrl = 10
  Stores = {"s1", "s2"}
  Networks = {"n1", "n2"}
  Names = {"s1", "s2", "s3", "n1", "n2", "None"}
  None = "None"
  Nobody = Nobody
  MaxUnit = 8
INVARIANTS TypeOK MovesOwnDisks SuccessIsPlaced RefusalsAreWarranted
PROPERTIES OnlyAskedChanges DevicesReturn
