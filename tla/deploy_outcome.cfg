SPECIFICATION FairSpec
INVARIANTS TypeOK SuccessMeansRunning FailureLeavesNothing
PROPERTIES FirstBootIsConfigured DeployReturns
