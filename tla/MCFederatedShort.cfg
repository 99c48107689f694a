SPECIFICATION FederatedSpec
CONSTANTS Workers = {w1, w2}
          MaxMin = 2
          MaxRequests = 2
          MaxRuns = 1
INVARIANT ExitZeroMeansWhole
CHECK_DEADLOCK FALSE
