SPECIFICATION FairFederatedSpec
CONSTANTS Workers = {w1, w2}
          MaxMin = 2
          MaxRequests = 3
          MaxRuns = 2
INVARIANTS FederatedInv
PROPERTIES MergedNeverShrinks SubmissionsAnswered
CHECK_DEADLOCK FALSE
