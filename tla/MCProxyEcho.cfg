SPECIFICATION FairSpec
CONSTANTS
  Manners = {"echo"}
  Request = 8
  Reply = 5
  Room = 2
  Chunk = 3
  Retries = 2
  MayDie = {}
CHECK_DEADLOCK FALSE
PROPERTY AllRelayed
