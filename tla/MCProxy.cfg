SPECIFICATION ProxySpec
CONSTANTS
  Modes = {"l7", "l4"}
  Conns = {c1, c2}
  Talking = {c1}
  Backends = {b1, b2}
  Methods = {"GET", "HEAD", "POST"}
  Codes = {200, 503}
  Framings = {"length", "close"}
  Retries = 2
  MaxRequests = 2
  Manners = {"reply", "keep", "echo"}
  Request = 6
  Reply = 4
  Room = 2
  Chunk = 3
  MayDie = {"c", "u"}
CHECK_DEADLOCK FALSE
INVARIANTS ProxyInv RelayInv
PROPERTY ProxyEnds
