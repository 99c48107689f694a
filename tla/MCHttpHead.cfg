SPECIFICATION Spec
CONSTANTS
  Conns = {c1}
  Talking = {c1}
  Backends = {b1, b2}
  Methods = {"HEAD", "POST"}
  Codes = {200, 503}
  Framings = {"length", "close"}
  Retries = 2
  MaxRequests = 1
CHECK_DEADLOCK FALSE
INVARIANT HeadIsRelayed
