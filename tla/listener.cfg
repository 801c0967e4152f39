SPECIFICATION Spec
CONSTANTS
  Book <- MCBook
  Verified <- MCVerified
  Carries <- MCCarries
  Blocked = {"bob"}
  Muted = {"ann"}
  Conns = {"c1", "c2", "c3"}
  MaxServices = 2
  MaxMishaps = 1
  MaxChanges = 1
  HS_MAX_CONCURRENT_CONNS = 2
  HS_INBOUND_QUEUE_CAP = 1
  MAX_FRAMES_PER_CONN = 2
CHECK_DEADLOCK FALSE
INVARIANTS
  SlotsMatchHandlers
  ShownOnce
PROPERTIES
  DropsReported
  Heard
