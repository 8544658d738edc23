\* Two handlers, three calls, and tokens that may expire at any time.
CONSTANTS
  Workers = {w1, w2}
  MaxCalls = 3
SPECIFICATION FairSpec
INVARIANTS
  ClientTypeOK
  HonouredOnce
PROPERTIES
  StaleTokenHeals
  CallsReturn
CHECK_DEADLOCK FALSE
