\* Two desktops, one after the other or side by side, and two launches.
SPECIFICATION Spec
CONSTANTS
  Desktop = {d1, d2}
  Helper = {h1, h2}
  None = None
INVARIANTS
  TypeOK
  OneHelperEach
  ServingIsReached
  StaleWasKilled
PROPERTIES
  OrphansEnd
  EnsureRunningEnds
CHECK_DEADLOCK FALSE
