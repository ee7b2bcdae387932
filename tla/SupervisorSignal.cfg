\* A termination signal that is pending while a request is being served is dropped.
SPECIFICATION FairSpec
CONSTANTS
  Specs = {s1, s2}
  NoSpec = NoSpec
  Backends = {"libwg"}
PROPERTY SignalStopsHelper
CHECK_DEADLOCK FALSE
