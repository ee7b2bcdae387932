\* Every property of the helper process, for both kinds of backend.
SPECIFICATION FairSpec
CONSTANTS
  Specs = {s1, s2}
  NoSpec = NoSpec
  Backends <- MCBackends
INVARIANTS
  TypeOK
  DeviceIsActive
  RunningIsReal
PROPERTIES
  HelperPromise
  ParentExitStopsHelper
  ConnectionsEnd
\* A helper that has exited stays so.
CHECK_DEADLOCK FALSE
