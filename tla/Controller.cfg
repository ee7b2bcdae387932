\* The window's own discipline: one connect, stop or cleanup at a time, next to
\* status polls and the auth commands, with up to two faults.
SPECIFICATION Spec
CONSTANTS
  Tasks = {t1, t2}
  NoTask = NoTask
  Modes = {split, socks}
  NoMode = NoMode
  MaxConf = 2
  MaxFaults = 2
  Gated = TRUE
SYMMETRY Symmetry
INVARIANTS
  TypeOK
  TunnelAccounted
  ActiveHasTunnel
PROPERTIES
  LedgerPromise
