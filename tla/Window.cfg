\* The window with two invocations under way: a poll and a command, two modes' polls, a
\* reset that overtakes a refresh, next to helpers that die and sessions that expire.
SPECIFICATION Spec
CONSTANTS
  Modes = {split, socks}
  NoMode = NoMode
  FirstMode = split
  MaxCalls = 2
INVARIANTS
  CommandsDoNotOverlap
PROPERTIES
  SnapshotSettles
  QrGoesAway
