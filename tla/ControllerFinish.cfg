\* Overlapping commands, the mutexes alone to keep them apart: whatever fails, every
\* command comes to its end and no server session is forgotten on the way.
SPECIFICATION FairSpec
CONSTANTS
  Tasks = {t1, t2}
  NoTask = NoTask
  Modes = {split}
  NoMode = NoMode
  MaxConf = 1
  MaxFaults = 1
  Gated = FALSE
INVARIANTS
  SessionAccounted
PROPERTIES
  CommandsFinish
