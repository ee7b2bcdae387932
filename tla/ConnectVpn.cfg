\* From the list of nodes to the routes, over every order of answers and a few lists of routes.
SPECIFICATION ConnectSpec
CONSTANTS
  Width <- MCWidth
  Bad = Bad
  Lists <- MCLists
  Answers <- MCAnswers
  MaxNodes = 3
  Latency = {1, 2}
  Failed = Failed
  Hostname = Hostname
  Any = Any
  Offers <- MCOffers
  Wanted <- MCWanted
INVARIANTS
  
  ChoiceIsBest
  ListIsComplete
  NoNeedlessWait
  ConnectTypeOK
  
PROPERTIES
  HolesAddNoOverlap
  ChoiceEnds
CHECK_DEADLOCK FALSE
