\* Run after run of the command-line client, each cut off anywhere.
SPECIFICATION Spec
CONSTANT MaxMethods = 2
INVARIANTS
  TypeOK
  DnsIsKept
  DnsIsRestored
  ExpiredSessionIsRenewed
PROPERTY LostPeerEndsRun
