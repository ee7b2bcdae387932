\* Every write of the desktop's profile and keyring may fail or be the last.
SPECIFICATION Spec
CONSTANTS
  Ids = {i1, i2, i3}
  NoId = NoId
SYMMETRY Symmetry
INVARIANTS
  TypeOK
  MigrationKeepsSecrets
  ProfileIsRedacted
  IdentityIsDurable
  ForgottenStaysForgotten
  OwnSecrets
