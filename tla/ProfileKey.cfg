\* A configure that is cut off before its private key is stored.
SPECIFICATION Spec
CONSTANTS
  Ids = {i1, i2}
  NoId = NoId
INVARIANT MissingKeyIsAnError
