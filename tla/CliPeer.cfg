\* A server that is gone before the first handshake.
SPECIFICATION Spec
CONSTANT MaxMethods = 1
PROPERTY ServerLossEndsRun
