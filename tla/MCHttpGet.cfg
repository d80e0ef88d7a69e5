CONSTANTS
  Modulus = 12
  SizeMod = 24
  Ports = 4
  ClientIss = 1
  PeerIss = {9}
  Chunks = 2
  BufCap = 2
  RawCap = 4
  Responses <- MCResponses
  MaxRedirect = 2
  MaxConn = 3
SPECIFICATION Spec
INVARIANTS
  TypeOK
  WriteReached
  NoDowngrade
  BodyWhole
PROPERTY
  ImplementsStream
