SPECIFICATION TxSpec
CONSTANTS
  Wrap = 3
  MaxFrames = 6
  MaxExpired = 4
INVARIANTS WireInOrder DeviceBehind
PROPERTY TxReturns
