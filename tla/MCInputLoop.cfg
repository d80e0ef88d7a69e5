SPECIFICATION FairSpec
CONSTANTS
  Size = 3
  PacketSize = 3
  MaxKeys = 3
  MaxPackets = 2
INVARIANTS PacketsFramed
PROPERTIES RingsAreQueues InputIsServed
