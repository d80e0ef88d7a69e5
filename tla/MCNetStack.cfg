CONSTANTS
  Profiles = {qemu, openwrt}
  LocalDns = {qemu}
  Names = {a, b}
  Slots = 3
  IdMod = 2
  PortMod = 2
  StackFrames = 1
  MaxTick = 1
  MaxFrames = 4
  MaxCalls = 2
  None = None
SYMMETRY Symmetry
SPECIFICATION Spec
INVARIANTS
  TypeOK
  AnswerIsForQuery
  FramesToGateway
PROPERTY
  RxInOrder
