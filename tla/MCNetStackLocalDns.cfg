CONSTANTS
  Profiles = {qemu, openwrt}
  LocalDns = {qemu}
  Names = {a, b}
  Slots = 3
  IdMod = 2
  PortMod = 2
  StackFrames = 1
  MaxTick = 1
  MaxFrames = 2
  MaxCalls = 2
  None = None
SPECIFICATION Spec
PROPERTY
  GivesUpOnSilence
