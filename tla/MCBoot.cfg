SPECIFICATION Spec
CONSTANTS
  Page <- MCPage
  Busy <- MCBusy
  Kernels <- MCKernels
  Slack = 2
  Grow = 1
  MaxDesc = 9
  MaxChurn = 2
INVARIANTS KernelIntact HandedOver ReplacedOnlyForFirmware
PROPERTIES BootAdvances BootEnds
