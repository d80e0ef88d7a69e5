CONSTANTS
  Servers = {s1, s2}
  None = None
  Static = Static
  OptionSets <- MCOptionSets
  PhaseTimeout = 2
  Resend = 1
  MaxPhase = 3
  MaxFrames = 3
SPECIFICATION FairSpec
INVARIANTS
  LeaseAgreed
  FallbackJustified
  BoundedRetransmission
PROPERTIES
  ImplementsLeaseAcquire
  AcquireTerminates
