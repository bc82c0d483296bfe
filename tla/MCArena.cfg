SPECIFICATION Spec
CONSTANTS
  Buffers <- MCBuffers
  Requests <- MCRequests
INVARIANTS
  BlocksSound
  RefusesOnlyWhenFull
