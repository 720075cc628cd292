SPECIFICATION Spec
CONSTANTS
  Streams = {a, b, c, d}
  NoStream = NoStream
  NumSlots = 1
  MaxChunks = 2
SYMMETRY StreamSymmetry
INVARIANTS
  SlotsPartition
  OwnContext
  DoneReleased
PROPERTY
  StoreSpec
CHECK_DEADLOCK FALSE
