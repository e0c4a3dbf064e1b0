CONSTANTS
  length = 5
  FrameSize = 2
  Chunks <- SmallChunks
  Backlog = 8
  Overlap = 4
  MAX_NUMBER_OF_COMMANDS = 4
  Commands = {"HOMING", "EACK"}
SPECIFICATION BuffersSpec
INVARIANTS LengthIsStored CountedIsThere CommandIsKept
PROPERTIES BufferIsQueue RingIsQueue
