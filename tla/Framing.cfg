CONSTANTS
  HeaderLen = 2
  BufferCapacity = 5
  FrameLens = {1, 3, 5}
  MaxFrames = 4
SPECIFICATION Spec
INVARIANT BufferSound
PROPERTY DeliversFrames
CHECK_DEADLOCK FALSE
