CONSTANTS
  HeaderLen = 2
  BufferCapacity = 5
  FrameLens = {1, 6}
  MaxFrames = 2
SPECIFICATION Spec
PROPERTY DeliversFrames
CHECK_DEADLOCK FALSE
