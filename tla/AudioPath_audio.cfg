SPECIFICATION Spec
CONSTANTS
  Selections = {{"recorder", "speaker"}, {"mpxFile"}, {"mpxPlayer", "speaker"}}
  Backends = {"alsa", "coreaudio", "winmm"}
  Capacity = 4
  Chunk = 2
  Limit = 5
  BlockSizes = {1, 3}
  MaxSamples = 4
  MaxFaults = 1
  MaxClears = 1
CHECK_DEADLOCK FALSE
INVARIANTS StreamKept RecordingTrue NothingLeftOpen
PROPERTIES ShutdownReturns
