SPECIFICATION FairSpec
CONSTANTS
  XdrClients = {x1}
  FmdxClients = {}
  RestThreads = {r1}
  Commands = {"T", "Sm", "cancel", "x", "X"}
  Freqs = {f0, f1}
  InitialFreq = f0
  ScanCenter = centre
  Bandwidths = {0}
  SdrPlay = FALSE
  AutoReconnect = TRUE
  AutoStart = TRUE
  MayInterrupt = TRUE
  ReadFailureLimit = 2
  SweepCenters = 1
  MuteBlocks = 1
  MaxCommands = 2
  MaxUnplugs = 1
  MaxGlitches = 0
CHECK_DEADLOCK FALSE
PROPERTIES SettlesTuned DeadHandleReleased CancelEndsScan ShutdownCompletes
