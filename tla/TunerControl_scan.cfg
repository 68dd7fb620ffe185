SPECIFICATION Spec
CONSTANTS
  XdrClients = {x1}
  FmdxClients = {}
  RestThreads = {r1}
  Commands = {"T", "W", "S", "Sm", "Sw", "cancel", "x", "X"}
  Freqs = {f0, f1}
  InitialFreq = f0
  ScanCenter = centre
  Bandwidths = {0, 1}
  SdrPlay = TRUE
  AutoReconnect = TRUE
  AutoStart = TRUE
  MayInterrupt = FALSE
  ReadFailureLimit = 1
  SweepCenters = 1
  MuteBlocks = 1
  MaxCommands = 3
  MaxUnplugs = 1
  MaxGlitches = 0
INVARIANTS ScanRestores DemodRate SweepRateKnown
