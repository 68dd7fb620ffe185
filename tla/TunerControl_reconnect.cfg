SPECIFICATION FairSpec
CONSTANTS
  XdrClients = {x1}
  FmdxClients = {}
  RestThreads = {}
  Commands = {"x"}
  Freqs = {f0}
  InitialFreq = f0
  ScanCenter = centre
  Bandwidths = {0}
  SdrPlay = FALSE
  AutoReconnect = TRUE
  AutoStart = FALSE
  MayInterrupt = FALSE
  ReadFailureLimit = 2
  SweepCenters = 1
  MuteBlocks = 1
  MaxCommands = 1
  MaxUnplugs = 1
  MaxGlitches = 0
PROPERTIES ReconnectsAfterLoss
