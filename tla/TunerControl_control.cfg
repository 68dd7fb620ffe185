SPECIFICATION Spec
CONSTANTS
  XdrClients = {x1}
  FmdxClients = {m1}
  RestThreads = {r1}
  Commands = {"T", "x", "X", "close"}
  Freqs = {f0, f1, f2}
  InitialFreq = f0
  ScanCenter = centre
  Bandwidths = {0}
  SdrPlay = FALSE
  AutoReconnect = FALSE
  AutoStart = TRUE
  MayInterrupt = FALSE
  ReadFailureLimit = 2
  SweepCenters = 1
  MuteBlocks = 2
  MaxCommands = 4
  MaxUnplugs = 0
  MaxGlitches = 1
SYMMETRY FreqSymmetry
INVARIANTS TypeOK StopWins IdleIsDisconnected XdrAgreement TunedAgreement SettleMuted
