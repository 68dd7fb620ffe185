SPECIFICATION Spec
CONSTANTS
  Items <- MCItems
  Lines <- MCLines
  Band <- MCBand
  Rates <- MCRates
  Sweep <- MCSweep
  Readings <- MCReadings
  Saturation <- MCSaturation
  MinClean = 2
  MaxItems = 2
  MaxInput = 3
  MaxFaults = 1
CHECK_DEADLOCK FALSE
INVARIANTS AsAsked GivesBack WindowSound
