SPECIFICATION Spec
CONSTANTS
  Setups <- MCLadders
  AskedModes = {3}
  AskedGains = {40}
  AskedBands = {200}
  Signals <- MCCrowded
  ClipHeavy <- MCClipHeavy
  ClipNone <- MCClipNone
  MaxInputs = 0
CHECK_DEADLOCK FALSE
PROPERTY Settles
