SPECIFICATION Spec
CONSTANTS
  Setups <- MCSetups
  AskedModes = {3}
  AskedGains = {40}
  AskedBands = {200}
  Signals <- MCQuiet
  ClipHeavy <- MCClipHeavy
  ClipNone <- MCClipNone
  MaxInputs = 2
CHECK_DEADLOCK FALSE
INVARIANT GainApplied
PROPERTY Settles
