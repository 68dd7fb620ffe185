SPECIFICATION Spec
CONSTANTS
  RingSize = 4
  MaxRequest = 2
  MaxInFlight = 3
  Settle = 3
  EmptyLimit = 2
  MaxSamples = 6
INVARIANTS TypeOK RingIsStream WholeSamples MeasuredFresh
PROPERTIES Continuity
