SPECIFICATION Spec
CONSTANTS
  MaxEvents = 1
  MaxSignals = 2
INVARIANTS
  UsedInTime
  DestroyedAlone
PROPERTIES
  TimedRunEnds
  SignalStops
