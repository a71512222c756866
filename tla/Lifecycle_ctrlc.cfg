SPECIFICATION Spec
CONSTANTS
  MaxEvents = 1
  MaxSignals = 1
PROPERTY
  CtrlCEnds
