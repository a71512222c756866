SPECIFICATION FairSpec
CONSTANTS
  d1 = d1
  d2 = d2
  NULL = NULL
  Data <- MCData
  Capacity = 4
  MaxPush = 6
INVARIANTS
  FIFO
  NoSlotRace
  CountExact
  CapacityRounded
PROPERTIES
  QueueSpec
  AllDelivered
