CONSTANTS
  BusFields <- LongFields
  Bodies = {0, 3}
  MaxMsgs = 2
SPECIFICATION ConnFairSpec
INVARIANTS
  ExactMessages
CHECK_DEADLOCK FALSE
