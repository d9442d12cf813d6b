SPECIFICATION PoolSpec
CONSTANTS
  Size = 4
  FIFO = TRUE
INVARIANTS Partition
PROPERTIES ImplementsTagQueue
