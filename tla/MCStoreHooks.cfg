CONSTANTS
  s1 = s1
  s2 = s2
  Stores <- MCStores
  QueuedStores <- MCQueuedStores
  ByteVals = {0, 1}
  MaxBatch = 2
  MaxIgnored = 1
SPECIFICATION HSpec
INVARIANT FollowerBatchesReported
