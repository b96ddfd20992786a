CONSTANTS
  s1 = s1
  s2 = s2
  m1 = m1
  m2 = m2
  Nil = Nil
  Stores <- MCStores
  QueuedStores <- MCQueuedStores
  WeightMaps <- MCWeightMaps
  PartialReports = FALSE
SPECIFICATION WSpec
INVARIANT WTypeOK
INVARIANT ShortCircuitSound
