CONSTANTS
  r1 = r1
  r2 = r2
  s1 = s1
  s2 = s2
  NoStore = NoStore
  Req <- MCReq
  Stores <- MCStores
  QueuedStores <- MCQueuedStores
  Tenants <- MCTenants
  Priorities <- MCPriorities
  Kinds <- MCKinds
  Cap = 1
SPECIFICATION Spec
INVARIANT TypeOK
INVARIANT TokensMatchHandle
