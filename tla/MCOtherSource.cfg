CONSTANTS
  Tenants <- MCTenants
  Priorities <- MCPriorities
SPECIFICATION CSpec
INVARIANT OtherSourceBypasses
