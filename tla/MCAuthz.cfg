CONSTANTS
  Policies <- MCPolicies
  Bindings <- MCBindings
  Roles <- MCRoles
  Perms <- MCPerms
  Apps <- MCApps
  MaxPolicies = 2
  MaxBindings = 3
SPECIFICATION Spec
INVARIANTS
  UnionWhenBoundOnce
  HomeConfined
  IntrospectionAgrees
CHECK_DEADLOCK FALSE
