CONSTANTS
  Policies <- MCPolicies
  Bindings <- MCBindings
  Roles <- MCRoles
  Perms <- MCPerms
  Apps <- MCApps
  MaxPolicies = 2
  MaxBindings = 2
SPECIFICATION Spec
INVARIANTS
  UnionOfBoundPolicies
CHECK_DEADLOCK FALSE
