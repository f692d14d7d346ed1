CONSTANTS
  Nil = Nil
  Spoofed = Spoofed
  Requests = {r1}
  Inputs <- PolicyInputs
  Config <- MCConfig
  RegistryContents <- MCRegistries
  SnapshotContents <- MCSnapshots
  MaxPublish = 2
  Plans <- MCPlans
  NumericIds <- MCNumericIds
  deriveUserID <- MCDerive
SPECIFICATION Spec
INVARIANTS
  UngatedOnlyWhenUnregistered
