CONSTANTS
  Nil = Nil
  Instances = {i1, i2, i3}
  Registries <- MCRegistries
  RequestHosts <- MCRequestHosts
  MaxPublish = 2
SPECIFICATION Spec
INVARIANTS
  TypeOK
  OneCache
  ResolvesAsPublished
PROPERTIES
  LastGoodUnlessBlank
  CatchesUp
  EveryNewReturns
