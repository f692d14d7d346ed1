CONSTANTS
  Nil = Nil
  Requests = {r1, r2}
  Loop = Loop
  Kids <- MCKids
  Documents <- MCDocuments
  Cooldown = 1
  MaxPublish = 2
SPECIFICATION Spec
INVARIANTS
  TypeOK
  HoldsOneKeySet
PROPERTIES
  NoRegressionFromStart
  CallerCooled
  RotationPickedUp
