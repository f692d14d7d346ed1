CONSTANTS
  Nil = Nil
  Contents <- MCContents
  MaxPublish = 3
SPECIFICATION Spec
INVARIANTS
  TypeOK
  HoldsOneVersion
PROPERTIES
  LastGoodUnlessBlank
  CatchesUp
