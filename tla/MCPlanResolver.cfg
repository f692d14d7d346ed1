CONSTANTS
  Nil = Nil
  Requests = {r1, r2}
  Subjects <- MCSubjects
  Plans = {free, pro}
  TTL = 2
  Timeout = 1
SPECIFICATION Spec
INVARIANTS
  TypeOK
  BoundedStaleness
PROPERTIES
  Settles
