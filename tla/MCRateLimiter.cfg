CONSTANTS
  Nil = Nil
  Requests = {r1, r2}
  Clients = {c1}
  Callers <- MCCallers
  Everyone <- MCEveryone
  RedisKeys <- KeysOfCallers
  MaxCount = 2
  MaxOutages = 1
  Limit = 1
  Window = 2
  MaxTime = 3
SPECIFICATION Spec
INVARIANTS
  TypeOK
  WindowQuota
  ReplyMatchesCommand
  AllowancePerCaller
PROPERTIES
  RefusalEarned
  CreatorSetsLife
  EveryCheckEnds
  Recovers
