SPECIFICATION FairAuthSpec
CONSTANTS
  Nil = Nil
  mail1 = mail1
  mail2 = mail2
  name = name
  Handlers = {r1, r2, r3}
  Accounts <- MCTwoAccounts
  Tokens = {t1, t2, t3}
  AttemptLimit = 1
  Window = 1
  SessionLife = 2
  TouchAfter = 0
  PoolSize = 3
  MaxTime = 0
  ClientOps = {"register"}
INVARIANTS
  OneAccountPerIdentity
PROPERTIES
  EveryAuthRequestEnds
