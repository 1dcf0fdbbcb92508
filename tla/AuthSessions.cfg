SPECIFICATION AuthSpec
CONSTANTS
  Nil = Nil
  mail1 = mail1
  mail2 = mail2
  name = name
  Handlers = {r1, r2, r3}
  Accounts <- MCOneAccount
  Tokens = {t1}
  AttemptLimit = 1
  Window = 1
  SessionLife = 2
  TouchAfter = 0
  PoolSize = 2
  MaxTime = 2
  ClientOps = {"login", "use", "logout"}
INVARIANTS
  AttemptsAreCounted
PROPERTIES
  SignOutIsFinal
SYMMETRY MCSymmetry
