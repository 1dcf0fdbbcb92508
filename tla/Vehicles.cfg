SPECIFICATION MCSpec
CONSTANTS
  NoRow = NoRow
  LX = LX
  EX = EX
  V6 = V6
  hybrid = hybrid
  Callers = {r1, r2}
  Rows = {c1, c2, c3}
  Fields = {"trim", "engine"}
  Structured = {"engine"}
  Words <- MCWords
  None = None
  Requests = {r1, r2}
  Vins = {v1}
  Identities = {civic, accord}
  Configurations = {x1}
  CacheHours = 1
  MaxClock = 1
  MaxChanges = 1
INVARIANTS
  HashNeverTaken
  AnswersStayCovered
  SavedVinIsRight
  NobodyWaitsInACircle
SYMMETRY MCSymmetry
