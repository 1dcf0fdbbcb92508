SPECIFICATION MCSpec
CONSTANTS
  None = None
  Sessions = {s1, s2, s3}
  Batches = {b1}
  Keys = {k1, k2}
  Sources = {maker, shop1, shop2, shop3}
  Manufacturers = {maker}
  Values = {40, 45}
  MaxObservations = 4
  NoValue = NoValue
  jack = jack
  oil = oil
  piece = piece
  litre = litre
  RequirementKeys = {jack, oil}
  Amounts = {1, 2}
  Units = {piece, litre}
  Unknown = Unknown
  Conflict = Conflict
  MaxUses = 3
  c1 = c1
  c2 = c2
  c3 = c3
  c4 = c4
  Readers = {r1}
  Versions = {1, 2}
  Claims = {c1, c2, c3, c4}
  Uses <- MCUses
  UseClaims <- MCUseClaims
  Procedure <- MCProcedure
  NoAnswer = NoAnswer
INVARIANTS
  PromotionIsByVotes
  QuantitiesAreNotInvented
  BoundKnowledgeIsPinned
PROPERTIES
  PromotionStands
SYMMETRY MCSymmetry
CHECK_DEADLOCK FALSE
