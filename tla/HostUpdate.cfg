SPECIFICATION ConfigurationSpec
CONSTANTS
  c1 = c1
  c2 = c2
  v1 = v1
  v2 = v2
  here = here
  there = there
  Calls <- OneCall
  Scalars <- NoFields
  SingleRefs <- Period
  Arrays <- Groups
  Values <- TwoValues
  Containers <- TwoContainers
  Visible <- SeenFrom
  Default <- Defaults
  MaxTouched = 2
  w1 = w1
  w2 = w2
  k1 = k1
  k2 = k2
  t1 = t1
  t2 = t2
  Writers <- TwoWriters
  Spaces <- TwoSpaces
  Things <- TwoThings
  MaxMoves = 6
  Templates <- TwoTemplates
  Labels = {"a", "b", "c"}
  MaxRenames = 1
  Steps = {"x", "y"}
  MaxDepth = 3
  MaxPaths = 3
SYMMETRY ConfigurationSymmetry
INVARIANTS RefsInScopeButPair PairResetTogether StaysInScope EitherName TopsCoverOnce
PROPERTIES KeepsUnlessOvertaken RoundTripIdempotent
