SPECIFICATION Spec
CONSTANTS
  NAtoms = 5
  Clauses <- MixedClauses
  Core = {1, 2, 3, 4}
  Blocks = {{1, 2, 3}}
  initStrategy = "COPY_LOW"
  NTries = 2
  NSteps = 5
INVARIANTS
  IncrementsExact
  LowIsReal
  BlocksExclusive
PROPERTIES
  OthersUntouched
