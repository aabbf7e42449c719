SPECIFICATION SamplerSpec
CONSTANTS
  Elem = {e1, e2, e3, e4, e5}
  Record <- Records
  RecordWeight <- SquareWeights
  NoParent = 0
  NAtoms = 3
  Core <- ThreeAtoms
  Blocks = {}
  Clauses <- DriftClauses
  Hard = {}
  NSamples = 1
  NSteps = 3
  RelAtom <- ChainAtoms
  RelClauses <- ChainClauses
  Query <- ChainQuery
  Configs <- ChainConfigs
  Rounds = 2
  v1 = v1
  v2 = v2
  Null = Null
  Value = {v1, v2}
  Theta = 30
  Inputs <- AllInputs
INVARIANTS
  SliceSatisfied
