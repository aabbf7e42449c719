SPECIFICATION Spec
CONSTANTS
  Nobody = Nobody
  Client = {c1, c2}
  FileName = {f1, f2}
  MaxFaults = 1
  MaxRounds = 3
SYMMETRY Symmetric
INVARIANTS
  AloneOwn
  HeaderMatchesData
  ErrorsStopFreshServer
