SPECIFICATION Spec
CONSTANTS
  Nobody = Nobody
  Client = {c1, c2}
  FileName = {f1, f2}
  MaxFaults = 1
  MaxRounds = 2
INVARIANTS
  SessionIsOwn
