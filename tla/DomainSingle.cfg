SPECIFICATION Spec
CONSTANTS
  NAttrs = 2
  Value = {v1, v2}
  v1 = v1
  v2 = v2
  v3 = v3
  v4 = v4
  Null = Null
  Inputs <- SingleInputs
INVARIANTS
  CorrectionsWritten
