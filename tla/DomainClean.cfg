SPECIFICATION Spec
CONSTANTS
  NAttrs = 4
  Value = {v1, v2, v3, v4}
  v1 = v1
  v2 = v2
  v3 = v3
  v4 = v4
  Null = Null
  Inputs <- CleanInputs
INVARIANTS
  ValuesSound
  PassesSound
PROPERTIES
  LessToDo
