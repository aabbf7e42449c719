SPECIFICATION Spec
CONSTANTS
  MaxVisits = 2
  MaxInvalidations = 0
INVARIANTS
  ServerUndisturbed
