SPECIFICATION Spec
CONSTANTS
  MaxVisits = 2
  MaxInvalidations = 1
INVARIANTS
  ButtonMeansFinished
  SoleRunShown
PROPERTIES
  Answered
